----------------------------- MODULE RendezInv ------------------------------
(***************************************************************************)
(* The inductive invariant behind the safety properties of Rendez: who     *)
(* holds which lock at which point of the code, what a registration looks  *)
(* like, and the properties themselves, each extended over the window in   *)
(* which a thread has decided to sleep and still holds the Rendez lock.    *)
(***************************************************************************)
EXTENDS Rendez

\* The points of sleep_common and tsleep_common at which each lock is held.
HoldsWait   == {"lockT", "lockR", "check", "stopcheck", "observe", "relockT", "relockR"}
HoldsTimer  == {"lockR", "check", "stopcheck", "observe", "relockR"}
HoldsRendez == {"check", "stopcheck", "observe"}

\* A wait_lock is held by its owner between the sleep's lock and unlock, or by
\* the walk that is looking at the owner.
WaitLockInv ==
    \A t \in Threads :
        /\ wait_lock[t] = t <=> pc[t] \in HoldsWait
        /\ wait_lock[t] = Walker <=> walk.peer = t
        /\ wait_lock[t] \in {t, Walker, None}

\* The timer lock is held by a tsleep, a wakeup() or the scan; only a tsleep
\* waits for it.
TimerLockInv ==
    /\ \A t \in Threads :
          /\ timer_lock = t <=> Timed(t) /\ pc[t] \in HoldsTimer
          /\ pc[t] \in {"lockT", "relockT"} => Timed(t)
    /\ \A w \in Wakers : timer_lock = w <=> wpc[w] \in {"wrendez", "tick"}

\* A Rendez lock is held by the owner's sleep or a wakeup() past its lookup.
RendezLockInv ==
    /\ \A r \in Rendezs :
          /\ r_lock[r] = Owner(r) <=> Cur(Owner(r)) = r /\ pc[Owner(r)] \in HoldsRendez
          /\ r_lock[r] \in {Owner(r), None} \cup Wakers
    /\ \A w \in Wakers, r \in Rendezs : r_lock[r] = w <=> wpc[w] = "wspin" /\ wrendez[w] = r

\* Where a waker is says what it holds: a Rendez while inside wakeup(), and
\* behind r->lock a waiter that cannot go away.
WakerInv ==
    /\ \A w \in Wakers :
          /\ wrendez[w] = None <=> wpc[w] \in {"idle", "unlock"}
          /\ wpc[w] = "unlock" => w = Walker
          /\ wpc[w] = "tick" => w = Ticker
    /\ wpc[Ticker] \in {"idle", "tick"}
    /\ walk.peer = None <=> wpc[Walker] = "idle"

\* A wakeup() past its lookup holds on to a waiter.
SpinInv ==
    \A w \in Wakers : wpc[w] = "wspin" => waiter[wrendez[w]] = Owner(wrendez[w])

\* The scan holds on to an expired sleeper that is off its CPU.
TickInv ==
    wpc[Ticker] = "tick" =>
        \E t \in timerwait : wrendez[Ticker] = WaitOf(t) /\ ~on_cpu[t] /\ expired[t]

\* Where a thread is says what it looks like from outside: whether it is on a
\* CPU, its state, its back reference, and the Rendez that names it.
ThreadInv ==
    \A t \in Threads :
        /\ on_cpu[t] <=> pc[t] # "asleep"
        /\ pc[t] \in {"observe", "switching"} => state[t] = "SLEEPING"
        /\ pc[t] = "asleep" => state[t] \in {"SLEEPING", "RUNNABLE"}
        /\ pc[t] = "dead" => state[t] = "EXITING"
        /\ pc[t] \notin {"observe", "switching", "asleep", "dead"} => state[t] = "RUNNING"
        /\ pc[t] \notin SleepPCs => kind[t] = "wait"

BackInv ==
    \A t \in Threads :
        /\ pc[t] \in {"observe", "switching", "asleep", "relock"} => blockedOn[t] = Cur(t)
        /\ pc[t] \notin {"observe", "switching", "asleep", "relock"} => blockedOn[t] = None

WaiterInv ==
    \A r \in Rendezs :
        /\ waiter[r] \in {Owner(r), None}
        /\ waiter[r] = Owner(r) <=> state[Owner(r)] = "SLEEPING" /\ Cur(Owner(r)) = r

\* NoLostWakeup from the moment the condition was found false.
WakeupInv ==
    \A t \in Threads :
        cond[t] /\ kind[t] = "wait" /\ (pc[t] = "stopcheck" \/ waiter[WaitOf(t)] = t) =>
            WakeInFlight(WaitOf(t))

\* NoLostDeath and NoLostLatch hold from the moment the death was not observed.
DeathInv ==
    group_exit => \A t \in Threads, k \in Kinds :
        waiter[RendezOf(t, k)] = t /\ pc[t] # "observe" =>
            WalkOwes(t, {"kill"}) \/ WakeInFlight(RendezOf(t, k))

LatchInv ==
    latch => \A t \in Threads :
        waiter[WaitOf(t)] = t /\ pc[t] # "observe" =>
            WalkOwes(t, {"latch"}) \/ WakeInFlight(WaitOf(t))

\* NoLostStop from the moment the stop was not, or the park's end not, seen.
StopInv ==
    StopRequested => \A t \in Threads :
        waiter[WaitOf(t)] = t =>
            WalkOwes(t, {"stop debug", "stop job"}) \/ WakeInFlight(WaitOf(t))

ParkInv ==
    ~StopRequested => \A t \in Threads :
        kind[t] = "debug" /\ (pc[t] = "stopcheck" \/ waiter[DebugOf(t)] = t) =>
            WalkOwes(t, {"resume debug", "resume job", "kill"}) \/ WakeInFlight(DebugOf(t))

\* A thread whose deadline flag or result says timeout is past its deadline.
DeadlineInv ==
    \A t \in Threads :
        /\ rc[t] = "TIMEDOUT" => expired[t]
        /\ t \in TimedThreads /\ sleep_timedout[t] /\ InCall(t) => expired[t]

Structure ==
    /\ WaitLockInv /\ TimerLockInv /\ RendezLockInv
    /\ WakerInv /\ SpinInv /\ TickInv
    /\ ThreadInv /\ BackInv /\ WaiterInv
    /\ TimerListExact

Delivery == WakeupInv /\ DeathInv /\ LatchInv /\ StopInv /\ ParkInv /\ DeadlineInv

\* The inductive invariant.
IInv == TypeOK /\ Structure /\ Delivery
=============================================================================
