------------------------------- MODULE Rendez -------------------------------
(***************************************************************************)
(* The kernel's wait/wake primitive at lock granularity: sleep(), tsleep() *)
(* and sleep_death_only() against wakeup(), the timer scan, and the walks  *)
(* that end waits from outside (group death, a terminate latch, a stop and *)
(* its resume), for the threads of one Proc.  kernel/sched.c, with the     *)
(* walks and the EL0-return tail of kernel/proc.c.                         *)
(*                                                                         *)
(* Each thread owns two Rendezes: the one its blocking call sleeps on      *)
(* (WaitOf) and its debug_rendez, on which it parks while stopped.  Every  *)
(* lock acquisition is a step of its own; the work done under a lock is    *)
(* cut wherever it reads a word another CPU writes without that lock.      *)
(* The waits modelled are the ones that do not opt in to caught notes.     *)
(***************************************************************************)
EXTENDS Naturals, FiniteSets

CONSTANTS
    Threads,      \* the threads of the Proc
    Producers,    \* CPUs that make a wait condition true and call wakeup()
    TimedThreads, \* the threads whose call is tsleep() with a deadline
    Unwinders,    \* the threads that run with stop_unwinds set
    Walks,        \* the walks other CPUs may start over the thread list
    Walker,       \* whoever holds g_proc_table_lock for a walk
    Ticker,       \* the CPU running timerwait_tick()
    None          \* NULL; a lock nobody holds

AllWalks == {"kill", "latch", "stop debug", "stop job", "resume debug", "resume job"}

Wakers == Producers \cup {Walker, Ticker}

ASSUME ConstantsAssumption ==
    /\ TimedThreads \subseteq Threads
    /\ Unwinders \subseteq Threads
    /\ Walks \subseteq AllWalks
    /\ Threads \cap Wakers = {}
    /\ Walker \notin Producers /\ Ticker \notin Producers /\ Walker # Ticker
    /\ None \notin Threads \cup Wakers \cup (Threads \X {"wait", "debug"})

VARIABLES
    \* per thread
    pc,             \* where it is; see the actions
    state,          \* Thread.state
    on_cpu,         \* Thread.on_cpu: its registers are still being saved or it runs
    kind,           \* which of its Rendezes the current sleep uses: "wait" or "debug"
    parkedFrom,     \* who called the stop park: the EL0-return "tail" or a blocking "call"
    rc,             \* the result of the last sleep
    blockedOn,      \* Thread.rendez_blocked_on
    sleep_timedout, \* Thread.sleep_timedout
    expired,        \* the counter has reached the call's deadline
    cond,           \* the condition of the thread's blocking call
    \* per Rendez
    waiter,
    \* locks: who holds them
    wait_lock, r_lock, timer_lock,
    \* the timer-wait list
    timerwait,
    \* per Proc
    group_exit,     \* group_exit_msg # NULL
    stops,          \* the stop owners whose request is set: debug_stop_req, job_stop_req
    latch,          \* a terminate latch is armed
    \* wakers
    wpc, wrendez,   \* where a waker is in wakeup(), and on which Rendez
    walk            \* the walk in progress: its kind, the threads left, the current one

threadVars == <<pc, state, on_cpu, kind, parkedFrom, rc, blockedOn, sleep_timedout, expired, cond>>
lockVars   == <<wait_lock, r_lock, timer_lock>>
procVars   == <<group_exit, stops, latch>>
wakerVars  == <<wpc, wrendez, walk>>
vars == <<threadVars, lockVars, procVars, wakerVars, waiter, timerwait>>

Kinds   == {"wait", "debug"}
Rendezs == Threads \X Kinds
RendezOf(t, k) == <<t, k>>
Owner(r)   == r[1]
WaitOf(t)  == RendezOf(t, "wait")
DebugOf(t) == RendezOf(t, "debug")
Cur(t)     == RendezOf(t, kind[t])

NoWalk == [what |-> "none", todo |-> {}, peer |-> None]

Init ==
    /\ pc = [t \in Threads |-> "el0"]
    /\ state = [t \in Threads |-> "RUNNING"]
    /\ on_cpu = [t \in Threads |-> TRUE]
    /\ kind = [t \in Threads |-> "wait"]
    /\ parkedFrom = [t \in Threads |-> "tail"]
    /\ rc = [t \in Threads |-> "OK"]
    /\ blockedOn = [t \in Threads |-> None]
    /\ sleep_timedout = [t \in Threads |-> FALSE]
    /\ expired = [t \in Threads |-> FALSE]
    /\ cond = [t \in Threads |-> FALSE]
    /\ waiter = [r \in Rendezs |-> None]
    /\ wait_lock = [t \in Threads |-> None]
    /\ r_lock = [r \in Rendezs |-> None]
    /\ timer_lock = None
    /\ timerwait = {}
    /\ group_exit = FALSE
    /\ stops = {}
    /\ latch = FALSE
    /\ wpc = [w \in Wakers |-> "idle"]
    /\ wrendez = [w \in Wakers |-> None]
    /\ walk = NoWalk

-----------------------------------------------------------------------------
(* What a sleeping thread asks about its Proc.                             *)

\* proc_stop_owned, proc_stop_requested: a dying group is never asked to park.
StopOwned     == stops # {}
StopRequested == StopOwned /\ ~group_exit

\* The park's condition is stop_park_wake_cond, the call's is its own.
CondHolds(t) == IF kind[t] = "debug" THEN ~StopRequested ELSE cond[t]

\* sleep_death_pending: a park is death-only, a call also honours the latch.
DeathPending(t) == group_exit \/ (kind[t] = "wait" /\ latch)

\* Only the call of a TimedThread has a deadline; the park never has.
Timed(t) == kind[t] = "wait" /\ t \in TimedThreads

-----------------------------------------------------------------------------
(* sleep_common and tsleep_common                                          *)

\* A step that only moves on.
Goto(t, l) ==
    /\ pc' = [pc EXCEPT ![t] = l]
    /\ UNCHANGED <<state, on_cpu, kind, parkedFrom, rc, blockedOn, sleep_timedout, expired, cond>>
    /\ UNCHANGED <<lockVars, procVars, wakerVars, waiter, timerwait>>

\* MUTANT: tsleep leaves the timeout flag of the last wait set.
SyscallKeepsTimeout(t) ==
    /\ pc[t] = "el0"
    /\ pc' = [pc EXCEPT ![t] = "lock"]
    /\ UNCHANGED <<state, on_cpu, kind, parkedFrom, rc, blockedOn, sleep_timedout, expired, cond>>
    /\ UNCHANGED <<lockVars, procVars, wakerVars, waiter, timerwait>>

\* A blocking syscall. tsleep clears the timeout flag of an earlier wait.
Syscall(t) ==
    /\ pc[t] = "el0"
    /\ pc' = [pc EXCEPT ![t] = "lock"]
    /\ kind' = [kind EXCEPT ![t] = "wait"]
    /\ sleep_timedout' = [sleep_timedout EXCEPT ![t] = FALSE]
    /\ UNCHANGED <<state, on_cpu, parkedFrom, rc, blockedOn, expired, cond>>
    /\ UNCHANGED <<lockVars, procVars, wakerVars, waiter, timerwait>>

\* Inside sleep_common or tsleep_common, possibly in the park a stop nested there.
SleepPCs == {"lock", "lockT", "lockR", "check", "stopcheck", "observe",
             "switching", "asleep", "relock", "relockT", "relockR"}
InCall(t) == pc[t] \in SleepPCs /\ (kind[t] = "wait" \/ parkedFrom[t] = "call")

\* The counter passes the deadline of a call in progress.
Expire(t) ==
    /\ t \in TimedThreads /\ ~expired[t] /\ InCall(t)
    /\ expired' = [expired EXCEPT ![t] = TRUE]
    /\ UNCHANGED <<pc, state, on_cpu, kind, parkedFrom, rc, blockedOn, sleep_timedout, cond>>
    /\ UNCHANGED <<lockVars, procVars, wakerVars, waiter, timerwait>>

\* spin_lock_irqsave(&t->wait_lock), on entry and on resume. On resume the
\* owner takes back rendez_blocked_on; nobody else ever writes it.
LockWait(t) ==
    /\ pc[t] \in {"lock", "relock"}
    /\ wait_lock[t] = None
    /\ wait_lock' = [wait_lock EXCEPT ![t] = t]
    /\ blockedOn' = IF pc[t] = "relock" THEN [blockedOn EXCEPT ![t] = None] ELSE blockedOn
    /\ pc' = [pc EXCEPT ![t] = IF pc[t] = "lock"
                                THEN IF Timed(t) THEN "lockT" ELSE "lockR"
                                ELSE IF Timed(t) THEN "relockT" ELSE "relockR"]
    /\ UNCHANGED <<state, on_cpu, kind, parkedFrom, rc, sleep_timedout, expired, cond>>
    /\ UNCHANGED <<r_lock, timer_lock, procVars, wakerVars, waiter, timerwait>>

\* tsleep: spin_lock(&g_timerwait.lock) between the two.
LockTimer(t) ==
    /\ pc[t] \in {"lockT", "relockT"}
    /\ timer_lock = None
    /\ timer_lock' = t
    /\ pc' = [pc EXCEPT ![t] = IF pc[t] = "lockT" THEN "lockR" ELSE "relockR"]
    /\ UNCHANGED <<state, on_cpu, kind, parkedFrom, rc, blockedOn, sleep_timedout, expired, cond>>
    /\ UNCHANGED <<wait_lock, r_lock, procVars, wakerVars, waiter, timerwait>>

\* Drop every lock the sleep holds.
ReleaseAll(t) ==
    /\ r_lock' = [r_lock EXCEPT ![Cur(t)] = None]
    /\ timer_lock' = IF Timed(t) THEN None ELSE timer_lock
    /\ wait_lock' = [wait_lock EXCEPT ![t] = None]

\* Return c from the current sleep. A park returns to its caller: the loop of
\* el0_stop_park, or the detour, which takes the call's locks again. A call
\* returns to its caller, which consumes a condition it saw true.
Return(t, c) ==
    /\ ReleaseAll(t)
    /\ rc' = [rc EXCEPT ![t] = c]
    /\ pc' = [pc EXCEPT ![t] = IF kind[t] = "wait" THEN "tail"
                                ELSE IF parkedFrom[t] = "tail" THEN "park" ELSE "lock"]
    /\ kind' = [kind EXCEPT ![t] = "wait"]
    /\ cond' = [cond EXCEPT ![t] = @ /\ ~(kind[t] = "wait" /\ c = "OK")]
    /\ UNCHANGED <<state, on_cpu, parkedFrom, blockedOn, sleep_timedout, expired>>
    /\ UNCHANGED <<procVars, wakerVars, waiter, timerwait>>

\* Into the loop with every lock held.
HoldRendez(t) ==
    /\ r_lock' = [r_lock EXCEPT ![Cur(t)] = t]
    /\ pc' = [pc EXCEPT ![t] = "check"]
    /\ UNCHANGED <<state, on_cpu, kind, parkedFrom, rc, blockedOn, sleep_timedout, expired, cond>>
    /\ UNCHANGED <<wait_lock, timer_lock, procVars, wakerVars, waiter, timerwait>>

\* spin_lock(&r->lock), and the first question asked under it: on entry, what
\* the detour's park returned; on resume, whether a death woke us.
LockRendez(t) ==
    /\ pc[t] \in {"lockR", "relockR"}
    /\ r_lock[Cur(t)] = None
    /\ IF \/ pc[t] = "lockR" /\ kind[t] = "wait" /\ rc[t] = "INTR"
          \/ pc[t] = "relockR" /\ DeathPending(t)
       THEN Return(t, "INTR")
       ELSE HoldRendez(t)

\* The head of the loop: the condition has precedence over the deadline.
Check(t) ==
    /\ pc[t] = "check"
    /\ IF CondHolds(t) THEN Return(t, "OK")
       ELSE IF Timed(t) /\ (sleep_timedout[t] \/ expired[t]) THEN Return(t, "TIMEDOUT")
       ELSE Goto(t, "stopcheck")

\* Go to sleep on the debug_rendez: sleep_death_only.
StartPark(t, from) ==
    /\ pc' = [pc EXCEPT ![t] = "lock"]
    /\ kind' = [kind EXCEPT ![t] = "debug"]
    /\ parkedFrom' = [parkedFrom EXCEPT ![t] = from]
    /\ UNCHANGED <<state, on_cpu, rc, blockedOn, sleep_timedout, expired, cond>>
    /\ UNCHANGED <<procVars, wakerVars, waiter, timerwait>>

\* The stop detour: unwind if the thread may not park, else park on the
\* debug_rendez with the call's locks dropped.
Detour(t) ==
    /\ pc[t] = "stopcheck" /\ kind[t] = "wait" /\ StopRequested
    /\ IF t \in Unwinders
       THEN Return(t, "INTR")
       ELSE /\ ReleaseAll(t)
            /\ StartPark(t, "call")

\* MUTANT: the back reference names the thread, not the Rendez.
RegisterWrongBackref(t) ==
    /\ pc[t] = "stopcheck" /\ ~(kind[t] = "wait" /\ StopRequested)
    /\ waiter' = [waiter EXCEPT ![Cur(t)] = t]
    /\ blockedOn' = [blockedOn EXCEPT ![t] = t]
    /\ state' = [state EXCEPT ![t] = "SLEEPING"]
    /\ timerwait' = IF Timed(t) THEN timerwait \cup {t} ELSE timerwait
    /\ pc' = [pc EXCEPT ![t] = "observe"]
    /\ UNCHANGED <<on_cpu, kind, parkedFrom, rc, sleep_timedout, expired, cond>>
    /\ UNCHANGED <<lockVars, procVars, wakerVars>>

\* MUTANT: no stop check between the condition and the registration.
RegisterThroughStop(t) ==
    /\ pc[t] = "stopcheck"
    /\ waiter' = [waiter EXCEPT ![Cur(t)] = t]
    /\ blockedOn' = [blockedOn EXCEPT ![t] = Cur(t)]
    /\ state' = [state EXCEPT ![t] = "SLEEPING"]
    /\ timerwait' = IF Timed(t) THEN timerwait \cup {t} ELSE timerwait
    /\ pc' = [pc EXCEPT ![t] = "observe"]
    /\ UNCHANGED <<on_cpu, kind, parkedFrom, rc, sleep_timedout, expired, cond>>
    /\ UNCHANGED <<lockVars, procVars, wakerVars>>

\* Register on the Rendez and, with a deadline, on the timer-wait list.
Register(t) ==
    /\ pc[t] = "stopcheck" /\ ~(kind[t] = "wait" /\ StopRequested)
    /\ waiter' = [waiter EXCEPT ![Cur(t)] = t]
    /\ blockedOn' = [blockedOn EXCEPT ![t] = Cur(t)]
    /\ state' = [state EXCEPT ![t] = "SLEEPING"]
    /\ timerwait' = IF Timed(t) THEN timerwait \cup {t} ELSE timerwait
    /\ pc' = [pc EXCEPT ![t] = "observe"]
    /\ UNCHANGED <<on_cpu, kind, parkedFrom, rc, sleep_timedout, expired, cond>>
    /\ UNCHANGED <<lockVars, procVars, wakerVars>>

\* Register-then-observe, the death arm: undo the registration and return.
ObserveDeath(t) ==
    /\ pc[t] = "observe" /\ DeathPending(t)
    /\ waiter' = [waiter EXCEPT ![Cur(t)] = None]
    /\ blockedOn' = [blockedOn EXCEPT ![t] = None]
    /\ state' = [state EXCEPT ![t] = "RUNNING"]
    /\ timerwait' = timerwait \ {t}
    /\ ReleaseAll(t)
    /\ rc' = [rc EXCEPT ![t] = "INTR"]
    /\ pc' = [pc EXCEPT ![t] = IF kind[t] = "wait" THEN "tail"
                                ELSE IF parkedFrom[t] = "tail" THEN "park" ELSE "lock"]
    /\ kind' = [kind EXCEPT ![t] = "wait"]
    /\ UNCHANGED <<on_cpu, parkedFrom, sleep_timedout, expired, cond>>
    /\ UNCHANGED <<procVars, wakerVars>>

\* ... and the other: drop the locks and call sched().
ObserveNone(t) ==
    /\ pc[t] = "observe" /\ ~DeathPending(t)
    /\ ReleaseAll(t)
    /\ pc' = [pc EXCEPT ![t] = "switching"]
    /\ UNCHANGED <<state, on_cpu, kind, parkedFrom, rc, blockedOn, sleep_timedout, expired, cond>>
    /\ UNCHANGED <<procVars, wakerVars, waiter, timerwait>>

\* The next thread's sched_finish_task_switch: t's registers are saved.
SwitchOut(t) ==
    /\ pc[t] = "switching"
    /\ pc' = [pc EXCEPT ![t] = "asleep"]
    /\ on_cpu' = [on_cpu EXCEPT ![t] = FALSE]
    /\ UNCHANGED <<state, kind, parkedFrom, rc, blockedOn, sleep_timedout, expired, cond>>
    /\ UNCHANGED <<lockVars, procVars, wakerVars, waiter, timerwait>>

\* A CPU picks the readied thread; sched() returns in it.
SwitchIn(t) ==
    /\ pc[t] = "asleep" /\ state[t] = "RUNNABLE"
    /\ pc' = [pc EXCEPT ![t] = "relock"]
    /\ state' = [state EXCEPT ![t] = "RUNNING"]
    /\ on_cpu' = [on_cpu EXCEPT ![t] = TRUE]
    /\ UNCHANGED <<kind, parkedFrom, rc, blockedOn, sleep_timedout, expired, cond>>
    /\ UNCHANGED <<lockVars, procVars, wakerVars, waiter, timerwait>>

-----------------------------------------------------------------------------
(* The EL0-return tail, .Lel0_return: die check, stop check, notes.        *)

\* An interrupt taken at EL0 (the kick a walk sends, or the tick) reaches the
\* same tail; with nothing pending the tail changes nothing.
Trap(t) ==
    /\ pc[t] = "el0" /\ (group_exit \/ StopOwned \/ latch)
    /\ Goto(t, "tail")

\* thread_exit_self commits THREAD_EXITING.
ExitSelf(t) ==
    /\ pc' = [pc EXCEPT ![t] = "dead"]
    /\ state' = [state EXCEPT ![t] = "EXITING"]
    /\ UNCHANGED <<on_cpu, kind, parkedFrom, rc, blockedOn, sleep_timedout, expired, cond>>
    /\ UNCHANGED <<lockVars, procVars, wakerVars, waiter, timerwait>>

\* eret: the results of the call are the user's now.
ToEL0(t) ==
    /\ pc' = [pc EXCEPT ![t] = "el0"]
    /\ rc' = [rc EXCEPT ![t] = "OK"]
    /\ expired' = [expired EXCEPT ![t] = FALSE]
    /\ UNCHANGED <<state, on_cpu, kind, parkedFrom, blockedOn, sleep_timedout, cond>>
    /\ UNCHANGED <<lockVars, procVars, wakerVars, waiter, timerwait>>

\* MUTANT: a tail without its die check.
DieCheckMissing(t) ==
    /\ pc[t] = "tail"
    /\ Goto(t, "tailstop")

\* el0_return_die_check.
DieCheck(t) ==
    /\ pc[t] = "tail"
    /\ IF group_exit THEN ExitSelf(t) ELSE Goto(t, "tailstop")

\* MUTANT: a tail without its stop check.
StopCheckMissing(t) ==
    /\ pc[t] = "tailstop"
    /\ Goto(t, "notes")

\* el0_return_stop_check reads the owners' flags, not the park predicate.
StopCheck(t) ==
    /\ pc[t] = "tailstop"
    /\ Goto(t, IF StopOwned THEN "park" ELSE "notes")

\* The loop of el0_stop_park: death, then the wake condition.
ParkDeath(t) ==
    /\ pc[t] = "park"
    /\ IF group_exit THEN ExitSelf(t) ELSE Goto(t, "parkcond")

ParkCond(t) ==
    /\ pc[t] = "parkcond"
    /\ IF ~StopRequested
       THEN Goto(t, "unpark")
       ELSE /\ UNCHANGED lockVars
            /\ StartPark(t, "tail")

\* MUTANT: the park does not ask about death a second time.
UnparkNoRecheck(t) ==
    /\ pc[t] = "unpark"
    /\ Goto(t, "notes")

\* Death again, after the wake condition.
Unpark(t) ==
    /\ pc[t] = "unpark"
    /\ IF group_exit THEN ExitSelf(t) ELSE Goto(t, "notes")

\* A walk begins: g_proc_table_lock is held until it ends.
BeginWalk(what) ==
    /\ walk = NoWalk
    /\ walk' = [what |-> what, todo |-> Threads, peer |-> None]

\* exits() in a Proc with live peers: the death walk first.
ExitGroup(t) ==
    /\ BeginWalk("kill")
    /\ group_exit' = TRUE
    /\ pc' = [pc EXCEPT ![t] = "exiting"]
    /\ UNCHANGED <<state, on_cpu, kind, parkedFrom, rc, blockedOn, sleep_timedout, expired, cond>>
    /\ UNCHANGED <<lockVars, stops, latch, wpc, wrendez, waiter, timerwait>>

\* notes_deliver_at_el0_return, reduced to the terminate latch. exits() in a
\* dying group, or by the last live thread, leaves at once.
Notes(t) ==
    /\ pc[t] = "notes"
    /\ IF ~latch THEN ToEL0(t)
       ELSE /\ walk = NoWalk
            /\ IF group_exit \/ \A u \in Threads \ {t} : state[u] = "EXITING"
               THEN ExitSelf(t)
               ELSE ExitGroup(t)

\* ... and thread_exit_self after it.
Exiting(t) ==
    /\ pc[t] = "exiting" /\ walk = NoWalk
    /\ ExitSelf(t)

\* notes_set_handler and notes_mark_self_managing disarm the latch.
RevokeLatch(t) ==
    /\ pc[t] = "el0" /\ latch
    /\ latch' = FALSE
    /\ UNCHANGED <<threadVars, lockVars, wakerVars, waiter, timerwait, group_exit, stops>>

-----------------------------------------------------------------------------
(* wakeup(), shared by every waker                                         *)

\* A producer makes a condition true and calls wakeup().
Produce(w, t) ==
    /\ w \in Producers /\ wpc[w] = "idle" /\ ~cond[t] /\ state[t] # "EXITING"
    /\ cond' = [cond EXCEPT ![t] = TRUE]
    /\ wpc' = [wpc EXCEPT ![w] = "wtimer"]
    /\ wrendez' = [wrendez EXCEPT ![w] = WaitOf(t)]
    /\ UNCHANGED <<pc, state, on_cpu, kind, parkedFrom, rc, blockedOn, sleep_timedout, expired>>
    /\ UNCHANGED <<lockVars, procVars, walk, waiter, timerwait>>

\* g_timerwait.lock is the outer lock of wakeup().
WakeLockTimer(w) ==
    /\ wpc[w] = "wtimer" /\ timer_lock = None
    /\ timer_lock' = w
    /\ wpc' = [wpc EXCEPT ![w] = "wrendez"]
    /\ UNCHANGED <<threadVars, wait_lock, r_lock, procVars, wrendez, walk, waiter, timerwait>>

\* Where a waker goes when wakeup() returns: the walk still holds a wait_lock.
AfterWakeup(w) == IF w = Walker THEN "unlock" ELSE "idle"

\* MUTANT: a fast path that trusts r->waiter == NULL without r->lock.
WakeLookupUnlocked(w) ==
    /\ wpc[w] = "wrendez"
    /\ timer_lock' = None
    /\ LET t == waiter[wrendez[w]] IN
       IF t = None
       THEN /\ wpc' = [wpc EXCEPT ![w] = AfterWakeup(w)]
            /\ wrendez' = [wrendez EXCEPT ![w] = None]
            /\ UNCHANGED <<r_lock, timerwait>>
       ELSE /\ r_lock[wrendez[w]] = None
            /\ wpc' = [wpc EXCEPT ![w] = "wspin"]
            /\ UNCHANGED wrendez
            /\ r_lock' = [r_lock EXCEPT ![wrendez[w]] = w]
            /\ timerwait' = timerwait \ {t}
    /\ UNCHANGED <<threadVars, wait_lock, procVars, walk, waiter>>

\* Under both locks: no waiter, or unlink the waiter's deadline and give the
\* global lock back.
WakeLookup(w) ==
    /\ wpc[w] = "wrendez" /\ r_lock[wrendez[w]] = None
    /\ timer_lock' = None
    /\ LET t == waiter[wrendez[w]] IN
       IF t = None
       THEN /\ wpc' = [wpc EXCEPT ![w] = AfterWakeup(w)]
            /\ wrendez' = [wrendez EXCEPT ![w] = None]
            /\ UNCHANGED <<r_lock, timerwait>>
       ELSE /\ wpc' = [wpc EXCEPT ![w] = "wspin"]
            /\ UNCHANGED wrendez
            /\ r_lock' = [r_lock EXCEPT ![wrendez[w]] = w]
            /\ timerwait' = timerwait \ {t}
    /\ UNCHANGED <<threadVars, wait_lock, procVars, walk, waiter>>

\* MUTANT: the waker does not wait for the waiter's registers.
WakeWaiterNoSpin(r, t, timed_out) ==
    /\ waiter' = [waiter EXCEPT ![r] = None]
    /\ sleep_timedout' = [sleep_timedout EXCEPT ![t] = timed_out]
    /\ state' = [state EXCEPT ![t] = "RUNNABLE"]

\* MUTANT: the Rendez keeps its waiter.
WakeWaiterKeepsWaiter(r, t, timed_out) ==
    /\ ~on_cpu[t]
    /\ waiter' = waiter
    /\ sleep_timedout' = [sleep_timedout EXCEPT ![t] = timed_out]
    /\ state' = [state EXCEPT ![t] = "RUNNABLE"]

\* MUTANT: the waiter is taken off its Rendez and put on no run queue.
WakeWaiterNotReadied(r, t, timed_out) ==
    /\ ~on_cpu[t]
    /\ waiter' = [waiter EXCEPT ![r] = None]
    /\ sleep_timedout' = [sleep_timedout EXCEPT ![t] = timed_out]
    /\ UNCHANGED state

\* wake_rendez_waiter: spin until the waiter's registers are saved, then clear
\* the Rendez and ready it. rendez_blocked_on is left to its owner.
WakeWaiter(r, t, timed_out) ==
    /\ ~on_cpu[t]
    /\ waiter' = [waiter EXCEPT ![r] = None]
    /\ sleep_timedout' = [sleep_timedout EXCEPT ![t] = timed_out]
    /\ state' = [state EXCEPT ![t] = "RUNNABLE"]

WakeReady(w) ==
    /\ wpc[w] = "wspin"
    /\ WakeWaiter(wrendez[w], waiter[wrendez[w]], FALSE)
    /\ r_lock' = [r_lock EXCEPT ![wrendez[w]] = None]
    /\ wpc' = [wpc EXCEPT ![w] = AfterWakeup(w)]
    /\ wrendez' = [wrendez EXCEPT ![w] = None]
    /\ UNCHANGED <<pc, on_cpu, kind, parkedFrom, rc, blockedOn, expired, cond>>
    /\ UNCHANGED <<wait_lock, timer_lock, procVars, walk, timerwait>>

-----------------------------------------------------------------------------
(* timerwait_tick()                                                        *)

\* Take the global lock and find one expired sleeper that is off its CPU.
TickFind ==
    /\ wpc[Ticker] = "idle" /\ timer_lock = None
    /\ \E t \in timerwait :
          /\ expired[t] /\ ~on_cpu[t]
          /\ wrendez' = [wrendez EXCEPT ![Ticker] = blockedOn[t]]
    /\ timer_lock' = Ticker
    /\ wpc' = [wpc EXCEPT ![Ticker] = "tick"]
    /\ UNCHANGED <<threadVars, wait_lock, r_lock, procVars, walk, waiter, timerwait>>

\* Unlink it and, if it still sleeps there, wake it with the timeout flag.
TickWake ==
    /\ wpc[Ticker] = "tick"
    /\ LET r == wrendez[Ticker]  t == Owner(r) IN
       /\ r_lock[r] = None
       /\ timerwait' = timerwait \ {t}
       /\ IF state[t] = "SLEEPING" /\ waiter[r] = t
          THEN WakeWaiter(r, t, TRUE)
          ELSE UNCHANGED <<waiter, sleep_timedout, state>>
    /\ timer_lock' = None
    /\ wpc' = [wpc EXCEPT ![Ticker] = "idle"]
    /\ wrendez' = [wrendez EXCEPT ![Ticker] = None]
    /\ UNCHANGED <<pc, on_cpu, kind, parkedFrom, rc, blockedOn, expired, cond>>
    /\ UNCHANGED <<wait_lock, r_lock, procVars, walk>>

-----------------------------------------------------------------------------
(* The walks of proc.c over p->threads, under g_proc_table_lock            *)

\* Every walk publishes its flag before it looks at the first thread.
StartWalk(what) ==
    /\ what \in Walks
    /\ BeginWalk(what)
    /\ \/ what = "kill" /\ group_exit' = TRUE /\ UNCHANGED <<stops, latch>>
       \/ what = "latch" /\ latch' = TRUE /\ UNCHANGED <<stops, group_exit>>
       \/ /\ what = "stop debug" /\ ~group_exit
          /\ stops' = stops \cup {"debug"} /\ UNCHANGED <<group_exit, latch>>
       \/ /\ what = "stop job" /\ ~group_exit /\ "job" \notin stops
          /\ stops' = stops \cup {"job"} /\ UNCHANGED <<group_exit, latch>>
       \/ /\ what = "resume debug"
          /\ stops' = stops \ {"debug"} /\ UNCHANGED <<group_exit, latch>>
       \/ /\ what = "resume job" /\ "job" \in stops
          /\ stops' = stops \ {"job"} /\ UNCHANGED <<group_exit, latch>>
    /\ UNCHANGED <<threadVars, lockVars, wpc, wrendez, waiter, timerwait>>

\* Which Rendez of peer t the walk wakes: the death walk any, a resume only
\* the park, the others any but the park.
WalkWakes(what, t) ==
    /\ blockedOn[t] # None
    /\ CASE what = "kill" -> TRUE
         [] what \in {"resume debug", "resume job"} -> blockedOn[t] = DebugOf(t)
         [] OTHER -> blockedOn[t] # DebugOf(t)

\* spin_lock_irqsave(&peer->wait_lock), held across the wakeup().
WalkPeer(t) ==
    /\ wpc[Walker] = "idle" /\ t \in walk.todo /\ wait_lock[t] = None
    /\ wait_lock' = [wait_lock EXCEPT ![t] = Walker]
    /\ walk' = [walk EXCEPT !.todo = @ \ {t}, !.peer = t]
    /\ IF WalkWakes(walk.what, t)
       THEN /\ wpc' = [wpc EXCEPT ![Walker] = "wtimer"]
            /\ wrendez' = [wrendez EXCEPT ![Walker] = blockedOn[t]]
       ELSE /\ wpc' = [wpc EXCEPT ![Walker] = "unlock"]
            /\ UNCHANGED wrendez
    /\ UNCHANGED <<threadVars, r_lock, timer_lock, procVars, waiter, timerwait>>

WalkUnlock ==
    /\ wpc[Walker] = "unlock"
    /\ wait_lock' = [wait_lock EXCEPT ![walk.peer] = None]
    /\ wpc' = [wpc EXCEPT ![Walker] = "idle"]
    /\ walk' = [walk EXCEPT !.peer = None]
    /\ UNCHANGED <<threadVars, r_lock, timer_lock, procVars, wrendez, waiter, timerwait>>

EndWalk ==
    /\ walk # NoWalk /\ walk.todo = {} /\ wpc[Walker] = "idle"
    /\ walk' = NoWalk
    /\ UNCHANGED <<threadVars, lockVars, procVars, wpc, wrendez, waiter, timerwait>>

-----------------------------------------------------------------------------
\* What a thread does once in the kernel, and the steps a started wakeup(),
\* scan or walk still owes.
ThreadStep(t) ==
    \/ LockWait(t) \/ LockTimer(t) \/ LockRendez(t)
    \/ Check(t) \/ Detour(t) \/ Register(t)
    \/ ObserveDeath(t) \/ ObserveNone(t) \/ SwitchOut(t) \/ SwitchIn(t)
    \/ DieCheck(t) \/ StopCheck(t) \/ ParkDeath(t) \/ ParkCond(t) \/ Unpark(t)
    \/ Notes(t) \/ Exiting(t) \/ Trap(t)

WakerStep(w) == WakeLockTimer(w) \/ WakeLookup(w) \/ WakeReady(w)

TickStep == TickFind \/ TickWake

WalkStep == (\E t \in Threads : WalkPeer(t)) \/ WalkUnlock \/ EndWalk

Next ==
    \/ \E t \in Threads : ThreadStep(t) \/ Syscall(t) \/ Expire(t) \/ RevokeLatch(t)
    \/ \E w \in Wakers : WakerStep(w) \/ \E t \in Threads : Produce(w, t)
    \/ TickStep
    \/ WalkStep
    \/ \E what \in AllWalks : StartWalk(what)

Spec == Init /\ [][Next]_vars

\* Interrupts are masked and spin locks are not preempted, so a thread inside
\* the kernel keeps running, a begun wakeup(), scan or walk runs on, and the
\* periodic tick keeps coming.  Syscalls, kills and producers owe nothing.
Fairness ==
    /\ \A t \in Threads : WF_vars(ThreadStep(t))
    /\ \A w \in Wakers : WF_vars(WakerStep(w))
    /\ WF_vars(TickStep)
    /\ WF_vars(WalkStep)

FairSpec == Spec /\ Fairness

-----------------------------------------------------------------------------
(* Properties                                                              *)

TailPCs == {"tail", "tailstop", "park", "parkcond", "unpark", "notes", "exiting"}

\* Every variable has its type.
TypeOK ==
    /\ pc \in [Threads -> SleepPCs \cup TailPCs \cup {"el0", "dead"}]
    /\ state \in [Threads -> {"RUNNING", "SLEEPING", "RUNNABLE", "EXITING"}]
    /\ on_cpu \in [Threads -> BOOLEAN]
    /\ kind \in [Threads -> Kinds]
    /\ parkedFrom \in [Threads -> {"tail", "call"}]
    /\ rc \in [Threads -> {"OK", "INTR", "TIMEDOUT"}]
    /\ blockedOn \in [Threads -> Rendezs \cup {None}]
    /\ sleep_timedout \in [Threads -> BOOLEAN]
    /\ expired \in [Threads -> BOOLEAN]
    /\ cond \in [Threads -> BOOLEAN]
    /\ waiter \in [Rendezs -> Threads \cup {None}]
    /\ wait_lock \in [Threads -> Threads \cup Wakers \cup {None}]
    /\ r_lock \in [Rendezs -> Threads \cup Wakers \cup {None}]
    /\ timer_lock \in Threads \cup Wakers \cup {None}
    /\ timerwait \subseteq Threads
    /\ group_exit \in BOOLEAN /\ latch \in BOOLEAN
    /\ stops \subseteq {"debug", "job"}
    /\ wpc \in [Wakers -> {"idle", "wtimer", "wrendez", "wspin", "tick", "unlock"}]
    /\ wrendez \in [Wakers -> Rendezs \cup {None}]
    /\ walk \in [what : AllWalks \cup {"none"}, todo : SUBSET Threads, peer : Threads \cup {None}]

\* wakeup() never finds a waiter that is not SLEEPING on that Rendez, and a
\* sleep never registers on a Rendez that has a waiter, while blocked or not
\* RUNNING, or while on the timer-wait list: the extinctions of sleep_common,
\* tsleep_common and wakeup are unreachable.
NoExtinction ==
    /\ \A r \in Rendezs : waiter[r] # None =>
          state[waiter[r]] = "SLEEPING" /\ blockedOn[waiter[r]] = r
    /\ \A t \in Threads : pc[t] = "stopcheck" =>
          /\ waiter[Cur(t)] = None /\ blockedOn[t] = None
          /\ state[t] = "RUNNING" /\ t \notin timerwait

\* t has registered on its Rendez of kind k and let go of its locks.
Asleep(t, k) == pc[t] \in {"switching", "asleep"} /\ waiter[RendezOf(t, k)] = t

\* Someone is inside wakeup() on r, or about to enter it.
WakeInFlight(r) == \E w \in Wakers : wrendez[w] = r

\* A walk of one of the kinds still has to look at t.
WalkOwes(t, kinds) == walk.what \in kinds /\ t \in walk.todo

\* A sleeper whose condition became true is about to be woken: the producer
\* that set it is still on its way through wakeup() (I-9 for sleep/wakeup).
NoLostWakeup ==
    \A t \in Threads : cond[t] /\ Asleep(t, "wait") => WakeInFlight(WaitOf(t))

\* No sleeper of a dying group, in a call or in a stop park, is passed over by
\* the death walk of group_terminate (register-then-observe, ARCH 8.8.1).
NoLostDeath ==
    group_exit => \A t \in Threads, k \in Kinds :
        Asleep(t, k) => WalkOwes(t, {"kill"}) \/ WakeInFlight(RendezOf(t, k))

\* A stop reaches every thread blocked in a call, and the clear of the last stop
\* owner reaches every parked thread (proc_stop_wake_sleepers_locked,
\* proc_debug_resume, proc_job_resume_one_locked).
NoLostStop ==
    \A t \in Threads :
        /\ StopRequested /\ Asleep(t, "wait") =>
              WalkOwes(t, {"stop debug", "stop job"}) \/ WakeInFlight(WaitOf(t))
        /\ ~StopRequested /\ Asleep(t, "debug") =>
              WalkOwes(t, {"resume debug", "resume job", "kill"}) \/ WakeInFlight(DebugOf(t))

\* A terminate latch reaches every call that a thread sleeps in (never a park).
NoLostLatch ==
    latch => \A t \in Threads : Asleep(t, "wait") =>
        WalkOwes(t, {"latch"}) \/ WakeInFlight(WaitOf(t))

\* The four together: whatever should end a sleep is seen by the sleeper before
\* it sleeps, or reaches it afterwards.
NothingLost == NoLostWakeup /\ NoLostDeath /\ NoLostStop /\ NoLostLatch

\* Exactly the sleepers with a deadline that nobody is waking are on the
\* timer-wait list: none is forgotten by the scan, none is scanned twice.
TimerListExact ==
    \A t \in Threads : t \in timerwait <=>
        /\ t \in TimedThreads /\ waiter[WaitOf(t)] = t
        /\ ~ \E w \in Wakers : wpc[w] = "wspin" /\ wrendez[w] = WaitOf(t)

\* A call reports a timeout only after its own deadline, never because of a
\* flag an earlier wait left behind.
TimeoutIsReal ==
    \A t \in Threads : rc[t] = "TIMEDOUT" => expired[t]

\* No CPU can pick a thread whose registers another CPU is still saving.
NeverReadyOnCpu ==
    \A t \in Threads : state[t] = "RUNNABLE" => ~on_cpu[t]

\* In the park of the EL0-return tail.
InTailPark(t) ==
    \/ pc[t] \in {"park", "parkcond", "unpark"}
    \/ pc[t] \in SleepPCs /\ kind[t] = "debug" /\ parkedFrom[t] = "tail"

\* DeathWinsOverStop: a thread parked in the tail of a dying group leaves the
\* park only to exit, whatever resume races the kill.
DeathWinsOverStop ==
    [][\A t \in Threads :
          group_exit /\ InTailPark(t) /\ ~InTailPark(t)' => pc'[t] = "dead"]_vars

\* The spin locks are test-and-set, which an endless stream of walks could
\* starve a sleeper of; progress is promised once walks stop being started.
FinitelyManyWalks == <>[][\A what \in AllWalks : ~StartWalk(what)]_vars

\* Given up its CPU and not picked since.
Blocked(t) == pc[t] \in {"switching", "asleep"}

\* A dying group loses every thread: sleepers, parked threads and EL0 spinners.
GroupDies ==
    FinitelyManyWalks => (group_exit ~> \A t \in Threads : pc[t] = "dead")

\* A condition that becomes true ends the wait it was for.
WakeupDelivered ==
    FinitelyManyWalks =>
        \A t \in Threads : cond[t] /\ Asleep(t, "wait") ~> ~Blocked(t)

\* A stop that stays requested parks every thread of the Proc.
StopSettles ==
    FinitelyManyWalks /\ <>[]StopRequested =>
        <>[](\A t \in Threads : Asleep(t, "debug") \/ pc[t] = "dead")

\* Once no stop is requested every parked thread runs again or dies.
ParkEnds ==
    FinitelyManyWalks => \A t \in Threads :
        Asleep(t, "debug") /\ ~StopRequested ~> ~Blocked(t)

\* A wait with a deadline ends once the deadline has passed.
DeadlineEnds ==
    FinitelyManyWalks => \A t \in TimedThreads :
        expired[t] /\ Asleep(t, "wait") ~> ~Blocked(t)

\* A sleep ends: by its condition, by its deadline, and a park by the resume.
WaitsEnd == WakeupDelivered /\ DeadlineEnds /\ ParkEnds

=============================================================================
