--------------------------- MODULE RendezProofs ----------------------------
(***************************************************************************)
(* Type correctness of Rendez; what its steps leave alone: facts about its *)
(* constants, the frame of each part of the invariant of RendezInv, and    *)
(* what is owed to a sleeper across a step that changes no stop; and that  *)
(* the steps of a thread keep the invariant: on its way into a sleep up to *)
(* the registration on the Rendez, from there to the return to user mode,  *)
(* and around a wait.  One lemma per step of the code; in each, one leaf per *)
(* part of the invariant the step can disturb, the rest by the frame lemmas. *)
(***************************************************************************)
EXTENDS RendezInv, TLAPS

\* The Rendez a thread is about to sleep on is one of its own two.
LEMMA CurType ==
    ASSUME TypeOK, NEW t \in Threads PROVE Cur(t) \in Rendezs
  BY DEF TypeOK, Rendezs, Cur, RendezOf

\* Returning from a sleep keeps the types, whatever is returned.
LEMMA ReturnType ==
    ASSUME TypeOK, NEW t \in Threads, NEW c \in {"OK", "INTR", "TIMEDOUT"}, Return(t, c)
    PROVE  TypeOK'
  BY Zenon, CurType DEF TypeOK, Return, ReleaseAll, Timed, Kinds, SleepPCs, TailPCs,
                 procVars, wakerVars

\* So do the steps that several actions of the tail share.
LEMMA GotoType ==
    ASSUME TypeOK, NEW t \in Threads,
           NEW l \in SleepPCs \cup TailPCs \cup {"el0", "dead"}, Goto(t, l)
    PROVE  TypeOK'
  BY Zenon DEF TypeOK, Goto, lockVars, procVars, wakerVars

LEMMA ExitSelfType ==
    ASSUME TypeOK, NEW t \in Threads, ExitSelf(t) PROVE TypeOK'
  BY Zenon DEF TypeOK, ExitSelf, lockVars, procVars, wakerVars

LEMMA StartParkType ==
    ASSUME TypeOK, NEW t \in Threads, NEW from \in {"tail", "call"}, StartPark(t, from),
           UNCHANGED lockVars \/ ReleaseAll(t)
    PROVE  TypeOK'
  BY CurType DEF TypeOK, StartPark, ReleaseAll, Timed, Kinds, SleepPCs, lockVars, procVars, wakerVars

LEMMA ThreadStepType ==
    ASSUME TypeOK, NEW t \in Threads, ThreadStep(t) PROVE TypeOK'
<1> USE CurType DEF SleepPCs, TailPCs, lockVars, procVars, wakerVars
<1>1. CASE LockWait(t)      BY <1>1 DEF TypeOK, LockWait, Timed
<1>2. CASE LockTimer(t)     BY Zenon, <1>2 DEF TypeOK, LockTimer
<1>3. CASE LockRendez(t)
  <2>1. Return(t, "INTR") \/ HoldRendez(t) BY Zenon, <1>3 DEF LockRendez
  <2>2. CASE HoldRendez(t)  BY Zenon, <2>2 DEF TypeOK, HoldRendez
  <2> QED BY Zenon, <2>1, <2>2, ReturnType
<1>4. CASE Check(t)         BY Zenon, <1>4, ReturnType, GotoType DEF Check
<1>5. CASE Detour(t)        BY Zenon, <1>5, ReturnType, StartParkType DEF Detour
<1>6. CASE Register(t)      BY <1>6 DEF TypeOK, Register, Timed
<1>7. CASE ObserveDeath(t)  BY Zenon, <1>7 DEF TypeOK, ObserveDeath, ReleaseAll, Timed, Kinds
<1>8. CASE ObserveNone(t)   BY Zenon, <1>8 DEF TypeOK, ObserveNone, ReleaseAll, Timed
<1>9. CASE SwitchOut(t)     BY Zenon, <1>9 DEF TypeOK, SwitchOut
<1>10. CASE SwitchIn(t)     BY Zenon, <1>10 DEF TypeOK, SwitchIn
<1>11. CASE DieCheck(t)     BY Zenon, <1>11, ExitSelfType, GotoType DEF DieCheck
<1>12. CASE StopCheck(t)    BY Zenon, <1>12, GotoType DEF StopCheck
<1>13. CASE ParkDeath(t)    BY Zenon, <1>13, ExitSelfType, GotoType DEF ParkDeath
<1>14. CASE ParkCond(t)     BY Zenon, <1>14, StartParkType, GotoType DEF ParkCond
<1>15. CASE Unpark(t)       BY Zenon, <1>15, ExitSelfType, GotoType DEF Unpark
<1>16. CASE Notes(t)
  <2>1. CASE ToEL0(t)       BY Zenon, <2>1 DEF TypeOK, ToEL0
  <2>2. CASE ExitGroup(t)   BY Zenon, <2>2 DEF TypeOK, ExitGroup, BeginWalk, AllWalks
  <2> QED BY Zenon, <1>16, <2>1, <2>2, ExitSelfType DEF Notes
<1>17. CASE Exiting(t)      BY Zenon, <1>17, ExitSelfType DEF Exiting
<1>18. CASE Trap(t)         BY Zenon, <1>18, GotoType DEF Trap
<1> QED BY Zenon, <1>1, <1>2, <1>3, <1>4, <1>5, <1>6, <1>7, <1>8, <1>9, <1>10, <1>11,
           <1>12, <1>13, <1>14, <1>15, <1>16, <1>17, <1>18 DEF ThreadStep

LEMMA WakerType ==
    /\ \A w \in Wakers : Producers \subseteq Wakers
    /\ Walker \in Wakers /\ Ticker \in Wakers
  BY Zenon DEF Wakers

LEMMA TypeNext ==
    ASSUME TypeOK, [Next]_vars PROVE TypeOK'
<1> USE WakerType DEF lockVars, procVars, wakerVars, threadVars
<1>1. ASSUME NEW w \in Wakers, WakerStep(w) PROVE TypeOK'
  <2> USE DEF AfterWakeup
  <2>1. CASE WakeLockTimer(w) BY Zenon, <2>1 DEF TypeOK, WakeLockTimer
  <2>2. CASE WakeLookup(w)    BY <2>2 DEF TypeOK, WakeLookup
  <2>3. CASE WakeReady(w)     BY Zenon, <2>3 DEF TypeOK, WakeReady, WakeWaiter
  <2> QED BY Zenon, <1>1, <2>1, <2>2, <2>3 DEF WakerStep
<1>2. ASSUME NEW t \in Threads, Syscall(t) \/ Expire(t) \/ RevokeLatch(t) PROVE TypeOK'
  <2>1. CASE Syscall(t)       BY Zenon, <2>1 DEF TypeOK, Syscall, Kinds, SleepPCs
  <2>2. CASE Expire(t)        BY Zenon, <2>2 DEF TypeOK, Expire
  <2>3. CASE RevokeLatch(t)   BY Zenon, <2>3 DEF TypeOK, RevokeLatch
  <2> QED BY Zenon, <1>2, <2>1, <2>2, <2>3
<1>3. ASSUME NEW w \in Wakers, NEW t \in Threads, Produce(w, t) PROVE TypeOK'
  <2>1. WaitOf(t) \in Rendezs BY Zenon DEF WaitOf, RendezOf, Rendezs, Kinds
  <2> QED BY Zenon, <1>3, <2>1 DEF TypeOK, Produce
<1>4. CASE TickFind         BY <1>4 DEF TypeOK, TickFind
<1>5. CASE TickWake
  <2> DEFINE r == wrendez[Ticker]
             t == Owner(r)
  <2>1. /\ timerwait' = timerwait \ {t}
        /\ WakeWaiter(r, t, TRUE) \/ UNCHANGED <<waiter, sleep_timedout, state>>
    BY Zenon, <1>5 DEF TickWake
  <2>2. /\ state' \in [Threads -> {"RUNNING", "SLEEPING", "RUNNABLE", "EXITING"}]
        /\ waiter' \in [Rendezs -> Threads \cup {None}]
        /\ sleep_timedout' \in [Threads -> BOOLEAN]
    <3> HIDE DEF r, t
    <3>1. CASE WakeWaiter(r, t, TRUE) BY Zenon, <3>1 DEF TypeOK, WakeWaiter
    <3>2. CASE UNCHANGED <<waiter, sleep_timedout, state>> BY Zenon, <3>2 DEF TypeOK
    <3> QED BY Zenon, <2>1, <3>1, <3>2
  <2> QED BY Zenon, <1>5, <2>1, <2>2 DEF TypeOK, TickWake
<1>6. ASSUME NEW t \in Threads, WalkPeer(t) PROVE TypeOK'
  <2>1. walk' \in [what : AllWalks \cup {"none"}, todo : SUBSET Threads, peer : Threads \cup {None}]
    BY Zenon, <1>6 DEF TypeOK, WalkPeer
  <2>2. wrendez' \in [Wakers -> Rendezs \cup {None}]
    BY <1>6 DEF TypeOK, WalkPeer
  <2>3. wpc' \in [Wakers -> {"idle", "wtimer", "wrendez", "wspin", "tick", "unlock"}]
    BY <1>6 DEF TypeOK, WalkPeer
  <2> QED BY Zenon, <1>6, <2>1, <2>2, <2>3 DEF TypeOK, WalkPeer
<1>7. CASE WalkUnlock       BY Zenon, <1>7 DEF TypeOK, WalkUnlock
<1>8. CASE EndWalk          BY Zenon, <1>8 DEF TypeOK, EndWalk, NoWalk
<1>9. ASSUME NEW what \in AllWalks, StartWalk(what) PROVE TypeOK'
  <2>1. /\ walk' = [what |-> what, todo |-> Threads, peer |-> None]
        /\ UNCHANGED <<threadVars, lockVars, wpc, wrendez, waiter, timerwait>>
    BY Zenon, <1>9 DEF StartWalk, BeginWalk
  <2>2. group_exit' \in BOOLEAN /\ latch' \in BOOLEAN /\ stops' \subseteq {"debug", "job"}
    BY Zenon, <1>9 DEF TypeOK, StartWalk
  <2> QED BY Zenon, <2>1, <2>2 DEF TypeOK
<1>10. CASE UNCHANGED vars  BY Zenon, <1>10 DEF TypeOK, vars
<1> QED BY Zenon, <1>1, <1>2, <1>3, <1>4, <1>5, <1>6, <1>7, <1>8, <1>9, <1>10, ThreadStepType
        DEF Next, TickStep, WalkStep

\* Every variable keeps its type, whatever the order of lock acquisitions.
THEOREM TypeCorrect == Spec => []TypeOK
<1>1. ASSUME Init PROVE TypeOK
  <2> USE <1>1 DEF Init
  <2>1. /\ pc \in [Threads -> SleepPCs \cup TailPCs \cup {"el0", "dead"}]
        /\ kind \in [Threads -> Kinds]
    BY Zenon DEF Kinds
  <2>2. walk \in [what : AllWalks \cup {"none"}, todo : SUBSET Threads, peer : Threads \cup {None}]
    BY Zenon DEF NoWalk
  <2> QED BY Zenon, <2>1, <2>2 DEF TypeOK
<1> QED BY <1>1, TypeNext, PTL DEF Spec

-----------------------------------------------------------------------------
\* The two Rendezes of a thread are distinct and know their owner.
LEMMA RendezFacts ==
    /\ \A r \in Rendezs : Owner(r) \in Threads
    /\ \A t \in Threads, k \in Kinds : RendezOf(t, k) \in Rendezs /\ Owner(RendezOf(t, k)) = t
    /\ \A t \in Threads : WaitOf(t) # DebugOf(t)
    /\ None \notin Rendezs
    /\ "wait" \in Kinds /\ "debug" \in Kinds
  BY Zenon, ConstantsAssumption DEF Rendezs, RendezOf, Owner, Kinds, WaitOf, DebugOf

\* The walker and the tick are wakers of their own, and no thread is a waker.
LEMMA WakerFacts ==
    /\ Walker \in Wakers /\ Ticker \in Wakers /\ Walker # Ticker
    /\ None \notin Wakers /\ None \notin Threads
    /\ \A t \in Threads : t \notin Wakers
    /\ \A w \in Producers : w \in Wakers /\ w # Walker /\ w # Ticker
  BY Zenon, ConstantsAssumption DEF Wakers

\* TypeOK, one variable at a time, for the steps that need one of them.
LEMMA PcType == TypeOK => pc \in [Threads -> SleepPCs \cup TailPCs \cup {"el0", "dead"}]  BY Zenon DEF TypeOK

\* The type of state.
LEMMA StateType == TypeOK => state \in [Threads -> {"RUNNING", "SLEEPING", "RUNNABLE", "EXITING"}]  BY Zenon DEF TypeOK

\* The type of on_cpu.
LEMMA OnCpuType == TypeOK => on_cpu \in [Threads -> BOOLEAN]  BY Zenon DEF TypeOK

\* The type of kind.
LEMMA KindType == TypeOK => kind \in [Threads -> Kinds]  BY Zenon DEF TypeOK

\* The type of parkedFrom.
LEMMA ParkedFromType == TypeOK => parkedFrom \in [Threads -> {"tail", "call"}]  BY Zenon DEF TypeOK

\* The type of rc.
LEMMA RcType == TypeOK => rc \in [Threads -> {"OK", "INTR", "TIMEDOUT"}]  BY Zenon DEF TypeOK

\* The type of blockedOn.
LEMMA BlockedOnType == TypeOK => blockedOn \in [Threads -> Rendezs \cup {None}]  BY Zenon DEF TypeOK

\* The type of sleep_timedout.
LEMMA TimedoutType == TypeOK => sleep_timedout \in [Threads -> BOOLEAN]  BY Zenon DEF TypeOK

\* The type of expired.
LEMMA ExpiredType == TypeOK => expired \in [Threads -> BOOLEAN]  BY Zenon DEF TypeOK

\* The type of cond.
LEMMA CondType == TypeOK => cond \in [Threads -> BOOLEAN]  BY Zenon DEF TypeOK

\* The type of waiter.
LEMMA WaiterType == TypeOK => waiter \in [Rendezs -> Threads \cup {None}]  BY Zenon DEF TypeOK

\* The type of wait_lock.
LEMMA WaitLockType == TypeOK => wait_lock \in [Threads -> Threads \cup Wakers \cup {None}]  BY Zenon DEF TypeOK

\* The type of r_lock.
LEMMA RLockType == TypeOK => r_lock \in [Rendezs -> Threads \cup Wakers \cup {None}]  BY Zenon DEF TypeOK

\* The type of timer_lock.
LEMMA TimerLockType == TypeOK => timer_lock \in Threads \cup Wakers \cup {None}  BY Zenon DEF TypeOK

\* The type of timerwait.
LEMMA TimerwaitType == TypeOK => timerwait \subseteq Threads  BY Zenon DEF TypeOK

\* The type of group_exit and latch.
LEMMA FlagsType == TypeOK => group_exit \in BOOLEAN /\ latch \in BOOLEAN  BY Zenon DEF TypeOK

\* The type of stops.
LEMMA StopsType == TypeOK => stops \subseteq {"debug", "job"}  BY Zenon DEF TypeOK

\* The type of wpc.
LEMMA WpcType == TypeOK => wpc \in [Wakers -> {"idle", "wtimer", "wrendez", "wspin", "tick", "unlock"}]  BY Zenon DEF TypeOK

\* The type of wrendez.
LEMMA WrendezType == TypeOK => wrendez \in [Wakers -> Rendezs \cup {None}]  BY Zenon DEF TypeOK

\* The type of walk.
LEMMA WalkType == TypeOK => walk \in [what : AllWalks \cup {"none"}, todo : SUBSET Threads, peer : Threads \cup {None}]  BY Zenon DEF TypeOK

\* Whether a stop is requested depends on the Proc's flags alone.
LEMMA StopFrame ==
    UNCHANGED <<group_exit, stops>> => (StopRequested' <=> StopRequested)
  BY DEF StopRequested, StopOwned

\* A part of the invariant survives a step that leaves its variables alone: one
\* lemma per part.
LEMMA WaitLockFrame ==
    ASSUME IInv, UNCHANGED <<wait_lock, pc, walk>> PROVE WaitLockInv'
  BY Zenon DEF IInv, Structure, Delivery, WaitLockInv, HoldsWait

\* TimerLockInv.
LEMMA TimerLockFrame ==
    ASSUME IInv, UNCHANGED <<timer_lock, pc, kind, wpc>> PROVE TimerLockInv'
  BY Zenon DEF IInv, Structure, Delivery, TimerLockInv, HoldsTimer, Timed

\* RendezLockInv.
LEMMA RendezLockFrame ==
    ASSUME IInv, UNCHANGED <<r_lock, pc, kind, wpc, wrendez>> PROVE RendezLockInv'
  BY DEF IInv, Structure, Delivery, RendezLockInv, HoldsRendez, Cur

\* WakerInv.
LEMMA WakerFrame ==
    ASSUME IInv, UNCHANGED <<wpc, wrendez, walk>> PROVE WakerInv'
  BY Zenon DEF IInv, Structure, Delivery, WakerInv

\* SpinInv.
LEMMA SpinFrame ==
    ASSUME IInv, UNCHANGED <<wpc, wrendez, waiter>> PROVE SpinInv'
  BY Zenon DEF IInv, Structure, Delivery, SpinInv

\* TickInv.
LEMMA TickFrame ==
    ASSUME IInv, UNCHANGED <<wpc, wrendez, timerwait, on_cpu, expired>> PROVE TickInv'
  BY Zenon DEF IInv, Structure, Delivery, TickInv

\* ThreadInv.
LEMMA ThreadFrame ==
    ASSUME IInv, UNCHANGED <<on_cpu, pc, state, kind>> PROVE ThreadInv'
  BY Zenon DEF IInv, Structure, Delivery, ThreadInv

\* BackInv.
LEMMA BackFrame ==
    ASSUME IInv, UNCHANGED <<pc, kind, blockedOn>> PROVE BackInv'
  BY Zenon DEF IInv, Structure, Delivery, BackInv, Cur

\* WaiterInv.
LEMMA WaiterFrame ==
    ASSUME IInv, UNCHANGED <<waiter, state, kind>> PROVE WaiterInv'
  BY Zenon DEF IInv, Structure, Delivery, WaiterInv, Cur

\* TimerListExact.
LEMMA TimerListFrame ==
    ASSUME IInv, UNCHANGED <<timerwait, waiter, wpc, wrendez>> PROVE TimerListExact'
  BY Zenon DEF IInv, Structure, Delivery, TimerListExact

\* WakeupInv.
LEMMA WakeupFrame ==
    ASSUME IInv, UNCHANGED <<cond, kind, pc, waiter, wrendez>> PROVE WakeupInv'
  BY Zenon DEF IInv, Structure, Delivery, WakeupInv, WakeInFlight

\* DeathInv.
LEMMA DeathFrame ==
    ASSUME IInv, UNCHANGED <<group_exit, waiter, pc, walk, wrendez>> PROVE DeathInv'
  BY Zenon DEF IInv, Structure, Delivery, DeathInv, WakeInFlight, WalkOwes

\* LatchInv.
LEMMA LatchFrame ==
    ASSUME IInv, UNCHANGED <<latch, waiter, pc, walk, wrendez>> PROVE LatchInv'
  BY Zenon DEF IInv, Structure, Delivery, LatchInv, WakeInFlight, WalkOwes

\* StopInv.
LEMMA StopInvFrame ==
    ASSUME IInv, UNCHANGED <<group_exit, stops, waiter, walk, wrendez>> PROVE StopInv'
  BY Zenon, StopFrame DEF IInv, Structure, Delivery, StopInv, WakeInFlight, WalkOwes

\* ParkInv.
LEMMA ParkFrame ==
    ASSUME IInv, UNCHANGED <<group_exit, stops, kind, pc, waiter, walk, wrendez>> PROVE ParkInv'
  BY Zenon, StopFrame DEF IInv, Structure, Delivery, ParkInv, WakeInFlight, WalkOwes

\* DeadlineInv.
LEMMA DeadlineFrame ==
    ASSUME IInv, UNCHANGED <<rc, expired, sleep_timedout, pc, kind, parkedFrom>> PROVE DeadlineInv'
  BY Zenon DEF IInv, Structure, Delivery, DeadlineInv, InCall

\* A sleeper t of Rendez r has a walk of one of the kinds or a wakeup() coming.
Owed(t, kinds, r) == WalkOwes(t, kinds) \/ WakeInFlight(r)

\* What StopInv and ParkInv ask of a step that starts and ends no stop.
LEMMA StopKept ==
    ASSUME StopInv, StopRequested' => StopRequested,
           \A u \in Threads : waiter'[WaitOf(u)] = u =>
               /\ waiter[WaitOf(u)] = u
               /\ Owed(u, {"stop debug", "stop job"}, WaitOf(u)) => Owed(u, {"stop debug", "stop job"}, WaitOf(u))'
    PROVE  StopInv'
  BY Zenon DEF StopInv, Owed, WaitOf, RendezOf

\* What ParkInv asks of a step that starts and ends no stop: whoever parks after
\* it parked before it, and what was owed to them still is.
LEMMA ParkKept ==
    ASSUME ParkInv, StopRequested => StopRequested',
           \A u \in Threads : kind'[u] = "debug" /\ (pc'[u] = "stopcheck" \/ waiter'[DebugOf(u)] = u) =>
               /\ kind[u] = "debug" /\ (pc[u] = "stopcheck" \/ waiter[DebugOf(u)] = u)
               /\ Owed(u, {"resume debug", "resume job", "kill"}, DebugOf(u)) => Owed(u, {"resume debug", "resume job", "kill"}, DebugOf(u))'
    PROVE  ParkInv'
  BY Zenon DEF ParkInv, Owed, DebugOf, RendezOf

\* A wakeup() on its way stays so while the wakers stand still ...
LEMMA OwedStill ==
    ASSUME UNCHANGED <<walk, wrendez>>, NEW u, NEW kinds, NEW r, Owed(u, kinds, r)
    PROVE  Owed(u, kinds, r)'
  BY Zenon DEF Owed, WalkOwes, WakeInFlight

\* ... and for as long as the Rendez has its waiter, or its lock its owner.
LEMMA OwedLives ==
    ASSUME UNCHANGED walk, NEW u, NEW kinds, NEW r, Owed(u, kinds, r),
           \A w \in Wakers : wrendez[w] = r => wrendez'[w] = r
    PROVE  Owed(u, kinds, r)'
  BY Zenon DEF Owed, WalkOwes, WakeInFlight

\* A thread at its stop check holds the Rendez lock of its sleep.
LEMMA StopcheckHolds ==
    ASSUME TypeOK, RendezLockInv, NEW u \in Threads, kind[u] = "debug", pc[u] = "stopcheck"
    PROVE  r_lock[DebugOf(u)] = u
  BY RendezFacts DEF RendezLockInv, HoldsRendez, Cur, DebugOf, TypeOK

\* What StopInv and ParkInv ask of a waker's step: a wakeup() lets go of a
\* Rendez only when nobody waits there and its owner does not hold it.
LEMMA WakerKeeps ==
    ASSUME TypeOK, RendezLockInv, StopInv, ParkInv,
           UNCHANGED <<walk, group_exit, stops, kind, pc>>,
           \A r \in Rendezs : waiter'[r] = Owner(r) => waiter[r] = Owner(r),
           \A r \in Rendezs, w \in Wakers :
               wrendez[w] = r /\ (waiter'[r] = Owner(r) \/ r_lock[r] = Owner(r)) => wrendez'[w] = r
    PROVE  StopInv' /\ ParkInv'
<1>1. StopRequested' <=> StopRequested  BY Zenon, StopFrame
<1>2. StopInv'
  <2>1. \A u \in Threads : WaitOf(u) \in Rendezs /\ Owner(WaitOf(u)) = u  BY Zenon, RendezFacts DEF WaitOf
  <2>2. SUFFICES ASSUME NEW u \in Threads, waiter'[WaitOf(u)] = u, Owed(u, {"stop debug", "stop job"}, WaitOf(u))
                 PROVE  Owed(u, {"stop debug", "stop job"}, WaitOf(u))'
    BY Zenon, <1>1, <2>1, StopKept
  <2> QED BY Zenon, <2>1, <2>2, OwedLives
<1>3. ParkInv'
  <2>1. \A u \in Threads : DebugOf(u) \in Rendezs /\ Owner(DebugOf(u)) = u  BY Zenon, RendezFacts DEF DebugOf
  <2>2. SUFFICES ASSUME NEW u \in Threads, kind[u] = "debug", pc[u] = "stopcheck" \/ waiter'[DebugOf(u)] = u,
                        Owed(u, {"resume debug", "resume job", "kill"}, DebugOf(u))
                 PROVE  Owed(u, {"resume debug", "resume job", "kill"}, DebugOf(u))'
    BY Zenon, <1>1, <2>1, ParkKept
  <2> QED BY Zenon, <2>1, <2>2, OwedLives, StopcheckHolds
<1> QED BY Zenon, <1>2, <1>3

\* A thread registered on a Rendez and past its own locks names it.
LEMMA SleeperNames ==
    ASSUME ThreadInv, BackInv, WaiterInv, NEW r \in Rendezs, waiter[r] = Owner(r)
    PROVE  blockedOn[Owner(r)] = r
<1>1. Owner(r) \in Threads  BY Zenon, RendezFacts
<1>2. state[Owner(r)] = "SLEEPING" /\ Cur(Owner(r)) = r  BY Zenon DEF WaiterInv
<1>3. pc[Owner(r)] \in {"observe", "switching", "asleep"}  BY Zenon, <1>1, <1>2 DEF ThreadInv
<1> QED BY Zenon, <1>1, <1>2, <1>3 DEF BackInv

\* The walk looks at t: whoever it was to wake, it is now waking.
LEMMA WalkPeerOwes ==
    ASSUME IInv, NEW t \in Threads, WalkPeer(t), NEW r \in Rendezs, waiter[r] = Owner(r), NEW kinds,
           Owed(Owner(r), kinds, r), 
           Owner(r) = t /\ walk.what \in kinds => WalkWakes(walk.what, t)
    PROVE  Owed(Owner(r), kinds, r)'
<1> USE DEF IInv, Structure, Delivery
<1>1. wrendez[Walker] = None /\ Walker \in Wakers  BY Zenon, WakerFacts DEF WalkPeer, WakerInv
<1>2. \A w \in Wakers : w # Walker => wrendez'[w] = wrendez[w]  BY DEF WalkPeer, TypeOK
<1>3. CASE WakeInFlight(r)
  BY Zenon, <1>1, <1>2, <1>3, RendezFacts DEF Owed, WakeInFlight
<1>4. CASE WalkOwes(Owner(r), kinds) /\ Owner(r) # t
  BY Zenon, <1>4 DEF WalkPeer, WalkOwes, Owed, TypeOK
<1>5. CASE WalkOwes(Owner(r), kinds) /\ Owner(r) = t
  <2>1. WalkWakes(walk.what, t)  BY Zenon, <1>5 DEF WalkOwes
  <2>2. blockedOn[t] = r  BY Zenon, <1>5, SleeperNames
  <2>3. wrendez' = [wrendez EXCEPT ![Walker] = r]  BY Zenon, <2>1, <2>2 DEF WalkPeer
  <2> QED BY <1>1, <2>3 DEF Owed, WakeInFlight, TypeOK
<1> QED BY Zenon, <1>3, <1>4, <1>5 DEF Owed

\* What one visit of a walk leaves alone.
LEMMA WalkPeerFrame ==
    ASSUME TypeOK, WakerInv, NEW t \in Threads, WalkPeer(t)
    PROVE  /\ Walker \in Wakers /\ wrendez[Walker] = None
           /\ \A w \in Wakers : w # Walker => wrendez'[w] = wrendez[w] /\ wpc'[w] = wpc[w]
<1>1. Walker \in Wakers /\ wrendez[Walker] = None  BY Zenon, WakerFacts DEF WalkPeer, WakerInv
<1>2. \A w \in Wakers : w # Walker => wrendez'[w] = wrendez[w] /\ wpc'[w] = wpc[w]  BY DEF WalkPeer, TypeOK
<1> QED BY Zenon, <1>1, <1>2

\* A walk has just begun: everybody is on its list, and it waits on nobody.
LEMMA StartWalkFacts ==
    ASSUME IInv, NEW what \in AllWalks, StartWalk(what)
    PROVE  /\ walk.todo = {} /\ walk.peer = None /\ walk.what = "none"
           /\ walk'.todo = Threads /\ walk'.what = what /\ walk'.peer = None
           /\ UNCHANGED <<pc, kind, state, waiter, wpc, wrendez, wait_lock>>
  BY Zenon DEF StartWalk, BeginWalk, NoWalk, threadVars, lockVars

(* Into a sleep                                                            *)

\* Taking wait_lock, under which the blocked-on Rendez is published.
LEMMA LockWaitStep ==
    ASSUME IInv, NEW t \in Threads, LockWait(t)
    PROVE  (Structure /\ Delivery)'
<1> /\ TypeOK /\ WaitLockInv /\ TimerLockInv /\ RendezLockInv /\ WakerInv /\ SpinInv /\ TickInv
    /\ ThreadInv /\ BackInv /\ WaiterInv /\ TimerListExact /\ WakeupInv /\ DeathInv /\ LatchInv
    /\ StopInv /\ ParkInv /\ DeadlineInv
  BY Zenon DEF IInv, Structure, Delivery
<1>1. WaitLockInv'  BY WakerFacts, PcType, WaitLockType DEF WaitLockInv, HoldsWait, LockWait,
        wakerVars
<1>2. TimerLockInv'  BY Zenon, PcType, KindType, RendezFacts DEF TimerLockInv, HoldsTimer, Timed, LockWait, wakerVars
<1>3. RendezLockInv'  BY DEF RendezLockInv, HoldsRendez, Cur, LockWait, wakerVars
<1>4. ThreadInv'  BY ZenonT(40), PcType, KindType, RendezFacts DEF ThreadInv, SleepPCs, LockWait
<1>5. BackInv'  BY Zenon, PcType, BlockedOnType DEF BackInv, Cur, LockWait
<1>6. WakeupInv'  BY Zenon, PcType, KindType, RendezFacts DEF WakeupInv, WakeInFlight, LockWait, wakerVars
<1>7. DeathInv'  BY Zenon, PcType, KindType, RendezFacts DEF DeathInv, WakeInFlight, WalkOwes, LockWait, procVars, wakerVars
<1>8. LatchInv'  BY Zenon, PcType, KindType, RendezFacts DEF LatchInv, WakeInFlight, WalkOwes, LockWait, procVars, wakerVars
<1>9. ParkInv'  BY ZenonT(40) DEF TypeOK, ParkInv, StopRequested, StopOwned, WakeInFlight, WalkOwes, Cur,
        DebugOf, HoldsRendez, LockWait, procVars, wakerVars
<1>10. DeadlineInv'  BY Zenon, PcType, KindType, RendezFacts DEF DeadlineInv, InCall, SleepPCs, LockWait
<1>11. WakerInv' /\ SpinInv' /\ TickInv' /\ WaiterInv' /\ TimerListExact' /\ StopInv'  BY Zenon,
        WakerFrame, SpinFrame, TickFrame, WaiterFrame, TimerListFrame, StopInvFrame DEF LockWait,
        procVars, wakerVars
<1> QED BY Zenon, <1>1, <1>2, <1>3, <1>4, <1>5, <1>6, <1>7, <1>8, <1>9, <1>10, <1>11 DEF Structure,
        Delivery

\* tsleep() taking the timer-wait lock after wait_lock.
LEMMA LockTimerStep ==
    ASSUME IInv, NEW t \in Threads, LockTimer(t)
    PROVE  (Structure /\ Delivery)'
<1> /\ TypeOK /\ WaitLockInv /\ TimerLockInv /\ RendezLockInv /\ WakerInv /\ SpinInv /\ TickInv
    /\ ThreadInv /\ BackInv /\ WaiterInv /\ TimerListExact /\ WakeupInv /\ DeathInv /\ LatchInv
    /\ StopInv /\ ParkInv /\ DeadlineInv
  BY Zenon DEF IInv, Structure, Delivery
<1>1. WaitLockInv'  BY DEF WaitLockInv, HoldsWait, LockTimer, wakerVars
<1>2. TimerLockInv'  BY Zenon, WakerFacts, PcType DEF TimerLockInv, HoldsTimer, Timed, LockTimer, wakerVars
<1>3. RendezLockInv'  BY DEF RendezLockInv, HoldsRendez, Cur, LockTimer, wakerVars
<1>4. ThreadInv'  BY Zenon, PcType, KindType, RendezFacts DEF ThreadInv, SleepPCs, LockTimer
<1>5. BackInv'  BY Zenon, PcType, KindType, RendezFacts DEF BackInv, Cur, LockTimer
<1>6. WakeupInv'  BY Zenon, PcType, KindType, RendezFacts DEF WakeupInv, WakeInFlight, LockTimer, wakerVars
<1>7. DeathInv'  BY Zenon, PcType, KindType, RendezFacts DEF DeathInv, WakeInFlight, WalkOwes, LockTimer, procVars, wakerVars
<1>8. LatchInv'  BY Zenon, PcType, KindType, RendezFacts DEF LatchInv, WakeInFlight, WalkOwes, LockTimer, procVars, wakerVars
<1>9. ParkInv'  BY ZenonT(40) DEF TypeOK, ParkInv, StopRequested, StopOwned, WakeInFlight, WalkOwes, LockTimer,
        procVars, wakerVars
<1>10. DeadlineInv'  BY Zenon, PcType, KindType, RendezFacts DEF DeadlineInv, InCall, SleepPCs, LockTimer
<1>11. WakerInv' /\ SpinInv' /\ TickInv' /\ WaiterInv' /\ TimerListExact' /\ StopInv'  BY Zenon,
        WakerFrame, SpinFrame, TickFrame, WaiterFrame, TimerListFrame, StopInvFrame DEF LockTimer,
        procVars, wakerVars
<1> QED BY Zenon, <1>1, <1>2, <1>3, <1>4, <1>5, <1>6, <1>7, <1>8, <1>9, <1>10, <1>11 DEF Structure,
        Delivery

\* The sleeper taking the Rendez lock, before its test and again after a wake.
LEMMA HoldRendezStep ==
    ASSUME IInv, NEW t \in Threads, pc[t] \in {"lockR", "relockR"}, r_lock[Cur(t)] = None, HoldRendez(t)
    PROVE  (Structure /\ Delivery)'
<1> /\ TypeOK /\ WaitLockInv /\ TimerLockInv /\ RendezLockInv /\ WakerInv /\ SpinInv /\ TickInv
    /\ ThreadInv /\ BackInv /\ WaiterInv /\ TimerListExact /\ WakeupInv /\ DeathInv /\ LatchInv
    /\ StopInv /\ ParkInv /\ DeadlineInv
  BY Zenon DEF IInv, Structure, Delivery
<1>1. WaitLockInv'  BY DEF WaitLockInv, HoldsWait, HoldRendez, wakerVars
<1>2. TimerLockInv'  BY Zenon, PcType, KindType, RendezFacts DEF TimerLockInv, HoldsTimer, Timed, HoldRendez, wakerVars
<1>3. RendezLockInv'  BY WakerFacts, RendezFacts, PcType, RLockType, KindType DEF RendezLockInv,
        HoldsRendez, Cur, HoldRendez, wakerVars
<1>4. ThreadInv'  BY Zenon, PcType, KindType, RendezFacts DEF ThreadInv, SleepPCs, HoldRendez
<1>5. BackInv'  BY Zenon, PcType, KindType, RendezFacts DEF BackInv, Cur, HoldRendez
<1>6. WakeupInv'  BY Zenon, PcType, KindType, RendezFacts DEF WakeupInv, WakeInFlight, Cur, HoldRendez, wakerVars
<1>7. DeathInv'  BY Zenon, PcType, KindType, RendezFacts DEF DeathInv, WakeInFlight, WalkOwes, Cur, HoldRendez, procVars, wakerVars
<1>8. LatchInv'  BY Zenon, PcType, KindType, RendezFacts DEF LatchInv, WakeInFlight, WalkOwes, Cur, HoldRendez, procVars, wakerVars
<1>9. ParkInv'
  <2>1. StopRequested => StopRequested'  BY Zenon, StopFrame DEF HoldRendez, procVars
  <2>2. UNCHANGED <<walk, wrendez, waiter, kind>>  BY Zenon DEF HoldRendez, wakerVars
  <2>3. \A u \in Threads : pc'[u] = "stopcheck" => pc[u] = "stopcheck"  BY Zenon, PcType, KindType, RendezFacts DEF HoldRendez
  <2> QED BY ZenonT(30), <2>1, <2>2, <2>3, OwedStill, ParkKept
<1>10. DeadlineInv'  BY Zenon, PcType, KindType, RendezFacts DEF DeadlineInv, InCall, SleepPCs, HoldRendez
<1>11. WakerInv' /\ SpinInv' /\ TickInv' /\ WaiterInv' /\ TimerListExact' /\ StopInv'  BY Zenon,
        WakerFrame, SpinFrame, TickFrame, WaiterFrame, TimerListFrame, StopInvFrame DEF HoldRendez,
        procVars, wakerVars
<1> QED BY Zenon, <1>1, <1>2, <1>3, <1>4, <1>5, <1>6, <1>7, <1>8, <1>9, <1>10, <1>11 DEF Structure,
        Delivery

\* A blocked call that honours a stop goes to park instead.
LEMMA CallParkStep ==
    ASSUME IInv, NEW t \in Threads, pc[t] = "stopcheck", kind[t] = "wait", StopRequested,
           ReleaseAll(t), StartPark(t, "call")
    PROVE  (Structure /\ Delivery)'
<1> /\ TypeOK /\ WaitLockInv /\ TimerLockInv /\ RendezLockInv /\ WakerInv /\ SpinInv /\ TickInv
    /\ ThreadInv /\ BackInv /\ WaiterInv /\ TimerListExact /\ WakeupInv /\ DeathInv /\ LatchInv
    /\ StopInv /\ ParkInv /\ DeadlineInv
  BY Zenon DEF IInv, Structure, Delivery
<1>1. WaitLockInv'  BY WakerFacts, PcType, WaitLockType DEF WaitLockInv, HoldsWait, StartPark,
        ReleaseAll, wakerVars
<1>2. TimerLockInv'  BY WakerFacts, KindType DEF TimerLockInv, HoldsTimer, Timed, StartPark,
        ReleaseAll, wakerVars
<1>3. RendezLockInv'  BY WakerFacts, RendezFacts, PcType, RLockType DEF RendezLockInv, HoldsRendez,
        Cur, StartPark, ReleaseAll, wakerVars
<1>4. ThreadInv'  BY Zenon, PcType, KindType, RendezFacts DEF ThreadInv, SleepPCs, StartPark, ReleaseAll
<1>5. BackInv'  BY Zenon, PcType, KindType, RendezFacts DEF BackInv, Cur, StartPark, ReleaseAll
<1>6. WaiterInv'
  <2>1. state[t] = "RUNNING"  BY Zenon DEF ThreadInv
  <2>2. UNCHANGED <<state, waiter>> /\ \A u \in Threads : u # t => kind'[u] = kind[u]  BY Zenon, PcType, KindType, RendezFacts DEF StartPark
  <2>3. \A r \in Rendezs : Owner(r) \in Threads /\ (Owner(r) # t => Cur(Owner(r))' = Cur(Owner(r)))
        BY Zenon, <2>2, RendezFacts DEF Cur
  <2> QED BY Zenon, <2>1, <2>2, <2>3 DEF WaiterInv
<1>7. WakeupInv'  BY Zenon, PcType, KindType, RendezFacts DEF WakeupInv, WakeInFlight, StartPark, ReleaseAll, wakerVars
<1>8. DeathInv'  BY Zenon, PcType, KindType, RendezFacts DEF DeathInv, WakeInFlight, WalkOwes, StartPark, ReleaseAll, procVars, wakerVars
<1>9. LatchInv'  BY Zenon, PcType, KindType, RendezFacts DEF LatchInv, WakeInFlight, WalkOwes, StartPark, ReleaseAll, procVars, wakerVars
<1>10. ParkInv'  BY ZenonT(30) DEF TypeOK, ParkInv, StopRequested, StopOwned, WakeInFlight, WalkOwes,
        StartPark, ReleaseAll, procVars, wakerVars
<1>11. DeadlineInv'  BY DEF DeadlineInv, InCall, SleepPCs, StartPark, ReleaseAll
<1>12. WakerInv' /\ SpinInv' /\ TickInv' /\ TimerListExact' /\ StopInv'  BY Zenon, WakerFrame, SpinFrame,
        TickFrame, TimerListFrame, StopInvFrame DEF StartPark, ReleaseAll, procVars, wakerVars
<1> QED BY Zenon, <1>1, <1>2, <1>3, <1>4, <1>5, <1>6, <1>7, <1>8, <1>9, <1>10, <1>11, <1>12 DEF Structure,
        Delivery

\* The sleeper publishing itself as the waiter, with its deadline.
LEMMA RegisterStep ==
    ASSUME IInv, NEW t \in Threads, Register(t)
    PROVE  (Structure /\ Delivery)'
<1> /\ TypeOK /\ WaitLockInv /\ TimerLockInv /\ RendezLockInv /\ WakerInv /\ SpinInv /\ TickInv
    /\ ThreadInv /\ BackInv /\ WaiterInv /\ TimerListExact /\ WakeupInv /\ DeathInv /\ LatchInv
    /\ StopInv /\ ParkInv /\ DeadlineInv
  BY Zenon DEF IInv, Structure, Delivery
<1>1. WaitLockInv'  BY DEF WaitLockInv, HoldsWait, Register, lockVars, wakerVars
<1>2. TimerLockInv'  BY Zenon, PcType, KindType, RendezFacts DEF TimerLockInv, HoldsTimer, Timed, Register, lockVars, wakerVars
<1>3. RendezLockInv'  BY DEF RendezLockInv, HoldsRendez, Cur, Register, lockVars, wakerVars
<1>4. SpinInv'
  <2>1. Cur(t) \in Rendezs /\ Owner(Cur(t)) = t  BY Zenon, RendezFacts, KindType DEF Cur
  <2> QED BY <2>1 DEF SpinInv, Register, wakerVars
<1>5. TickInv'  BY Zenon DEF TickInv, Register, wakerVars
<1>6. ThreadInv'  BY Zenon, PcType, StateType DEF ThreadInv, SleepPCs, Register
<1>7. BackInv'  BY Zenon, PcType, BlockedOnType DEF BackInv, Cur, Register
<1>8. WaiterInv'  BY RendezFacts, StateType, WaiterType, KindType DEF WaiterInv, Cur, Register
<1>9. TimerListExact'
  <2>1. UNCHANGED <<wpc, wrendez, kind>> BY Zenon DEF Register, wakerVars
  <2>2. Cur(t) \in Rendezs /\ Owner(Cur(t)) = t /\ \A u \in Threads : WaitOf(u) \in Rendezs /\ Owner(WaitOf(u)) = u
        BY Zenon, RendezFacts, KindType DEF Cur, WaitOf
  <2>3. \A u \in Threads : u # t => waiter'[WaitOf(u)] = waiter[WaitOf(u)] /\ (u \in timerwait' <=> u \in timerwait)
    BY Zenon, <2>2, WakerFacts, RendezFacts DEF Register, TypeOK
  <2>4. CASE kind[t] = "debug"
    <3>1. ~Timed(t) /\ WaitOf(t) # Cur(t) BY Zenon, <2>4, RendezFacts DEF Timed, Cur, WaitOf, DebugOf
    <3>2. timerwait' = timerwait /\ waiter'[WaitOf(t)] = waiter[WaitOf(t)] BY Zenon, <2>2, <3>1, WakerFacts, RendezFacts DEF Register, TypeOK
    <3> QED BY Zenon, <2>1, <2>3, <3>2 DEF TimerListExact
  <2>5. CASE kind[t] = "wait"
    <3>1. WaitOf(t) = Cur(t) /\ (Timed(t) <=> t \in TimedThreads) BY Zenon, <2>5 DEF Timed, Cur, WaitOf
    <3>2. waiter'[WaitOf(t)] = t BY Zenon, <2>2, <3>1, WaiterType DEF Register
    <3>3. r_lock[WaitOf(t)] = t BY <2>2, <3>1 DEF Register, RendezLockInv, HoldsRendez
    <3>4. \A w \in Wakers : ~(wpc[w] = "wspin" /\ wrendez[w] = WaitOf(t))  BY <2>2, <3>3, WakerFacts
        DEF RendezLockInv
    <3>5. t \in timerwait' <=> t \in TimedThreads
      <4>1. state[t] = "RUNNING" BY Zenon DEF ThreadInv, Register
      <4>2. waiter[WaitOf(t)] # t BY Zenon, <2>2, <4>1 DEF WaiterInv
      <4>3. t \notin timerwait BY Zenon, <4>2 DEF TimerListExact
      <4> QED BY Zenon, <3>1, <4>3 DEF Register
    <3> QED BY Zenon, <2>1, <2>3, <3>2, <3>4, <3>5 DEF TimerListExact
  <2> QED BY Zenon, <2>4, <2>5, KindType DEF Kinds
<1>10. WakeupInv'  BY DEF WakeupInv, WakeInFlight, Register, wakerVars
<1>11. DeathInv'  BY PcType DEF DeathInv, WakeInFlight, WalkOwes, Register, procVars, wakerVars
<1>12. LatchInv'  BY PcType DEF LatchInv, WakeInFlight, WalkOwes, Register, procVars, wakerVars
<1>13. StopInv'
  <2>1. StopRequested' => StopRequested  BY Zenon, StopFrame DEF Register, procVars
  <2>2. UNCHANGED <<walk, wrendez>>  BY Zenon DEF Register, wakerVars
  <2>3. CASE ~StopRequested  BY Zenon, <2>1, <2>3 DEF StopInv
  <2>4. CASE StopRequested
    <3>1. kind[t] = "debug"  BY Zenon, <2>4, KindType DEF Register, Kinds
    <3>2. \A u \in Threads : waiter'[WaitOf(u)] = waiter[WaitOf(u)]
      BY <3>1, RendezFacts DEF Register, WaitOf, Cur, DebugOf
    <3> QED BY ZenonT(30), <2>1, <2>2, <3>2, OwedStill, StopKept
  <2> QED BY Zenon, <2>3, <2>4
<1>14. ParkInv'
  <2>1. StopRequested => StopRequested'  BY Zenon, StopFrame DEF Register, procVars
  <2>2. UNCHANGED <<walk, wrendez, kind>>  BY Zenon DEF Register, wakerVars
  <2>3. \A u \in Threads : kind[u] = "debug" /\ (pc'[u] = "stopcheck" \/ waiter'[DebugOf(u)] = u) =>
           pc[u] = "stopcheck" \/ waiter[DebugOf(u)] = u
     BY DEF Register, DebugOf, Cur
  <2> QED BY ZenonT(30), <2>1, <2>2, <2>3, OwedStill, ParkKept
<1>15. DeadlineInv'  BY Zenon, PcType, KindType, RendezFacts DEF DeadlineInv, InCall, SleepPCs, Register
<1>16. WakerInv'  BY Zenon, WakerFrame DEF Register, lockVars, procVars, wakerVars
<1> QED BY Zenon, <1>1, <1>2, <1>3, <1>4, <1>5, <1>6, <1>7, <1>8, <1>9, <1>10, <1>11, <1>12, <1>13, <1>14,
        <1>15, <1>16 DEF Structure, Delivery

-----------------------------------------------------------------------------
(* From the last look before the switch to the return to user mode         *)

\* The registered sleeper finding a death pending and backing out.
LEMMA ObserveDeathStep ==
    ASSUME IInv, NEW t \in Threads, ObserveDeath(t)
    PROVE  (Structure /\ Delivery)'
<1> /\ TypeOK /\ WaitLockInv /\ TimerLockInv /\ RendezLockInv /\ WakerInv /\ SpinInv /\ TickInv
    /\ ThreadInv /\ BackInv /\ WaiterInv /\ TimerListExact /\ WakeupInv /\ DeathInv /\ LatchInv
    /\ StopInv /\ ParkInv /\ DeadlineInv
  BY Zenon DEF IInv, Structure, Delivery
<1>1. WaitLockInv'  BY WakerFacts, PcType, WaitLockType DEF WaitLockInv, HoldsWait, ObserveDeath,
        ReleaseAll, wakerVars
<1>2. TimerLockInv'  BY WakerFacts, PcType DEF TimerLockInv, HoldsTimer, Timed, ObserveDeath,
        ReleaseAll, wakerVars
<1>3. RendezLockInv'  BY WakerFacts, RendezFacts, PcType, KindType, RcType, RLockType DEF
        RendezLockInv, HoldsRendez, Cur, ObserveDeath, ReleaseAll, wakerVars
<1>4. SpinInv'  BY WakerFacts, RendezFacts, KindType DEF SpinInv, RendezLockInv, WaiterInv,
        HoldsRendez, Cur, ObserveDeath, wakerVars
<1>5. TickInv'  BY Zenon DEF TickInv, ThreadInv, ObserveDeath, wakerVars
<1>6. ThreadInv'  BY ZenonT(40), PcType, StateType, KindType, RendezFacts DEF ThreadInv, ObserveDeath
<1>7. BackInv'  BY Zenon, PcType, BlockedOnType, KindType, RendezFacts DEF BackInv, Cur, ObserveDeath
<1>8. WaiterInv'  BY WakerFacts, RendezFacts, StateType, KindType, WaiterType DEF WaiterInv, Cur,
        ObserveDeath
<1>9. TimerListExact'  BY WakerFacts, RendezFacts, KindType, WaiterType DEF TimerListExact,
        WaiterInv, Cur, WaitOf, ObserveDeath, wakerVars
<1>10. WakeupInv'  BY WakerFacts, RendezFacts, WaiterType DEF WakeupInv, WaiterInv, WakeInFlight,
        WaitOf, ObserveDeath, wakerVars
<1>11. DeathInv'  BY WakerFacts, RendezFacts, WaiterType DEF DeathInv, WaiterInv, WakeInFlight,
        WalkOwes, ObserveDeath, procVars, wakerVars
<1>12. LatchInv'  BY WakerFacts, RendezFacts, WaiterType DEF LatchInv, WaiterInv, WakeInFlight,
        WalkOwes, WaitOf, ObserveDeath, procVars, wakerVars
<1>13. StopInv' /\ ParkInv'
  <2>1. StopRequested' <=> StopRequested BY Zenon, StopFrame DEF ObserveDeath, procVars
  <2>2. UNCHANGED <<walk, wrendez>> BY Zenon DEF ObserveDeath, wakerVars
  <2>3. \A r \in Rendezs : waiter'[r] = waiter[r] \/ waiter'[r] = None BY DEF ObserveDeath
  <2>4. \A u \in Threads : kind'[u] = "debug" => kind[u] = "debug" /\ pc'[u] = pc[u] BY Zenon, KindType, PcType, RendezFacts DEF ObserveDeath
  <2>5. \A u \in Threads : WaitOf(u) \in Rendezs /\ DebugOf(u) \in Rendezs /\ u # None BY Zenon,
        RendezFacts, WakerFacts DEF WaitOf, DebugOf
  <2>6. StopInv' BY ZenonT(30), <2>1, <2>2, <2>3, <2>5, OwedStill, StopKept
  <2>7. ParkInv' BY ZenonT(30), <2>1, <2>2, <2>3, <2>4, <2>5, OwedStill, ParkKept
  <2> QED BY Zenon, <2>6, <2>7
<1>14. DeadlineInv'  BY PcType, ParkedFromType DEF DeadlineInv, InCall, SleepPCs, ObserveDeath
<1>15. WakerInv'  BY Zenon, WakerFrame DEF ObserveDeath, ReleaseAll, procVars, wakerVars
<1> QED BY Zenon, <1>1, <1>2, <1>3, <1>4, <1>5, <1>6, <1>7, <1>8, <1>9, <1>10, <1>11, <1>12, <1>13, <1>14,
        <1>15 DEF Structure, Delivery

\* The registered sleeper finding no death and going on to switch away.
LEMMA ObserveNoneStep ==
    ASSUME IInv, NEW t \in Threads, ObserveNone(t)
    PROVE  (Structure /\ Delivery)'
<1> /\ TypeOK /\ WaitLockInv /\ TimerLockInv /\ RendezLockInv /\ WakerInv /\ SpinInv /\ TickInv
    /\ ThreadInv /\ BackInv /\ WaiterInv /\ TimerListExact /\ WakeupInv /\ DeathInv /\ LatchInv
    /\ StopInv /\ ParkInv /\ DeadlineInv
  BY Zenon DEF IInv, Structure, Delivery
<1>1. WaitLockInv'  BY WakerFacts, PcType, WaitLockType DEF WaitLockInv, HoldsWait, ObserveNone,
        ReleaseAll, wakerVars
<1>2. TimerLockInv'  BY ZenonT(40), WakerFacts, PcType, KindType, RendezFacts DEF TimerLockInv, HoldsTimer, Timed, ObserveNone, ReleaseAll, wakerVars
<1>3. RendezLockInv'  BY WakerFacts, RendezFacts, PcType, RLockType, KindType DEF RendezLockInv,
        HoldsRendez, Cur, ObserveNone, ReleaseAll, procVars, wakerVars
<1>4. ThreadInv'  BY Zenon, PcType, KindType, RendezFacts DEF ThreadInv, SleepPCs, ObserveNone
<1>5. BackInv'  BY Zenon, PcType, KindType, RendezFacts DEF BackInv, Cur, ObserveNone
<1>6. WakeupInv'  BY Zenon, PcType, KindType, RendezFacts DEF WakeupInv, WakeInFlight, ObserveNone, wakerVars
<1>7. DeathInv'  BY Zenon DEF DeathInv, DeathPending, ObserveNone, procVars
<1>8. LatchInv'
  <2>1. UNCHANGED <<walk, wrendez, waiter, latch>> /\ ~DeathPending(t) BY Zenon DEF ObserveNone, wakerVars, procVars
  <2>2. latch => kind[t] # "wait" BY Zenon, <2>1 DEF DeathPending
  <2>3. latch => Cur(t) # WaitOf(t) BY Zenon, <2>2, RendezFacts, KindType DEF Cur, WaitOf, DebugOf, Kinds
  <2>4. latch => waiter[WaitOf(t)] # t BY Zenon, <2>3, RendezFacts DEF WaiterInv, WaitOf
  <2>5. \A u \in Threads : u # t => pc'[u] = pc[u] BY Zenon, PcType, KindType, RendezFacts DEF ObserveNone
  <2> QED BY Zenon, <2>1, <2>4, <2>5 DEF LatchInv, WalkOwes, WakeInFlight
<1>9. ParkInv'
  <2>1. StopRequested' <=> StopRequested BY Zenon, StopFrame DEF ObserveNone, procVars
  <2>2. UNCHANGED <<walk, wrendez, waiter, kind>> BY Zenon DEF ObserveNone, wakerVars
  <2>3. \A u \in Threads : pc'[u] = "stopcheck" => pc[u] = "stopcheck" BY Zenon, PcType, KindType, RendezFacts DEF ObserveNone
  <2> QED BY ZenonT(30), <2>1, <2>2, <2>3, OwedStill, ParkKept
<1>10. DeadlineInv'  BY Zenon, PcType, KindType, RendezFacts DEF DeadlineInv, InCall, SleepPCs, ObserveNone
<1>11. WakerInv' /\ SpinInv' /\ TickInv' /\ WaiterInv' /\ TimerListExact' /\ StopInv'  BY Zenon,
        WakerFrame, SpinFrame, TickFrame, WaiterFrame, TimerListFrame, StopInvFrame DEF ObserveNone,
        ReleaseAll, procVars, wakerVars
<1> QED BY Zenon, <1>1, <1>2, <1>3, <1>4, <1>5, <1>6, <1>7, <1>8, <1>9, <1>10, <1>11 DEF Structure,
        Delivery

\* sched() leaving the CPU with the locks dropped.
LEMMA SwitchOutStep ==
    ASSUME IInv, NEW t \in Threads, SwitchOut(t)
    PROVE  (Structure /\ Delivery)'
<1> /\ TypeOK /\ WaitLockInv /\ TimerLockInv /\ RendezLockInv /\ WakerInv /\ SpinInv /\ TickInv
    /\ ThreadInv /\ BackInv /\ WaiterInv /\ TimerListExact /\ WakeupInv /\ DeathInv /\ LatchInv
    /\ StopInv /\ ParkInv /\ DeadlineInv
  BY Zenon DEF IInv, Structure, Delivery
<1>1. WaitLockInv'  BY DEF WaitLockInv, HoldsWait, SwitchOut, lockVars, wakerVars
<1>2. TimerLockInv'  BY Zenon, PcType, KindType, RendezFacts DEF TimerLockInv, HoldsTimer, Timed, SwitchOut, lockVars, wakerVars
<1>3. RendezLockInv'  BY DEF RendezLockInv, HoldsRendez, Cur, SwitchOut, lockVars, wakerVars
<1>4. TickInv'  BY Zenon, WakerFacts, RendezFacts DEF TickInv, SwitchOut, wakerVars, TypeOK
<1>5. ThreadInv'  BY Zenon, PcType, OnCpuType, KindType, RendezFacts DEF ThreadInv, SleepPCs, SwitchOut
<1>6. BackInv'  BY Zenon, PcType, KindType, RendezFacts DEF BackInv, Cur, SwitchOut
<1>7. WakeupInv'  BY Zenon, PcType, KindType, RendezFacts DEF WakeupInv, WakeInFlight, SwitchOut, wakerVars
<1>8. DeathInv'  BY Zenon, PcType, KindType, RendezFacts DEF DeathInv, WakeInFlight, WalkOwes, SwitchOut, procVars, wakerVars
<1>9. LatchInv'  BY Zenon, PcType, KindType, RendezFacts DEF LatchInv, WakeInFlight, WalkOwes, SwitchOut, procVars, wakerVars
<1>10. ParkInv'
  <2>1. StopRequested' <=> StopRequested BY Zenon, StopFrame DEF SwitchOut, procVars
  <2>2. UNCHANGED <<walk, wrendez, waiter, kind>> BY Zenon DEF SwitchOut, wakerVars
  <2>3. \A u \in Threads : pc'[u] = "stopcheck" => pc[u] = "stopcheck" BY Zenon, PcType, KindType, RendezFacts DEF SwitchOut
  <2> QED BY ZenonT(30), <2>1, <2>2, <2>3, OwedStill, ParkKept
<1>11. DeadlineInv'  BY Zenon, PcType, KindType, RendezFacts DEF DeadlineInv, InCall, SleepPCs, SwitchOut
<1>12. WakerInv' /\ SpinInv' /\ WaiterInv' /\ TimerListExact' /\ StopInv'  BY Zenon, WakerFrame, SpinFrame,
        WaiterFrame, TimerListFrame, StopInvFrame DEF SwitchOut, lockVars, procVars, wakerVars
<1> QED BY ZenonT(40), <1>1, <1>2, <1>3, <1>4, <1>5, <1>6, <1>7, <1>8, <1>9, <1>10, <1>11, <1>12 DEF Structure,
        Delivery

\* A woken thread back on a CPU.
LEMMA SwitchInStep ==
    ASSUME IInv, NEW t \in Threads, SwitchIn(t)
    PROVE  (Structure /\ Delivery)'
<1> /\ TypeOK /\ WaitLockInv /\ TimerLockInv /\ RendezLockInv /\ WakerInv /\ SpinInv /\ TickInv
    /\ ThreadInv /\ BackInv /\ WaiterInv /\ TimerListExact /\ WakeupInv /\ DeathInv /\ LatchInv
    /\ StopInv /\ ParkInv /\ DeadlineInv
  BY Zenon DEF IInv, Structure, Delivery
<1>1. WaitLockInv'  BY DEF WaitLockInv, HoldsWait, SwitchIn, lockVars, wakerVars
<1>2. TimerLockInv'  BY Zenon, PcType, KindType, RendezFacts DEF TimerLockInv, HoldsTimer, Timed, SwitchIn, lockVars, wakerVars
<1>3. RendezLockInv'  BY DEF RendezLockInv, HoldsRendez, Cur, SwitchIn, lockVars, wakerVars
<1>4. TickInv'  BY WakerFacts, WrendezType DEF TickInv, TimerLockInv, WakerInv, ThreadInv,
        WaiterInv, TimerListExact, Timed, Cur, SwitchIn, wakerVars
<1>5. ThreadInv'  BY PcType, StateType, OnCpuType DEF ThreadInv, SleepPCs, SwitchIn
<1>6. BackInv'  BY Zenon, PcType, KindType, RendezFacts DEF BackInv, Cur, SwitchIn
<1>7. WaiterInv'  BY DEF WaiterInv, Cur, SwitchIn
<1>8. WakeupInv'  BY Zenon, PcType, KindType, RendezFacts DEF WakeupInv, WakeInFlight, SwitchIn, wakerVars
<1>9. DeathInv'  BY Zenon, PcType, KindType, RendezFacts DEF DeathInv, WakeInFlight, WalkOwes, SwitchIn, procVars, wakerVars
<1>10. LatchInv'  BY Zenon, PcType, KindType, RendezFacts DEF LatchInv, WakeInFlight, WalkOwes, SwitchIn, procVars, wakerVars
<1>11. ParkInv'
  <2>1. StopRequested' <=> StopRequested BY Zenon, StopFrame DEF SwitchIn, procVars
  <2>2. UNCHANGED <<walk, wrendez, waiter, kind>> BY Zenon DEF SwitchIn, wakerVars
  <2>3. \A u \in Threads : pc'[u] = "stopcheck" => pc[u] = "stopcheck" BY Zenon, PcType, KindType, RendezFacts DEF SwitchIn
  <2> QED BY ZenonT(30), <2>1, <2>2, <2>3, OwedStill, ParkKept
<1>12. DeadlineInv'  BY Zenon, PcType, KindType, RendezFacts DEF DeadlineInv, InCall, SleepPCs, SwitchIn
<1>13. WakerInv' /\ SpinInv' /\ TimerListExact' /\ StopInv'  BY Zenon, WakerFrame, SpinFrame,
        TimerListFrame, StopInvFrame DEF SwitchIn, lockVars, procVars, wakerVars
<1> QED BY Zenon, <1>1, <1>2, <1>3, <1>4, <1>5, <1>6, <1>7, <1>8, <1>9, <1>10, <1>11, <1>12, <1>13 DEF
        Structure, Delivery

\* A step of the EL0-return tail between its checks.
LEMMA TailStep ==
    ASSUME IInv, NEW t \in Threads, pc[t] \in TailPCs \cup {"el0"}, NEW l \in TailPCs, Goto(t, l)
    PROVE  (Structure /\ Delivery)'
<1> /\ TypeOK /\ WaitLockInv /\ TimerLockInv /\ RendezLockInv /\ WakerInv /\ SpinInv /\ TickInv
    /\ ThreadInv /\ BackInv /\ WaiterInv /\ TimerListExact /\ WakeupInv /\ DeathInv /\ LatchInv
    /\ StopInv /\ ParkInv /\ DeadlineInv
  BY Zenon DEF IInv, Structure, Delivery
<1>1. WaitLockInv'  BY DEF WaitLockInv, HoldsWait, Goto, TailPCs, lockVars, wakerVars
<1>2. TimerLockInv'  BY Zenon, PcType, KindType, RendezFacts DEF TimerLockInv, HoldsTimer, Timed, Goto, TailPCs, lockVars, wakerVars
<1>3. RendezLockInv'  BY DEF RendezLockInv, HoldsRendez, Cur, Goto, TailPCs, lockVars, wakerVars
<1>4. ThreadInv'  BY DEF ThreadInv, SleepPCs, TailPCs, Goto
<1>5. BackInv'  BY Zenon, PcType, KindType, RendezFacts DEF BackInv, Cur, Goto, TailPCs
<1>6. WakeupInv'  BY Zenon, PcType, KindType, RendezFacts DEF WakeupInv, WakeInFlight, Goto, TailPCs, wakerVars
<1>7. DeathInv'  BY Zenon, PcType, KindType, RendezFacts DEF DeathInv, WakeInFlight, WalkOwes, Goto, TailPCs, procVars, wakerVars
<1>8. LatchInv'  BY Zenon, PcType, KindType, RendezFacts DEF LatchInv, WakeInFlight, WalkOwes, Goto, TailPCs, procVars, wakerVars
<1>9. ParkInv'
  <2>1. StopRequested' <=> StopRequested BY Zenon, StopFrame DEF Goto, procVars
  <2>2. UNCHANGED <<walk, wrendez, waiter, kind>> BY Zenon DEF Goto, wakerVars
  <2>3. \A u \in Threads : pc'[u] = "stopcheck" => pc[u] = "stopcheck" BY Zenon, PcType, KindType, RendezFacts DEF Goto, TailPCs
  <2> QED BY ZenonT(30), <2>1, <2>2, <2>3, OwedStill, ParkKept
<1>10. DeadlineInv'  BY Zenon, PcType, KindType, RendezFacts DEF DeadlineInv, InCall, SleepPCs, TailPCs, Goto
<1>11. WakerInv' /\ SpinInv' /\ TickInv' /\ WaiterInv' /\ TimerListExact' /\ StopInv'  BY Zenon,
        WakerFrame, SpinFrame, TickFrame, WaiterFrame, TimerListFrame, StopInvFrame DEF Goto,
        TailPCs, lockVars, procVars, wakerVars
<1> QED BY Zenon, <1>1, <1>2, <1>3, <1>4, <1>5, <1>6, <1>7, <1>8, <1>9, <1>10, <1>11 DEF Structure,
        Delivery

\* The tail finding a death and ending the thread.
LEMMA ExitSelfStep ==
    ASSUME IInv, NEW t \in Threads, pc[t] \in TailPCs, ExitSelf(t)
    PROVE  (Structure /\ Delivery)'
<1> /\ TypeOK /\ WaitLockInv /\ TimerLockInv /\ RendezLockInv /\ WakerInv /\ SpinInv /\ TickInv
    /\ ThreadInv /\ BackInv /\ WaiterInv /\ TimerListExact /\ WakeupInv /\ DeathInv /\ LatchInv
    /\ StopInv /\ ParkInv /\ DeadlineInv
  BY Zenon DEF IInv, Structure, Delivery
<1>1. WaitLockInv'  BY DEF WaitLockInv, HoldsWait, ExitSelf, TailPCs, lockVars, wakerVars
<1>2. TimerLockInv'  BY Zenon, PcType, KindType, RendezFacts DEF TimerLockInv, HoldsTimer, Timed, ExitSelf, TailPCs, lockVars, wakerVars
<1>3. RendezLockInv'  BY DEF RendezLockInv, HoldsRendez, Cur, ExitSelf, TailPCs, lockVars, wakerVars
<1>4. ThreadInv'  BY PcType, StateType DEF ThreadInv, SleepPCs, TailPCs, ExitSelf
<1>5. BackInv'  BY Zenon, PcType, KindType, RendezFacts DEF BackInv, Cur, ExitSelf, TailPCs
<1>6. WaiterInv'  BY DEF WaiterInv, ThreadInv, Cur, ExitSelf, TailPCs, lockVars, procVars, wakerVars
<1>7. WakeupInv'  BY Zenon, PcType, KindType, RendezFacts DEF WakeupInv, WakeInFlight, ExitSelf, TailPCs, wakerVars
<1>8. DeathInv'  BY Zenon, PcType, KindType, RendezFacts DEF DeathInv, WakeInFlight, WalkOwes, ExitSelf, TailPCs, procVars, wakerVars
<1>9. LatchInv'  BY Zenon, PcType, KindType, RendezFacts DEF LatchInv, WakeInFlight, WalkOwes, ExitSelf, TailPCs, procVars, wakerVars
<1>10. ParkInv'
  <2>1. StopRequested' <=> StopRequested BY Zenon, StopFrame DEF ExitSelf, procVars
  <2>2. UNCHANGED <<walk, wrendez, waiter, kind>> BY Zenon DEF ExitSelf, wakerVars
  <2>3. \A u \in Threads : pc'[u] = "stopcheck" => pc[u] = "stopcheck" BY Zenon, PcType, KindType, RendezFacts DEF ExitSelf
  <2> QED BY ZenonT(30), <2>1, <2>2, <2>3, OwedStill, ParkKept
<1>11. DeadlineInv'  BY Zenon, PcType, KindType, RendezFacts DEF DeadlineInv, InCall, SleepPCs, TailPCs, ExitSelf
<1>12. WakerInv' /\ SpinInv' /\ TickInv' /\ TimerListExact' /\ StopInv'  BY Zenon, WakerFrame, SpinFrame,
        TickFrame, TimerListFrame, StopInvFrame DEF ExitSelf, TailPCs, lockVars, procVars, wakerVars
<1> QED BY Zenon, <1>1, <1>2, <1>3, <1>4, <1>5, <1>6, <1>7, <1>8, <1>9, <1>10, <1>11, <1>12 DEF Structure,
        Delivery

\* The tail finding a stop and parking.
LEMMA TailParkStep ==
    ASSUME IInv, NEW t \in Threads, pc[t] = "parkcond", StopRequested, UNCHANGED lockVars, StartPark(t, "tail")
    PROVE  (Structure /\ Delivery)'
<1> /\ TypeOK /\ WaitLockInv /\ TimerLockInv /\ RendezLockInv /\ WakerInv /\ SpinInv /\ TickInv
    /\ ThreadInv /\ BackInv /\ WaiterInv /\ TimerListExact /\ WakeupInv /\ DeathInv /\ LatchInv
    /\ StopInv /\ ParkInv /\ DeadlineInv
  BY Zenon DEF IInv, Structure, Delivery
<1>1. WaitLockInv'  BY DEF WaitLockInv, HoldsWait, StartPark, lockVars, wakerVars
<1>2. TimerLockInv'  BY Zenon, PcType, KindType, RendezFacts DEF TimerLockInv, HoldsTimer, Timed, StartPark, lockVars, wakerVars
<1>3. RendezLockInv'  BY DEF RendezLockInv, HoldsRendez, Cur, StartPark, lockVars, wakerVars
<1>4. ThreadInv'  BY Zenon, PcType, KindType, RendezFacts DEF ThreadInv, SleepPCs, StartPark, lockVars
<1>5. BackInv'
  <2>1. blockedOn' = blockedOn /\ blockedOn[t] = None /\ pc'[t] = "lock"  BY Zenon, PcType DEF BackInv, StartPark
  <2>2. \A u \in Threads : u # t => pc'[u] = pc[u] /\ kind'[u] = kind[u]  BY Zenon, PcType, KindType, RendezFacts DEF StartPark
  <2> QED BY Zenon, <2>1, <2>2 DEF BackInv, Cur
<1>6. WaiterInv'  BY Zenon, PcType, KindType, RendezFacts DEF WaiterInv, ThreadInv, Cur, StartPark, lockVars, procVars, wakerVars
<1>7. WakeupInv'  BY Zenon, PcType, KindType, RendezFacts DEF WakeupInv, WakeInFlight, StartPark, lockVars, wakerVars
<1>8. DeathInv'  BY Zenon, PcType, KindType, RendezFacts DEF DeathInv, WakeInFlight, WalkOwes, StartPark, lockVars, procVars, wakerVars
<1>9. LatchInv'  BY Zenon, PcType, KindType, RendezFacts DEF LatchInv, WakeInFlight, WalkOwes, StartPark, lockVars, procVars, wakerVars
<1>10. ParkInv'  BY ZenonT(30) DEF TypeOK, ParkInv, StopRequested, StopOwned, WakeInFlight, WalkOwes,
        StartPark, lockVars, procVars, wakerVars
<1>11. DeadlineInv'  BY Zenon, KindType, ParkedFromType, PcType, RendezFacts DEF DeadlineInv, InCall, StartPark, lockVars
<1>12. WakerInv' /\ SpinInv' /\ TickInv' /\ TimerListExact' /\ StopInv'  BY Zenon, WakerFrame, SpinFrame,
        TickFrame, TimerListFrame, StopInvFrame DEF StartPark, lockVars, procVars, wakerVars
<1> QED BY Zenon, <1>1, <1>2, <1>3, <1>4, <1>5, <1>6, <1>7, <1>8, <1>9, <1>10, <1>11, <1>12 DEF Structure,
        Delivery

-----------------------------------------------------------------------------
(* Around a wait: the return, the way to user mode and into the next call, *)
(* the exit of the group, a deadline that passes, a latch taken back       *)

\* sleep(), tsleep() or the stop park returning: every lock it holds is dropped.
LEMMA ReturnStep ==
    ASSUME IInv, NEW t \in Threads, NEW c \in {"OK", "INTR", "TIMEDOUT"}, Return(t, c),
           \/ pc[t] \in {"check", "stopcheck"}
           \/ pc[t] \in {"lockR", "relockR"} /\ r_lock[Cur(t)] = None,
           c = "TIMEDOUT" => Timed(t) /\ (sleep_timedout[t] \/ expired[t])
    PROVE  (Structure /\ Delivery)'
<1> /\ TypeOK /\ WaitLockInv /\ TimerLockInv /\ RendezLockInv /\ WakerInv /\ SpinInv /\ TickInv
    /\ ThreadInv /\ BackInv /\ WaiterInv /\ TimerListExact /\ WakeupInv /\ DeathInv /\ LatchInv
    /\ StopInv /\ ParkInv /\ DeadlineInv
  BY Zenon DEF IInv, Structure, Delivery
<1>1. WaitLockInv'  BY WakerFacts, PcType, WaitLockType DEF WaitLockInv, HoldsWait, Return,
        ReleaseAll, wakerVars
<1>2. TimerLockInv'  BY WakerFacts, PcType DEF TimerLockInv, HoldsTimer, Timed, Return, ReleaseAll,
        wakerVars
<1>3. RendezLockInv'  BY WakerFacts, RendezFacts, PcType, KindType, RLockType DEF RendezLockInv,
        HoldsRendez, Cur, Return, ReleaseAll, wakerVars
<1>4. ThreadInv'  BY Zenon, KindType, PcType, RendezFacts DEF ThreadInv, Return
<1>5. BackInv'  BY Zenon, PcType, KindType, RendezFacts DEF BackInv, Cur, Return
<1>6. WaiterInv'
  <2>1. state[t] = "RUNNING"  BY Zenon DEF ThreadInv
  <2>2. UNCHANGED <<state, waiter>> /\ \A u \in Threads : u # t => kind'[u] = kind[u]  BY Zenon, PcType, KindType, RendezFacts DEF Return
  <2>3. \A r \in Rendezs : Owner(r) \in Threads /\ (Owner(r) # t => Cur(Owner(r))' = Cur(Owner(r)))
        BY Zenon, <2>2, RendezFacts DEF Cur
  <2> QED BY Zenon, <2>1, <2>2, <2>3 DEF WaiterInv
<1>7. WakeupInv'
  <2>1. state[t] = "RUNNING" BY Zenon DEF ThreadInv
  <2>2. waiter[WaitOf(t)] # t BY ZenonT(40), <2>1, RendezFacts DEF WaiterInv, WaitOf
  <2>3. UNCHANGED <<waiter, wrendez>> /\ pc'[t] # "stopcheck" BY Zenon, PcType DEF Return, wakerVars
  <2>4. \A u \in Threads : u # t => kind'[u] = kind[u] /\ pc'[u] = pc[u] /\ (cond'[u] <=> cond[u])
        BY DEF Return
  <2> QED BY <2>2, <2>3, <2>4 DEF WakeupInv, WakeInFlight
<1>8. DeathInv'  BY Zenon, PcType, StateType, KindType DEF DeathInv, WakeInFlight, WalkOwes, Cur, Return, procVars, wakerVars, SleepPCs, TailPCs
<1>9. LatchInv'  BY Zenon, PcType, KindType, RendezFacts DEF LatchInv, WakeInFlight, WalkOwes, Cur, Return, procVars, wakerVars
<1>10. ParkInv'
  <2>1. StopRequested => StopRequested'  BY Zenon, StopFrame DEF Return, procVars
  <2>2. UNCHANGED <<walk, wrendez, waiter>>  BY Zenon DEF Return, wakerVars
  <2>3. \A u \in Threads : kind'[u] = "debug" => kind[u] = "debug" /\ pc'[u] = pc[u]  BY Zenon, KindType, PcType, RendezFacts DEF Return
  <2> QED BY ZenonT(30), <2>1, <2>2, <2>3, OwedStill, ParkKept
<1>11. DeadlineInv'  BY PcType, ParkedFromType DEF DeadlineInv, InCall, Timed, SleepPCs, Return
<1>12. WakerInv' /\ SpinInv' /\ TickInv' /\ TimerListExact' /\ StopInv'  BY Zenon, WakerFrame, SpinFrame,
        TickFrame, TimerListFrame, StopInvFrame DEF Return, ReleaseAll, procVars, wakerVars
<1> QED BY Zenon, <1>1, <1>2, <1>3, <1>4, <1>5, <1>6, <1>7, <1>8, <1>9, <1>10, <1>11, <1>12 DEF Structure,
        Delivery

\* The condition is tested false under the Rendez lock.
LEMMA NotYetStep ==
    ASSUME IInv, NEW t \in Threads, pc[t] = "check", ~CondHolds(t), Goto(t, "stopcheck")
    PROVE  (Structure /\ Delivery)'
<1> /\ TypeOK /\ WaitLockInv /\ TimerLockInv /\ RendezLockInv /\ WakerInv /\ SpinInv /\ TickInv
    /\ ThreadInv /\ BackInv /\ WaiterInv /\ TimerListExact /\ WakeupInv /\ DeathInv /\ LatchInv
    /\ StopInv /\ ParkInv /\ DeadlineInv
  BY ZenonT(40) DEF IInv, Structure, Delivery
<1>1. WaitLockInv'  BY DEF WaitLockInv, HoldsWait, Goto, CondHolds, lockVars, wakerVars
<1>2. TimerLockInv'  BY Zenon, PcType, KindType, RendezFacts DEF TimerLockInv, HoldsTimer, Timed, Goto, CondHolds, lockVars, wakerVars
<1>3. RendezLockInv'  BY DEF RendezLockInv, HoldsRendez, Cur, Goto, CondHolds, lockVars, wakerVars
<1>4. ThreadInv'  BY Zenon, PcType, KindType, RendezFacts DEF ThreadInv, SleepPCs, Goto, CondHolds
<1>5. BackInv'  BY Zenon, PcType, KindType, RendezFacts DEF BackInv, Cur, Goto, CondHolds
<1>6. WakeupInv'  BY Zenon, PcType, KindType, RendezFacts DEF WakeupInv, WakeInFlight, Goto, CondHolds, wakerVars
<1>7. DeathInv'  BY Zenon, PcType, KindType, RendezFacts DEF DeathInv, WakeInFlight, WalkOwes, Goto, CondHolds, procVars, wakerVars
<1>8. LatchInv'  BY Zenon, PcType, KindType, RendezFacts DEF LatchInv, WakeInFlight, WalkOwes, Goto, CondHolds, procVars, wakerVars
<1>9. ParkInv'  BY ZenonT(40) DEF TypeOK, ParkInv, StopRequested, StopOwned, WakeInFlight, WalkOwes, Goto,
        CondHolds, lockVars, procVars, wakerVars
<1>10. DeadlineInv'  BY Zenon, PcType, KindType, RendezFacts DEF DeadlineInv, InCall, SleepPCs, Goto, CondHolds
<1>11. WakerInv' /\ SpinInv' /\ TickInv' /\ WaiterInv' /\ TimerListExact' /\ StopInv'  BY Zenon,
        WakerFrame, SpinFrame, TickFrame, WaiterFrame, TimerListFrame, StopInvFrame DEF Goto,
        CondHolds, lockVars, procVars, wakerVars
<1> QED BY Zenon, <1>1, <1>2, <1>3, <1>4, <1>5, <1>6, <1>7, <1>8, <1>9, <1>10, <1>11 DEF Structure,
        Delivery

\* A thread asking for its whole group to exit.
LEMMA ExitGroupStep ==
    ASSUME IInv, NEW t \in Threads, pc[t] = "notes", ExitGroup(t)
    PROVE  (Structure /\ Delivery)'
<1> /\ TypeOK /\ WaitLockInv /\ TimerLockInv /\ RendezLockInv /\ WakerInv /\ SpinInv /\ TickInv
    /\ ThreadInv /\ BackInv /\ WaiterInv /\ TimerListExact /\ WakeupInv /\ DeathInv /\ LatchInv
    /\ StopInv /\ ParkInv /\ DeadlineInv
  BY Zenon DEF IInv, Structure, Delivery
<1>1. WaitLockInv'  BY DEF WaitLockInv, HoldsWait, ExitGroup, BeginWalk, NoWalk, lockVars
<1>2. TimerLockInv'  BY Zenon, PcType, KindType, RendezFacts DEF TimerLockInv, HoldsTimer, Timed, ExitGroup, lockVars
<1>3. RendezLockInv'  BY DEF RendezLockInv, HoldsRendez, Cur, ExitGroup, lockVars
<1>4. WakerInv'  BY Zenon DEF WakerInv, ExitGroup, BeginWalk, NoWalk
<1>5. ThreadInv'  BY Zenon, PcType, KindType, RendezFacts DEF ThreadInv, SleepPCs, ExitGroup
<1>6. BackInv'  BY Zenon, PcType, KindType, RendezFacts DEF BackInv, Cur, ExitGroup
<1>7. WakeupInv'  BY Zenon, PcType, KindType, RendezFacts DEF WakeupInv, WakeInFlight, ExitGroup
<1>8. DeathInv'  BY Zenon DEF DeathInv, WalkOwes, ExitGroup, BeginWalk
<1>9. LatchInv'  BY Zenon, PcType, KindType, RendezFacts DEF LatchInv, WakeInFlight, WalkOwes, ExitGroup, BeginWalk, NoWalk
<1>10. StopInv'  BY Zenon DEF StopInv, StopRequested, WalkOwes, ExitGroup, BeginWalk, NoWalk
<1>11. ParkInv'  BY Zenon DEF ParkInv, WalkOwes, ExitGroup, BeginWalk, NoWalk
<1>12. DeadlineInv'  BY Zenon, PcType, KindType, RendezFacts DEF DeadlineInv, InCall, SleepPCs, ExitGroup
<1>13. SpinInv' /\ TickInv' /\ WaiterInv' /\ TimerListExact'  BY Zenon, SpinFrame, TickFrame, WaiterFrame,
        TimerListFrame DEF ExitGroup, BeginWalk, NoWalk, lockVars
<1> QED BY Zenon, <1>1, <1>2, <1>3, <1>4, <1>5, <1>6, <1>7, <1>8, <1>9, <1>10, <1>11, <1>12, <1>13 DEF
        Structure, Delivery

\* A thread entering the next blocking call.
LEMMA SyscallStep ==
    ASSUME IInv, NEW t \in Threads, Syscall(t)
    PROVE  (Structure /\ Delivery)'
<1> /\ TypeOK /\ WaitLockInv /\ TimerLockInv /\ RendezLockInv /\ WakerInv /\ SpinInv /\ TickInv
    /\ ThreadInv /\ BackInv /\ WaiterInv /\ TimerListExact /\ WakeupInv /\ DeathInv /\ LatchInv
    /\ StopInv /\ ParkInv /\ DeadlineInv
  BY Zenon DEF IInv, Structure, Delivery
<1>1. WaitLockInv'  BY DEF WaitLockInv, HoldsWait, Syscall, lockVars, wakerVars
<1>2. TimerLockInv'  BY Zenon, PcType, KindType, RendezFacts DEF TimerLockInv, HoldsTimer, Timed, Syscall, lockVars, wakerVars
<1>3. RendezLockInv'  BY DEF RendezLockInv, HoldsRendez, Cur, Syscall, lockVars, wakerVars
<1>4. ThreadInv'  BY Zenon, KindType, PcType, RendezFacts DEF ThreadInv, Syscall
<1>5. BackInv'  BY Zenon, PcType, KindType, RendezFacts DEF BackInv, Cur, Syscall
<1>6. WaiterInv'  BY Zenon, PcType, KindType, RendezFacts DEF WaiterInv, WakerInv, ThreadInv, Cur, Syscall
<1>7. WakeupInv'
  <2>1. state[t] = "RUNNING" /\ pc'[t] # "stopcheck"  BY Zenon, PcType, KindType, RendezFacts DEF ThreadInv, Syscall, SleepPCs, TailPCs
  <2>2. waiter[WaitOf(t)] # t  BY <2>1, RendezFacts DEF WaiterInv, WaitOf
  <2>3. UNCHANGED <<waiter, wrendez, cond>>  BY Zenon DEF Syscall, wakerVars
  <2>4. \A u \in Threads : u # t => kind'[u] = kind[u] /\ pc'[u] = pc[u]  BY Zenon, PcType, KindType, RendezFacts DEF Syscall
  <2> QED BY ZenonT(40), <2>1, <2>2, <2>3, <2>4, PcType, StateType, KindType DEF WakeupInv, WakeInFlight, SleepPCs, TailPCs
<1>8. DeathInv'  BY Zenon, PcType, KindType, RendezFacts DEF DeathInv, WakeInFlight, WalkOwes, Syscall, procVars, wakerVars
<1>9. LatchInv'  BY Zenon, PcType, KindType, RendezFacts DEF LatchInv, WakeInFlight, WalkOwes, Syscall, procVars, wakerVars
<1>10. ParkInv'
  <2>1. StopRequested' <=> StopRequested BY Zenon, StopFrame DEF Syscall, procVars
  <2>2. UNCHANGED <<walk, wrendez, waiter>> BY Zenon DEF Syscall, wakerVars
  <2>3. \A u \in Threads : kind'[u] = "debug" => kind[u] = "debug" /\ pc'[u] = pc[u] BY Zenon, KindType, PcType, RendezFacts DEF Syscall
  <2> QED BY ZenonT(30), <2>1, <2>2, <2>3, OwedStill, ParkKept
<1>11. DeadlineInv'  BY Zenon, TimedoutType, PcType, KindType, RendezFacts DEF DeadlineInv, InCall, Syscall
<1>12. WakerInv' /\ SpinInv' /\ TickInv' /\ TimerListExact' /\ StopInv'  BY Zenon, WakerFrame, SpinFrame,
        TickFrame, TimerListFrame, StopInvFrame DEF Syscall, lockVars, procVars, wakerVars
<1> QED BY ZenonT(40), <1>1, <1>2, <1>3, <1>4, <1>5, <1>6, <1>7, <1>8, <1>9, <1>10, <1>11, <1>12 DEF Structure,
        Delivery

\* The tail reaching user mode.
LEMMA ToEL0Step ==
    ASSUME IInv, NEW t \in Threads, pc[t] = "notes", ToEL0(t)
    PROVE  (Structure /\ Delivery)'
<1> /\ TypeOK /\ WaitLockInv /\ TimerLockInv /\ RendezLockInv /\ WakerInv /\ SpinInv /\ TickInv
    /\ ThreadInv /\ BackInv /\ WaiterInv /\ TimerListExact /\ WakeupInv /\ DeathInv /\ LatchInv
    /\ StopInv /\ ParkInv /\ DeadlineInv
  BY Zenon DEF IInv, Structure, Delivery
<1>1. WaitLockInv'  BY DEF WaitLockInv, HoldsWait, ToEL0, lockVars, wakerVars
<1>2. TimerLockInv'  BY Zenon, PcType, KindType, RendezFacts DEF TimerLockInv, HoldsTimer, Timed, ToEL0, lockVars, wakerVars
<1>3. RendezLockInv'  BY DEF RendezLockInv, HoldsRendez, Cur, ToEL0, lockVars, wakerVars
<1>4. TickInv'  BY DEF TickInv, ThreadInv, ToEL0, wakerVars
<1>5. ThreadInv'  BY Zenon, PcType, KindType, RendezFacts DEF ThreadInv, SleepPCs, ToEL0
<1>6. BackInv'  BY Zenon, PcType, KindType, RendezFacts DEF BackInv, Cur, ToEL0
<1>7. WakeupInv'  BY Zenon, PcType, KindType, RendezFacts DEF WakeupInv, WakeInFlight, ToEL0, wakerVars
<1>8. DeathInv'  BY Zenon, PcType, KindType, RendezFacts DEF DeathInv, WakeInFlight, WalkOwes, ToEL0, procVars, wakerVars
<1>9. LatchInv'  BY Zenon, PcType, KindType, RendezFacts DEF LatchInv, WakeInFlight, WalkOwes, ToEL0, procVars, wakerVars
<1>10. ParkInv'
  <2>1. StopRequested' <=> StopRequested BY Zenon, StopFrame DEF ToEL0, procVars
  <2>2. UNCHANGED <<walk, wrendez, waiter, kind>> BY Zenon DEF ToEL0, wakerVars
  <2>3. \A u \in Threads : pc'[u] = "stopcheck" => pc[u] = "stopcheck" BY Zenon, PcType, KindType, RendezFacts DEF ToEL0
  <2> QED BY ZenonT(30), <2>1, <2>2, <2>3, OwedStill, ParkKept
<1>11. DeadlineInv'  BY RcType DEF DeadlineInv, InCall, SleepPCs, ToEL0
<1>12. WakerInv' /\ SpinInv' /\ WaiterInv' /\ TimerListExact' /\ StopInv'  BY Zenon, WakerFrame, SpinFrame,
        WaiterFrame, TimerListFrame, StopInvFrame DEF ToEL0, lockVars, procVars, wakerVars
<1> QED BY Zenon, <1>1, <1>2, <1>3, <1>4, <1>5, <1>6, <1>7, <1>8, <1>9, <1>10, <1>11, <1>12 DEF Structure,
        Delivery

\* A deadline passing.
LEMMA ExpireStep ==
    ASSUME IInv, NEW t \in Threads, Expire(t)
    PROVE  (Structure /\ Delivery)'
<1> /\ TypeOK /\ WaitLockInv /\ TimerLockInv /\ RendezLockInv /\ WakerInv /\ SpinInv /\ TickInv
    /\ ThreadInv /\ BackInv /\ WaiterInv /\ TimerListExact /\ WakeupInv /\ DeathInv /\ LatchInv
    /\ StopInv /\ ParkInv /\ DeadlineInv
  BY Zenon DEF IInv, Structure, Delivery
<1>1. TickInv'  BY DEF TickInv, Expire, wakerVars
<1>2. DeadlineInv'  BY DEF DeadlineInv, InCall, Expire
<1>3. WaitLockInv' /\ TimerLockInv' /\ RendezLockInv' /\ WakerInv' /\ SpinInv' /\ ThreadInv' /\ BackInv'
  BY Zenon, WaitLockFrame, TimerLockFrame, RendezLockFrame, WakerFrame, SpinFrame, ThreadFrame, BackFrame
  DEF Expire, lockVars, procVars, wakerVars
<1>4. WaiterInv' /\ TimerListExact' /\ WakeupInv' /\ DeathInv' /\ LatchInv' /\ StopInv' /\ ParkInv'
  BY Zenon, WaiterFrame, TimerListFrame, WakeupFrame, DeathFrame, LatchFrame, StopInvFrame, ParkFrame
  DEF Expire, lockVars, procVars, wakerVars
<1> QED BY Zenon, <1>1, <1>2, <1>3, <1>4 DEF Structure, Delivery

\* The terminate latch being taken back.
LEMMA RevokeLatchStep ==
    ASSUME IInv, NEW t \in Threads, RevokeLatch(t)
    PROVE  (Structure /\ Delivery)'
<1> /\ TypeOK /\ WaitLockInv /\ TimerLockInv /\ RendezLockInv /\ WakerInv /\ SpinInv /\ TickInv
    /\ ThreadInv /\ BackInv /\ WaiterInv /\ TimerListExact /\ WakeupInv /\ DeathInv /\ LatchInv
    /\ StopInv /\ ParkInv /\ DeadlineInv
  BY Zenon DEF IInv, Structure, Delivery
<1>1. LatchInv'  BY Zenon DEF LatchInv, RevokeLatch
<1>2. WaitLockInv' /\ TimerLockInv' /\ RendezLockInv' /\ WakerInv' /\ SpinInv' /\ TickInv'
  BY Zenon, WaitLockFrame, TimerLockFrame, RendezLockFrame, WakerFrame, SpinFrame, TickFrame
  DEF RevokeLatch, threadVars, lockVars, wakerVars
<1>3. ThreadInv' /\ BackInv' /\ WaiterInv' /\ TimerListExact' /\ WakeupInv'
  BY Zenon, ThreadFrame, BackFrame, WaiterFrame, TimerListFrame, WakeupFrame
  DEF RevokeLatch, threadVars, lockVars, wakerVars
<1>4. DeathInv' /\ StopInv' /\ ParkInv' /\ DeadlineInv'
  BY Zenon, DeathFrame, StopInvFrame, ParkFrame, DeadlineFrame
  DEF RevokeLatch, threadVars, lockVars, wakerVars
<1> QED BY Zenon, <1>1, <1>2, <1>3, <1>4 DEF Structure, Delivery

=============================================================================
