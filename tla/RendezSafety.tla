--------------------------- MODULE RendezSafety ----------------------------
(***************************************************************************)
(* The steps of whoever wakes a thread keep the invariant of RendezInv:    *)
(* wakeup(), the timer scan and the walks over a Proc's threads, laid out as *)
(* those of a thread in RendezProofs.  With them the invariant is inductive, *)
(* and the safety properties of Rendez follow from it, for any number of   *)
(* threads, producers and walks.                                           *)
(***************************************************************************)
EXTENDS RendezProofs

(* wakeup()                                                                *)

\* A producer making the condition true before its wakeup().
LEMMA ProduceStep ==
    ASSUME IInv, NEW t \in Threads, NEW w \in Wakers, Produce(w, t)
    PROVE  (Structure /\ Delivery)'
<1> /\ TypeOK /\ WaitLockInv /\ TimerLockInv /\ RendezLockInv /\ WakerInv /\ SpinInv /\ TickInv
    /\ ThreadInv /\ BackInv /\ WaiterInv /\ TimerListExact /\ WakeupInv /\ DeathInv /\ LatchInv
    /\ StopInv /\ ParkInv /\ DeadlineInv
  BY Zenon DEF IInv, Structure, Delivery
<1>1. TimerLockInv'  BY Zenon, PcType, WpcType, RendezFacts DEF TimerLockInv, Timed, Produce, lockVars
<1>2. RendezLockInv'  BY DEF RendezLockInv, Cur, Produce, lockVars
<1>3. WakerInv'  BY WakerFacts, RendezFacts, WpcType, WrendezType DEF WakerInv, WaitOf, Produce
<1>4. SpinInv'  BY Zenon, WpcType, WrendezType, WakerFacts, RendezFacts DEF SpinInv, Produce
<1>5. TickInv'  BY Zenon, WpcType, WrendezType, WakerFacts, RendezFacts DEF TickInv, Produce
<1>6. TimerListExact'  BY Zenon, WpcType, WrendezType, WakerFacts, RendezFacts DEF TimerListExact, Produce
<1>7. WakeupInv'  BY RendezFacts, WrendezType DEF WakeupInv, WakerInv, WakeInFlight, WaitOf, Produce
<1>8. DeathInv'  BY RendezFacts DEF DeathInv, WakerInv, WakeInFlight, WalkOwes, Produce, procVars
<1>9. LatchInv'  BY RendezFacts DEF LatchInv, WakerInv, WakeInFlight, WalkOwes, WaitOf, Produce,
        procVars
<1>10. StopInv' /\ ParkInv'
  <2>1. UNCHANGED <<walk, group_exit, stops, kind, pc, waiter>> BY Zenon DEF Produce, procVars
  <2>2. wrendez[w] = None BY Zenon DEF WakerInv, Produce
  <2>3. \A v \in Wakers : v # w => wrendez'[v] = wrendez[v] BY Zenon, WpcType, WrendezType, WakerFacts, RendezFacts DEF Produce
  <2> QED BY Zenon, <2>1, <2>2, <2>3, RendezFacts, WakerKeeps
<1>11. WaitLockInv' /\ ThreadInv' /\ BackInv' /\ WaiterInv' /\ DeadlineInv'  BY Zenon, WaitLockFrame,
        ThreadFrame, BackFrame, WaiterFrame, DeadlineFrame DEF Produce, lockVars, procVars
<1> QED BY Zenon, <1>1, <1>2, <1>3, <1>4, <1>5, <1>6, <1>7, <1>8, <1>9, <1>10, <1>11 DEF Structure,
        Delivery

\* wakeup() taking the timer-wait lock.
LEMMA WakeLockTimerStep ==
    ASSUME IInv, NEW w \in Wakers, WakeLockTimer(w)
    PROVE  (Structure /\ Delivery)'
<1> /\ TypeOK /\ WaitLockInv /\ TimerLockInv /\ RendezLockInv /\ WakerInv /\ SpinInv /\ TickInv
    /\ ThreadInv /\ BackInv /\ WaiterInv /\ TimerListExact /\ WakeupInv /\ DeathInv /\ LatchInv
    /\ StopInv /\ ParkInv /\ DeadlineInv
  BY Zenon DEF IInv, Structure, Delivery
<1>1. TimerLockInv'  BY Zenon, WakerFacts, WpcType DEF TimerLockInv, Timed, WakeLockTimer, threadVars
<1>2. RendezLockInv'  BY DEF RendezLockInv, Cur, WakeLockTimer, threadVars
<1>3. WakerInv'  BY Zenon, WpcType, WrendezType, WakerFacts, RendezFacts DEF WakerInv, WakeLockTimer
<1>4. SpinInv'  BY Zenon, PcType, WpcType, RendezFacts DEF SpinInv, WakeLockTimer
<1>5. TickInv'  BY Zenon, WpcType, WrendezType, WakerFacts, RendezFacts DEF TickInv, WakeLockTimer, threadVars
<1>6. TimerListExact'  BY Zenon, PcType, WpcType, RendezFacts DEF TimerListExact, WakeLockTimer
<1>7. WaitLockInv' /\ ThreadInv' /\ BackInv' /\ WaiterInv' /\ WakeupInv' /\ DeathInv' /\ LatchInv'
        /\ StopInv' /\ ParkInv' /\ DeadlineInv'  BY Zenon, WaitLockFrame, ThreadFrame, BackFrame,
        WaiterFrame, WakeupFrame, DeathFrame, LatchFrame, StopInvFrame, ParkFrame, DeadlineFrame DEF
        WakeLockTimer, threadVars, procVars
<1> QED BY Zenon, <1>1, <1>2, <1>3, <1>4, <1>5, <1>6, <1>7 DEF Structure, Delivery

\* wakeup() taking the waiter off the Rendez and off the timer list.
LEMMA WakeLookupStep ==
    ASSUME IInv, NEW w \in Wakers, WakeLookup(w)
    PROVE  (Structure /\ Delivery)'
<1> /\ TypeOK /\ WaitLockInv /\ TimerLockInv /\ RendezLockInv /\ WakerInv /\ SpinInv /\ TickInv
    /\ ThreadInv /\ BackInv /\ WaiterInv /\ TimerListExact /\ WakeupInv /\ DeathInv /\ LatchInv
    /\ StopInv /\ ParkInv /\ DeadlineInv
  BY Zenon DEF IInv, Structure, Delivery
<1>1. TimerLockInv'  BY WakerFacts, WpcType DEF TimerLockInv, TickInv, Timed, WakeLookup,
        AfterWakeup, threadVars
<1>2. RendezLockInv'
  <2> DEFINE r == wrendez[w]
  <2>1. /\ wpc[w] = "wrendez" /\ r_lock[r] = None /\ UNCHANGED <<pc, kind>>
    BY Zenon DEF WakeLookup, threadVars
  <2>2. r \in Rendezs  BY Zenon, <2>1, WrendezType DEF WakerInv
  <2>3. CASE waiter[r] = None
    <3>1. r_lock' = r_lock /\ wpc' = [wpc EXCEPT ![w] = AfterWakeup(w)] /\ wrendez' = [wrendez EXCEPT ![w] = None]
      BY Zenon, <2>3 DEF WakeLookup
    <3>2. AfterWakeup(w) # "wspin"  BY Zenon DEF AfterWakeup
    <3> QED BY <2>1, <3>1, <3>2 DEF RendezLockInv, Cur
  <2>4. CASE waiter[r] # None
    <3>1. r_lock' = [r_lock EXCEPT ![r] = w] /\ wpc' = [wpc EXCEPT ![w] = "wspin"] /\ wrendez' = wrendez
      BY Zenon, <2>4 DEF WakeLookup
    <3>2. Owner(r) \in Threads /\ Owner(r) # w /\ None \notin Threads /\ None \notin Wakers  BY Zenon,
        <2>2, WakerFacts, RendezFacts
    <3> HIDE DEF r
    <3>3. r = wrendez[w]  BY Zenon DEF r
    <3>4. \A q \in Rendezs : r_lock'[q] = IF q = r THEN w ELSE r_lock[q]  BY Zenon, <3>1, ExpiredType,
        RLockType
    <3>5. \A v \in Wakers : wpc'[v] = IF v = w THEN "wspin" ELSE wpc[v]  BY Zenon, <3>1, WpcType
    <3>6. \A q \in Rendezs : /\ r_lock'[q] = Owner(q) <=> Cur(Owner(q))' = q /\ pc'[Owner(q)] \in HoldsRendez
                             /\ r_lock'[q] \in {Owner(q), None} \cup Wakers
      BY <2>1, <2>2, <3>2, <3>4 DEF RendezLockInv, Cur
    <3>7. \A v \in Wakers, q \in Rendezs : r_lock'[q] = v <=> wpc'[v] = "wspin" /\ wrendez'[v] = q
      BY <2>1, <2>2, <3>1, <3>2, <3>3, <3>4, <3>5 DEF RendezLockInv
    <3> QED BY Zenon, <3>6, <3>7 DEF RendezLockInv
  <2> QED BY Zenon, <2>3, <2>4
<1>3. WakerInv'  BY WakerFacts, WpcType, WrendezType DEF WakerInv, WakeLookup, AfterWakeup
<1>4. SpinInv'  BY WpcType, WrendezType DEF SpinInv, WakerInv, WaiterInv, WakeLookup, AfterWakeup,
        threadVars
<1>5. TickInv'  BY WakerFacts, WpcType DEF TickInv, TimerLockInv, WakerInv, WakeLookup
<1>6. TimerListExact'
  <2> DEFINE r == wrendez[w]
             o == Owner(r)
  <2>1. r \in Rendezs /\ wpc[w] = "wrendez" /\ UNCHANGED waiter  BY Zenon, WrendezType DEF WakerInv,
        WakeLookup
  <2>2. \A v \in Wakers : v # w => wpc'[v] = wpc[v] /\ wrendez'[v] = wrendez[v]  BY Zenon, WpcType,
        WrendezType DEF WakeLookup
  <2>3. CASE waiter[r] = None
    <3>1. timerwait' = timerwait  BY Zenon, <2>3 DEF WakeLookup
    <3>2. wpc'[w] # "wspin"  BY Zenon, <2>3, WpcType DEF WakeLookup, AfterWakeup
    <3> QED BY <2>1, <2>2, <3>1, <3>2 DEF TimerListExact
  <2>4. CASE waiter[r] # None
    <3>1. waiter[r] = o /\ o \in Threads  BY Zenon, <2>1, <2>4, RendezFacts DEF WaiterInv
    <3>2. timerwait' = timerwait \ {o}  BY Zenon, <2>4, <3>1 DEF WakeLookup
    <3>3. wpc'[w] = "wspin" /\ wrendez'[w] = r  BY Zenon, <2>4, WpcType DEF WakeLookup
    <3>4. waiter[WaitOf(o)] = o => r = WaitOf(o)
      <4>1. WaitOf(o) \in Rendezs /\ Owner(WaitOf(o)) = o  BY Zenon, <3>1, RendezFacts DEF WaitOf
      <4> QED BY Zenon, <2>1, <3>1, <4>1 DEF WaiterInv
    <3>5. \A u \in Threads : u # o => r # WaitOf(u)  BY Zenon, RendezFacts DEF WaitOf
    <3> HIDE DEF r, o
    <3> QED BY <2>1, <2>2, <3>2, <3>3, <3>4, <3>5 DEF TimerListExact
  <2> QED BY Zenon, <2>3, <2>4
<1>7. WakeupInv'  BY WakerFacts, RendezFacts, WrendezType DEF WakeupInv, RendezLockInv, HoldsRendez,
        WakeInFlight, Cur, WaitOf, WakeLookup, threadVars
<1>8. DeathInv'  BY Zenon, WakerFacts, WrendezType, WpcType, RendezFacts DEF DeathInv, WakeInFlight, WalkOwes, WakeLookup, threadVars, procVars
<1>9. LatchInv'  BY Zenon, WakerFacts, WrendezType DEF LatchInv, WakeInFlight, WalkOwes, WakeLookup,
        threadVars, procVars
<1>10. StopInv' /\ ParkInv'
  <2>1. UNCHANGED <<walk, group_exit, stops, kind, pc, waiter>> BY Zenon DEF WakeLookup, procVars, threadVars
  <2>2. (waiter[wrendez[w]] = None /\ r_lock[wrendez[w]] = None) \/ wrendez' = wrendez  BY Zenon DEF WakeLookup
  <2>3. \A v \in Wakers : v # w => wrendez'[v] = wrendez[v] BY Zenon, WrendezType DEF WakeLookup
  <2> QED BY <2>1, <2>2, <2>3, RendezFacts, WakerFacts, WakerKeeps
<1>11. WaitLockInv' /\ ThreadInv' /\ BackInv' /\ WaiterInv' /\ DeadlineInv'  BY Zenon, WaitLockFrame,
        ThreadFrame, BackFrame, WaiterFrame, DeadlineFrame DEF WakeLookup, AfterWakeup, threadVars,
        procVars
<1> QED BY Zenon, <1>1, <1>2, <1>3, <1>4, <1>5, <1>6, <1>7, <1>8, <1>9, <1>10, <1>11 DEF Structure,
        Delivery

\* wakeup() readying the thread once it has left its CPU.
LEMMA WakeReadyStep ==
    ASSUME IInv, NEW w \in Wakers, WakeReady(w)
    PROVE  (Structure /\ Delivery)'
<1> /\ TypeOK /\ WaitLockInv /\ TimerLockInv /\ RendezLockInv /\ WakerInv /\ SpinInv /\ TickInv
    /\ ThreadInv /\ BackInv /\ WaiterInv /\ TimerListExact /\ WakeupInv /\ DeathInv /\ LatchInv
    /\ StopInv /\ ParkInv /\ DeadlineInv
  BY Zenon DEF IInv, Structure, Delivery
<1>0. /\ wpc[w] = "wspin" /\ wrendez[w] \in Rendezs
      /\ r_lock[wrendez[w]] = w /\ waiter[wrendez[w]] = Owner(wrendez[w])
  BY WrendezType DEF WakerInv, RendezLockInv, SpinInv, WakeReady
<1>1. TimerLockInv'
  <2>1. /\ UNCHANGED <<timer_lock, pc, kind>> /\ wpc'[w] \in {"idle", "unlock"}
        /\ \A v \in Wakers : v # w => wpc'[v] = wpc[v]
    BY Zenon, WpcType DEF WakeReady, AfterWakeup
  <2> QED BY Zenon, <1>0, <2>1 DEF TimerLockInv, Timed
<1>2. RendezLockInv'
  <2>1. UNCHANGED <<pc, kind>> /\ \A u \in Threads : Cur(u)' = Cur(u)  BY Zenon DEF WakeReady, Cur
  <2>2. /\ wrendez'[w] = None
        /\ \A v \in Wakers : v # w => wpc'[v] = wpc[v] /\ wrendez'[v] = wrendez[v]
    BY Zenon, WrendezType, PcType, WpcType, RendezFacts DEF WakeReady
  <2>3. /\ r_lock'[wrendez[w]] = None
        /\ \A r \in Rendezs : r # wrendez[w] => r_lock'[r] = r_lock[r]
    BY Zenon, <1>0, RLockType DEF WakeReady
  <2> QED BY <1>0, <2>1, <2>2, <2>3, WakerFacts, RendezFacts DEF RendezLockInv
<1>3. WakerInv'  BY Zenon, WpcType, WrendezType, WakerFacts, RendezFacts DEF WakerInv, WakeReady, AfterWakeup
<1>4. SpinInv'  BY WaiterType, WpcType DEF SpinInv, RendezLockInv, WakeReady, WakeWaiter,
        AfterWakeup
<1>5. TickInv'  BY Zenon, WpcType, WrendezType, WakerFacts, RendezFacts DEF TickInv, WakeReady, AfterWakeup
<1>6. ThreadInv'  BY SMTT(20) DEF ThreadInv, WakeReady, WakeWaiter
<1>7. WaiterInv'  BY WakerFacts, StateType, WaiterType, WrendezType DEF WaiterInv, WakerInv, Cur,
        WakeReady, WakeWaiter
<1>8. TimerListExact'  BY WakerFacts, RendezFacts, WaiterType DEF TimerListExact, WaitOf, WakeReady,
        WakeWaiter
<1>9. WakeupInv'
  <2>1. \A t \in Threads : WaitOf(t) \in Rendezs /\ Owner(WaitOf(t)) = t  BY Zenon, RendezFacts DEF WaitOf
  <2>2. \A t \in Threads : pc[t] = "stopcheck" => wrendez[w] # WaitOf(t)
    BY <1>0, <2>1 DEF WaiterInv, ThreadInv
  <2>3. UNCHANGED <<cond, kind, pc>> /\ \A v \in Wakers : v # w => wrendez'[v] = wrendez[v]  BY Zenon, WpcType, WrendezType, WakerFacts, RendezFacts DEF WakeReady
  <2>4. \A t \in Threads : waiter'[WaitOf(t)] = t => waiter[WaitOf(t)] = t /\ wrendez[w] # WaitOf(t)
    BY Zenon, <1>0, <2>1, WaiterType, WakerFacts DEF WakeReady, WakeWaiter
  <2> QED BY <2>2, <2>3, <2>4 DEF WakeupInv, WakeInFlight
<1>10. DeathInv'  BY Zenon, WakerFacts, WaiterType, WrendezType, PcType, WpcType, RendezFacts DEF DeathInv, WakeInFlight, WalkOwes, WakeReady, WakeWaiter, procVars
<1>11. LatchInv'  BY WakerFacts, WaiterType, WrendezType DEF LatchInv, WakeInFlight, WalkOwes,
        WakeReady, WakeWaiter, procVars
<1>12. StopInv' /\ ParkInv'
  <2>1. UNCHANGED <<walk, group_exit, stops, kind, pc>> BY Zenon DEF WakeReady, procVars, threadVars
  <2>2. wrendez[w] \in Rendezs BY Zenon, WrendezType DEF WakerInv, WakeReady
  <2>3. \A v \in Wakers : v # w => wrendez'[v] = wrendez[v] BY Zenon, WpcType, WrendezType, WakerFacts, RendezFacts DEF WakeReady
  <2>4. waiter' = [waiter EXCEPT ![wrendez[w]] = None]  BY Zenon DEF WakeReady, WakeWaiter
  <2>5. r_lock[wrendez[w]] = w  BY Zenon, <2>2 DEF WakeReady, RendezLockInv
  <2>6. \A r \in Rendezs : waiter'[r] = Owner(r) => waiter[r] = Owner(r) /\ r # wrendez[w]
      BY Zenon, <2>2, <2>4, RendezFacts, WakerFacts, WaiterType
  <2> QED BY SMTT(20), <2>1, <2>3, <2>5, <2>6, RendezFacts, WakerFacts, WakerKeeps
<1>13. DeadlineInv'  BY SMTT(20) DEF DeadlineInv, InCall, WakeReady, WakeWaiter
<1>14. WaitLockInv' /\ BackInv'  BY Zenon, WaitLockFrame, BackFrame DEF WakeReady, WakeWaiter, AfterWakeup,
        procVars
<1> QED BY Zenon, <1>1, <1>2, <1>3, <1>4, <1>5, <1>6, <1>7, <1>8, <1>9, <1>10, <1>11, <1>12, <1>13, <1>14
        DEF Structure, Delivery

-----------------------------------------------------------------------------
(* The timer scan and the walks                                            *)

\* The timer scan picking an expired sleeper.
LEMMA TickFindStep ==
    ASSUME IInv, TickFind
    PROVE  (Structure /\ Delivery)'
<1> /\ TypeOK /\ WaitLockInv /\ TimerLockInv /\ RendezLockInv /\ WakerInv /\ SpinInv /\ TickInv
    /\ ThreadInv /\ BackInv /\ WaiterInv /\ TimerListExact /\ WakeupInv /\ DeathInv /\ LatchInv
    /\ StopInv /\ ParkInv /\ DeadlineInv
  BY Zenon DEF IInv, Structure, Delivery
<1>1. TimerLockInv'  BY Zenon, WakerFacts, WpcType DEF TimerLockInv, Timed, TickFind, threadVars
<1>2. RendezLockInv'  BY SMTT(20) DEF RendezLockInv, Cur, TickFind, threadVars
<1>3. WakerInv'  BY WakerFacts, RendezFacts, KindType, WaitLockType, TimerwaitType, WpcType,
        WrendezType DEF WakerInv, BackInv, ThreadInv, Cur, TickFind
<1>4. SpinInv'  BY Zenon, WpcType, WrendezType, WakerFacts, RendezFacts DEF SpinInv, TickFind
<1>5. TickInv'  BY RendezFacts, TimerwaitType, WpcType, WrendezType DEF TickInv, BackInv, ThreadInv,
        WaiterInv, TimerListExact, WaitOf, TickFind, threadVars
<1>6. TimerListExact'  BY DEF TimerListExact, TickFind
<1>7. WakeupInv'  BY RendezFacts DEF WakeupInv, WakerInv, WakeInFlight, WaitOf, TickFind, threadVars
<1>8. DeathInv'  BY RendezFacts DEF DeathInv, WakerInv, WakeInFlight, WalkOwes, TickFind,
        threadVars, procVars
<1>9. LatchInv'  BY RendezFacts DEF LatchInv, WakerInv, WakeInFlight, WalkOwes, WaitOf, TickFind,
        threadVars, procVars
<1>10. StopInv' /\ ParkInv'
  <2>1. UNCHANGED <<walk, group_exit, stops, kind, pc, waiter>> BY Zenon DEF TickFind, procVars, threadVars
  <2>2. wrendez[Ticker] = None BY Zenon, WakerFacts DEF WakerInv, TickFind
  <2>3. \A v \in Wakers : v # Ticker => wrendez'[v] = wrendez[v] BY Zenon, WpcType, WrendezType, WakerFacts, RendezFacts DEF TickFind
  <2> QED BY Zenon, <2>1, <2>2, <2>3, RendezFacts, WakerKeeps
<1>11. WaitLockInv' /\ ThreadInv' /\ BackInv' /\ WaiterInv' /\ DeadlineInv'  BY Zenon, WaitLockFrame,
        ThreadFrame, BackFrame, WaiterFrame, DeadlineFrame DEF TickFind, threadVars, procVars
<1> QED BY Zenon, <1>1, <1>2, <1>3, <1>4, <1>5, <1>6, <1>7, <1>8, <1>9, <1>10, <1>11 DEF Structure,
        Delivery

\* The timer scan waking the sleeper it picked.
LEMMA TickWakeStep ==
    ASSUME IInv, TickWake
    PROVE  (Structure /\ Delivery)'
<1> /\ TypeOK /\ WaitLockInv /\ TimerLockInv /\ RendezLockInv /\ WakerInv /\ SpinInv /\ TickInv
    /\ ThreadInv /\ BackInv /\ WaiterInv /\ TimerListExact /\ WakeupInv /\ DeathInv /\ LatchInv
    /\ StopInv /\ ParkInv /\ DeadlineInv
  BY Zenon DEF IInv, Structure, Delivery
<1>1. TimerLockInv'  BY Zenon, WakerFacts, WpcType DEF TimerLockInv, Timed, TickWake
<1>2. RendezLockInv'  BY DEF RendezLockInv, Cur, TickWake
<1>3. WakerInv'  BY Zenon, WakerFacts, WpcType, WrendezType DEF WakerInv, TickWake
<1>4. SpinInv'
  <2>1. wpc'[Ticker] = "idle" /\ \A v \in Wakers : v # Ticker => wpc'[v] = wpc[v] /\ wrendez'[v] = wrendez[v]
    BY Zenon, WakerFacts, WpcType, WrendezType, RendezFacts DEF TickWake
  <2>2. wrendez[Ticker] \in Rendezs BY Zenon, WakerFacts, WrendezType DEF WakerInv, TickWake
  <2>3. \A r \in Rendezs : r # wrendez[Ticker] => waiter'[r] = waiter[r]
    <3>1. waiter' = [waiter EXCEPT ![wrendez[Ticker]] = None] \/ waiter' = waiter
      BY Zenon DEF TickWake, WakeWaiter
    <3> QED BY Zenon, <3>1, WaiterType
  <2>4. r_lock[wrendez[Ticker]] = None  BY Zenon DEF TickWake
  <2>5. \A v \in Wakers : wpc[v] = "wspin" => wrendez[v] \in Rendezs /\ r_lock[wrendez[v]] = v
    BY WrendezType DEF WakerInv, RendezLockInv
  <2> QED BY SMTT(20), <2>1, <2>2, <2>3, <2>4, <2>5, WakerFacts DEF SpinInv
<1>5. TickInv'  BY Zenon, WakerFacts, WpcType DEF TickInv, TickWake
<1>6. ThreadInv'  BY StateType DEF ThreadInv, TickWake, WakeWaiter
<1>7. WaiterInv'  BY WakerFacts, RendezFacts, StateType, WaiterType, WrendezType DEF WaiterInv,
        WakerInv, Cur, TickWake, WakeWaiter
<1>8. TimerListExact'  BY WakerFacts, RendezFacts, RcType, WaiterType, TimerwaitType DEF
        TimerListExact, WaiterInv, TickInv, WaitOf, TickWake, WakeWaiter
<1>9. WakeupInv'  BY WakerFacts, RendezFacts, WaiterType, TimerwaitType DEF WakeupInv, TickInv,
        WaiterInv, ThreadInv, WakeInFlight, WaitOf, TickWake, WakeWaiter
<1>10. DeathInv'  BY WakerFacts, RendezFacts, WaiterType DEF DeathInv, WaiterInv, WakeInFlight,
        WalkOwes, DeathPending, Cur, TickWake, WakeWaiter, procVars
<1>11. LatchInv'  BY WakerFacts, RendezFacts, WaiterType DEF LatchInv, ThreadInv, WaiterInv,
        WakeInFlight, WalkOwes, Cur, WaitOf, TickWake, WakeWaiter, procVars
<1>12. StopInv' /\ ParkInv'
  <2>1. UNCHANGED <<walk, group_exit, stops, kind, pc>> BY Zenon DEF TickWake, procVars, threadVars
  <2>2. wrendez[Ticker] \in Rendezs BY Zenon, WakerFacts, WrendezType DEF WakerInv, TickWake
  <2>3. \A v \in Wakers : v # Ticker => wrendez'[v] = wrendez[v] BY Zenon, WpcType, WrendezType, WakerFacts, RendezFacts DEF TickWake
  <2>4. waiter'[wrendez[Ticker]] # Owner(wrendez[Ticker])
        /\ \A r \in Rendezs : r # wrendez[Ticker] => waiter'[r] = waiter[r]
    <3>1. waiter[wrendez[Ticker]] = Owner(wrendez[Ticker]) => state[Owner(wrendez[Ticker])] = "SLEEPING"
        BY Zenon, <2>2 DEF WaiterInv
    <3>2. \/ waiter' = [waiter EXCEPT ![wrendez[Ticker]] = None]
          \/ waiter' = waiter /\ ~(state[Owner(wrendez[Ticker])] = "SLEEPING" /\ waiter[wrendez[Ticker]] = Owner(wrendez[Ticker]))
      BY Zenon DEF TickWake, WakeWaiter
    <3> QED BY <2>2, <3>1, <3>2, RendezFacts, WakerFacts, WaiterType
  <2>5. r_lock[wrendez[Ticker]] = None  BY Zenon DEF TickWake
  <2>6. \A r \in Rendezs : waiter'[r] = Owner(r) => waiter[r] = Owner(r) /\ r # wrendez[Ticker]
      BY Zenon, <2>2, <2>4
  <2> QED BY SMTT(20), <2>1, <2>3, <2>5, <2>6, RendezFacts, WakerFacts, WakerKeeps
<1>13. DeadlineInv'
  <2>1. UNCHANGED <<rc, expired, pc, kind, parkedFrom>>  BY Zenon DEF TickWake
  <2>2. expired[Owner(wrendez[Ticker])]
    <3>1. PICK t \in timerwait : wrendez[Ticker] = WaitOf(t) /\ ~on_cpu[t] /\ expired[t]  BY Zenon DEF TickInv, TickWake
    <3>2. t \in Threads  BY Zenon, <3>1, WaiterType, TimerwaitType
    <3> QED BY Zenon, <3>1, <3>2, RendezFacts DEF WaitOf
  <2>3. \A u \in Threads : u # Owner(wrendez[Ticker]) => sleep_timedout'[u] = sleep_timedout[u]
    <3>1. sleep_timedout' = [sleep_timedout EXCEPT ![Owner(wrendez[Ticker])] = TRUE] \/ sleep_timedout' = sleep_timedout
      BY Zenon DEF TickWake, WakeWaiter
    <3> QED BY Zenon, <3>1, TimedoutType
  <2> QED BY Zenon, <2>1, <2>2, <2>3 DEF DeadlineInv, InCall
<1>14. WaitLockInv' /\ BackInv'  BY Zenon, WaitLockFrame, BackFrame DEF TickWake, WakeWaiter, procVars
<1> QED BY Zenon, <1>1, <1>2, <1>3, <1>4, <1>5, <1>6, <1>7, <1>8, <1>9, <1>10, <1>11, <1>12, <1>13, <1>14
        DEF Structure, Delivery

\* A walk visiting the next thread under wait_lock.
LEMMA WalkPeerStep ==
    ASSUME IInv, NEW t \in Threads, WalkPeer(t)
    PROVE  (Structure /\ Delivery)'
<1> /\ TypeOK /\ WaitLockInv /\ TimerLockInv /\ RendezLockInv /\ WakerInv /\ SpinInv /\ TickInv
    /\ ThreadInv /\ BackInv /\ WaiterInv /\ TimerListExact /\ WakeupInv /\ DeathInv /\ LatchInv
    /\ StopInv /\ ParkInv /\ DeadlineInv
  BY Zenon DEF IInv, Structure, Delivery
<1>1. WaitLockInv'  BY WakerFacts, WaitLockType DEF WaitLockInv, WakerInv, WalkPeer, threadVars
<1>2. TimerLockInv'  BY Zenon, WpcType DEF TimerLockInv, Timed, WalkPeer, threadVars
<1>3. RendezLockInv'  BY WpcType, WrendezType DEF RendezLockInv, Cur, WalkPeer, threadVars
<1>4. WakerInv'
  <2>1. walk'.peer = t /\ t # None  BY WakerFacts DEF WalkPeer
  <2>2. \A w \in Wakers : w # Walker => wrendez'[w] = wrendez[w] /\ wpc'[w] = wpc[w]  BY Zenon, WpcType,
        WrendezType DEF WalkPeer
  <2>3. \/ wpc'[Walker] = "wtimer" /\ wrendez'[Walker] = blockedOn[t] /\ blockedOn[t] # None
        \/ wpc'[Walker] = "unlock" /\ wrendez'[Walker] = None
    <3>1. wrendez[Walker] = None /\ Walker \in Wakers  BY Zenon, WakerFacts DEF WalkPeer, WakerInv
    <3>2. CASE WalkWakes(walk.what, t)
      <4>1. blockedOn[t] # None  BY Zenon, <3>2 DEF WalkWakes
      <4>2. wpc' = [wpc EXCEPT ![Walker] = "wtimer"] /\ wrendez' = [wrendez EXCEPT ![Walker] = blockedOn[t]]
        BY Zenon, <3>2 DEF WalkPeer
      <4>3. wpc'[Walker] = "wtimer"  BY Zenon, <3>1, <4>2, PcType, WpcType
      <4>4. wrendez'[Walker] = blockedOn[t]  BY Zenon, <3>1, <4>2, WrendezType
      <4> QED BY Zenon, <4>1, <4>3, <4>4
    <3>3. CASE ~WalkWakes(walk.what, t)  BY Zenon, <3>1, <3>3, WpcType DEF WalkPeer
    <3> QED BY Zenon, <3>2, <3>3
  <2> QED BY Zenon, <2>1, <2>2, <2>3, WakerFacts DEF WakerInv
<1>5. SpinInv'  BY Zenon, WpcType, WrendezType DEF SpinInv, WalkPeer
<1>6. TickInv'  BY Zenon, WakerFacts, WpcType, WrendezType DEF TickInv, WalkPeer, threadVars
<1>7. TimerListExact'  BY WpcType, WrendezType DEF TimerListExact, WaitOf, WalkPeer
<1>8. WakeupInv'  BY RendezFacts, WrendezType DEF WakeupInv, WakerInv, WakeInFlight, WaitOf,
        WalkPeer, threadVars
<1>9. DeathInv'
  <2>1. UNCHANGED <<waiter, pc, group_exit>>  BY Zenon DEF WalkPeer, threadVars, procVars
  <2> SUFFICES ASSUME group_exit, NEW u \in Threads, NEW k \in Kinds, waiter[RendezOf(u, k)] = u, Owed(u, {"kill"}, RendezOf(u, k))
               PROVE  Owed(u, {"kill"}, RendezOf(u, k))'
    BY Zenon, <2>1 DEF DeathInv, Owed
  <2>2. RendezOf(u, k) \in Rendezs /\ Owner(RendezOf(u, k)) = u /\ RendezOf(u, k) # None  BY Zenon,
        RendezFacts
  <2>3. u = t /\ walk.what \in {"kill"} => WalkWakes(walk.what, t)
    BY Zenon, <2>2, SleeperNames DEF WalkWakes
  <2> QED BY Zenon, <2>2, <2>3, WalkPeerOwes
<1>10. LatchInv'
  <2>1. UNCHANGED <<waiter, pc, latch>>  BY Zenon DEF WalkPeer, threadVars, procVars
  <2> SUFFICES ASSUME latch, NEW u \in Threads, waiter[WaitOf(u)] = u, Owed(u, {"latch"}, WaitOf(u))
               PROVE  Owed(u, {"latch"}, WaitOf(u))'
    BY Zenon, <2>1 DEF LatchInv, Owed
  <2>2. WaitOf(u) \in Rendezs /\ Owner(WaitOf(u)) = u /\ WaitOf(u) # DebugOf(u) /\ WaitOf(u) # None
        BY Zenon, RendezFacts DEF WaitOf
  <2>3. u = t /\ walk.what \in {"latch"} => WalkWakes(walk.what, t)
    BY Zenon, <2>2, SleeperNames DEF WalkWakes
  <2> QED BY Zenon, <2>2, <2>3, WalkPeerOwes
<1>11. StopInv'
  <2>1. UNCHANGED <<waiter, pc, kind>> /\ (StopRequested' <=> StopRequested)  BY Zenon, StopFrame DEF
        WalkPeer, threadVars, procVars
  <2> SUFFICES ASSUME NEW u \in Threads, waiter[WaitOf(u)] = u, Owed(u, {"stop debug", "stop job"}, WaitOf(u))
               PROVE  Owed(u, {"stop debug", "stop job"}, WaitOf(u))'
    BY Zenon, <2>1, StopKept
  <2>2. WaitOf(u) \in Rendezs /\ Owner(WaitOf(u)) = u /\ WaitOf(u) # DebugOf(u) /\ WaitOf(u) # None  BY Zenon, RendezFacts DEF WaitOf
  <2>3. u = t /\ walk.what \in {"stop debug", "stop job"} => WalkWakes(walk.what, t)
    BY Zenon, <2>2, SleeperNames DEF WalkWakes
  <2> QED BY Zenon, <2>2, <2>3, WalkPeerOwes
<1>12. ParkInv'
  <2>1. UNCHANGED <<waiter, pc, kind>> /\ (StopRequested' <=> StopRequested)  BY Zenon, StopFrame DEF
        WalkPeer, threadVars, procVars
  <2> SUFFICES ASSUME NEW u \in Threads, kind[u] = "debug", pc[u] = "stopcheck" \/ waiter[DebugOf(u)] = u,
                      Owed(u, {"resume debug", "resume job", "kill"}, DebugOf(u))
               PROVE  Owed(u, {"resume debug", "resume job", "kill"}, DebugOf(u))'
    BY Zenon, <2>1, ParkKept
  <2>2. DebugOf(u) \in Rendezs /\ Owner(DebugOf(u)) = u /\ WaitOf(u) # DebugOf(u) /\ DebugOf(u) # None  BY Zenon, RendezFacts DEF DebugOf
  <2>3. CASE waiter[DebugOf(u)] = u
    <3>3. u = t /\ walk.what \in {"resume debug", "resume job", "kill"} => WalkWakes(walk.what, t)
      BY Zenon, <2>2, <2>3, SleeperNames DEF WalkWakes
    <3> QED BY Zenon, <2>2, <2>3, <3>3, WalkPeerOwes
  <2>4. CASE pc[u] = "stopcheck"
    <3>1. u # t  BY Zenon, <2>4, WakerFacts DEF WaitLockInv, HoldsWait, WalkPeer
    <3>2. wrendez[Walker] = None /\ \A w \in Wakers : w # Walker => wrendez'[w] = wrendez[w]  BY Zenon, WalkPeerFrame
    <3>3. walk'.what = walk.what /\ (u \in walk.todo => u \in walk'.todo)  BY Zenon, <3>1 DEF WalkPeer, TypeOK
    <3> QED BY Zenon, <2>2, <3>2, <3>3 DEF Owed, WalkOwes, WakeInFlight
  <2> QED BY Zenon, <2>3, <2>4
<1>13. ThreadInv' /\ BackInv' /\ WaiterInv' /\ DeadlineInv'  BY Zenon, ThreadFrame, BackFrame, WaiterFrame,
        DeadlineFrame DEF WalkPeer, threadVars, procVars
<1> QED BY Zenon, <1>1, <1>2, <1>3, <1>4, <1>5, <1>6, <1>7, <1>8, <1>9, <1>10, <1>11, <1>12, <1>13 DEF
        Structure, Delivery

\* A walk leaving a thread it did not have to wake.
LEMMA WalkUnlockStep ==
    ASSUME IInv, WalkUnlock
    PROVE  (Structure /\ Delivery)'
<1> /\ TypeOK /\ WaitLockInv /\ TimerLockInv /\ RendezLockInv /\ WakerInv /\ SpinInv /\ TickInv
    /\ ThreadInv /\ BackInv /\ WaiterInv /\ TimerListExact /\ WakeupInv /\ DeathInv /\ LatchInv
    /\ StopInv /\ ParkInv /\ DeadlineInv
  BY Zenon DEF IInv, Structure, Delivery
<1>1. WaitLockInv'  BY WakerFacts, WaitLockType DEF WaitLockInv, WalkUnlock, threadVars
<1>2. TimerLockInv'  BY Zenon, PcType, WpcType, RendezFacts DEF TimerLockInv, Timed, WalkUnlock, threadVars
<1>3. RendezLockInv'  BY DEF RendezLockInv, Cur, WalkUnlock, threadVars
<1>4. WakerInv'  BY WakerFacts, WpcType DEF WakerInv, WalkUnlock
<1>5. SpinInv'  BY Zenon, PcType, WpcType, RendezFacts DEF SpinInv, WalkUnlock
<1>6. TickInv'  BY Zenon, WpcType, WrendezType, WakerFacts, RendezFacts DEF TickInv, WalkUnlock, threadVars
<1>7. TimerListExact'  BY Zenon, PcType, WpcType, RendezFacts DEF TimerListExact, WalkUnlock
<1>8. DeathInv'  BY DEF DeathInv, WakeInFlight, WalkOwes, WalkUnlock, threadVars, procVars
<1>9. LatchInv'  BY SMTT(20) DEF LatchInv, WakeInFlight, WalkOwes, WalkUnlock, threadVars, procVars
<1>10. StopInv'  BY Zenon DEF TypeOK, StopInv, StopRequested, StopOwned, WakeInFlight, WalkOwes,
        WalkUnlock, threadVars, procVars
<1>11. ParkInv'  BY Zenon DEF TypeOK, ParkInv, StopRequested, StopOwned, WakeInFlight, WalkOwes,
        WalkUnlock, threadVars, procVars
<1>12. ThreadInv' /\ BackInv' /\ WaiterInv' /\ WakeupInv' /\ DeadlineInv'  BY Zenon, ThreadFrame,
        BackFrame, WaiterFrame, WakeupFrame, DeadlineFrame DEF WalkUnlock, threadVars, procVars
<1> QED BY Zenon, <1>1, <1>2, <1>3, <1>4, <1>5, <1>6, <1>7, <1>8, <1>9, <1>10, <1>11, <1>12 DEF Structure,
        Delivery

\* A walk over the thread list ending.
LEMMA EndWalkStep ==
    ASSUME IInv, EndWalk
    PROVE  (Structure /\ Delivery)'
<1> /\ TypeOK /\ WaitLockInv /\ TimerLockInv /\ RendezLockInv /\ WakerInv /\ SpinInv /\ TickInv
    /\ ThreadInv /\ BackInv /\ WaiterInv /\ TimerListExact /\ WakeupInv /\ DeathInv /\ LatchInv
    /\ StopInv /\ ParkInv /\ DeadlineInv
  BY Zenon DEF IInv, Structure, Delivery
<1>1. WaitLockInv'  BY Zenon DEF WaitLockInv, WakerInv, EndWalk, NoWalk, threadVars, lockVars
<1>2. WakerInv'  BY Zenon DEF WakerInv, EndWalk, NoWalk
<1>3. DeathInv'  BY Zenon DEF DeathInv, WakeInFlight, WalkOwes, EndWalk, threadVars, procVars
<1>4. LatchInv'  BY Zenon DEF LatchInv, WakeInFlight, WalkOwes, EndWalk, threadVars, procVars
<1>5. StopInv'  BY Zenon DEF StopInv, StopRequested, StopOwned, WakeInFlight, WalkOwes, EndWalk, NoWalk,
        procVars
<1>6. ParkInv'  BY Zenon DEF ParkInv, StopRequested, StopOwned, WakeInFlight, WalkOwes, EndWalk, NoWalk,
        threadVars, procVars
<1>7. TimerLockInv' /\ RendezLockInv' /\ SpinInv' /\ TickInv' /\ ThreadInv' /\ BackInv' /\
        WaiterInv' /\ TimerListExact' /\ WakeupInv' /\ DeadlineInv'  BY Zenon, TimerLockFrame,
        RendezLockFrame, SpinFrame, TickFrame, ThreadFrame, BackFrame, WaiterFrame, TimerListFrame,
        WakeupFrame, DeadlineFrame DEF EndWalk, NoWalk, threadVars, lockVars, procVars
<1> QED BY Zenon, <1>1, <1>2, <1>3, <1>4, <1>5, <1>6, <1>7 DEF Structure, Delivery

\* A kill, latch, stop or resume raising its flag and starting its walk.
LEMMA StartWalkStep ==
    ASSUME IInv, NEW what \in AllWalks, StartWalk(what)
    PROVE  (Structure /\ Delivery)'
<1> /\ TypeOK /\ WaitLockInv /\ TimerLockInv /\ RendezLockInv /\ WakerInv /\ SpinInv /\ TickInv
    /\ ThreadInv /\ BackInv /\ WaiterInv /\ TimerListExact /\ WakeupInv /\ DeathInv /\ LatchInv
    /\ StopInv /\ ParkInv /\ DeadlineInv
  BY Zenon DEF IInv, Structure, Delivery
<1>1. WaitLockInv'
    BY StartWalkFacts DEF IInv, Structure, WaitLockInv
<1>2. WakerInv'
    BY Zenon, StartWalkFacts DEF IInv, Structure, WakerInv
<1>3. DeathInv'
  <2>1. group_exit' => group_exit \/ what = "kill"  BY Zenon DEF StartWalk
  <2> QED BY Zenon, <2>1, StartWalkFacts DEF DeathInv, WalkOwes, WakeInFlight
<1>4. LatchInv'
  <2>1. latch' => latch \/ what = "latch"  BY Zenon DEF StartWalk
  <2> QED BY Zenon, <2>1, StartWalkFacts DEF LatchInv, WalkOwes, WakeInFlight
<1>5. StopInv'
  <2>1. StopRequested' => StopRequested \/ what \in {"stop debug", "stop job"}
    BY Zenon DEF StartWalk, StopRequested, StopOwned
  <2> QED BY Zenon, <2>1, StartWalkFacts DEF StopInv, WalkOwes, WakeInFlight
<1>6. ParkInv'
  <2>1. ~StopRequested' => ~StopRequested \/ what \in {"resume debug", "resume job", "kill"}
    BY Zenon DEF StartWalk, StopRequested, StopOwned
  <2> QED BY ZenonT(30), <2>1, StartWalkFacts DEF ParkInv, WalkOwes, WakeInFlight
<1>7. TimerLockInv' /\ RendezLockInv' /\ SpinInv' /\ TickInv' /\ ThreadInv' /\ BackInv' /\
        WaiterInv' /\ TimerListExact' /\ WakeupInv' /\ DeadlineInv'  BY Zenon, TimerLockFrame,
        RendezLockFrame, SpinFrame, TickFrame, ThreadFrame, BackFrame, WaiterFrame, TimerListFrame,
        WakeupFrame, DeadlineFrame DEF StartWalk, BeginWalk, NoWalk, threadVars, lockVars
<1> QED BY Zenon, <1>1, <1>2, <1>3, <1>4, <1>5, <1>6, <1>7 DEF Structure, Delivery

\* Every step of a thread keeps the invariant.
LEMMA ThreadStepKeeps ==
    ASSUME IInv, NEW t \in Threads, ThreadStep(t)
    PROVE  (Structure /\ Delivery)'
<1> "INTR" \in {"OK", "INTR", "TIMEDOUT"} /\ "OK" \in {"OK", "INTR", "TIMEDOUT"} /\ "TIMEDOUT" \in {"OK", "INTR", "TIMEDOUT"}
  BY Zenon
<1>1. CASE LockWait(t)      BY Zenon, <1>1, LockWaitStep
<1>2. CASE LockTimer(t)     BY Zenon, <1>2, LockTimerStep
<1>3. CASE LockRendez(t)
  <2>1. Return(t, "INTR") \/ HoldRendez(t)  BY Zenon, <1>3 DEF LockRendez
  <2>2. pc[t] \in {"lockR", "relockR"} /\ r_lock[Cur(t)] = None  BY Zenon, <1>3 DEF LockRendez
  <2> QED BY Zenon, <2>1, <2>2, ReturnStep, HoldRendezStep
<1>4. CASE Check(t)
  <2>1. pc[t] = "check"  BY Zenon, <1>4 DEF Check
  <2>2. \/ Return(t, "OK")
        \/ Return(t, "TIMEDOUT") /\ Timed(t) /\ (sleep_timedout[t] \/ expired[t])
        \/ ~CondHolds(t) /\ Goto(t, "stopcheck")
    BY Zenon, <1>4 DEF Check
  <2> QED BY Zenon, <2>1, <2>2, ReturnStep, NotYetStep
<1>5. CASE Detour(t)
  <2>1. pc[t] = "stopcheck" /\ kind[t] = "wait" /\ StopRequested  BY Zenon, <1>5 DEF Detour
  <2>2. Return(t, "INTR") \/ (ReleaseAll(t) /\ StartPark(t, "call"))  BY Zenon, <1>5 DEF Detour
  <2> QED BY Zenon, <2>1, <2>2, ReturnStep, CallParkStep
<1>6. CASE Register(t)      BY Zenon, <1>6, RegisterStep
<1>7. CASE ObserveDeath(t)  BY Zenon, <1>7, ObserveDeathStep
<1>8. CASE ObserveNone(t)   BY Zenon, <1>8, ObserveNoneStep
<1>9. CASE SwitchOut(t)     BY Zenon, <1>9, SwitchOutStep
<1>10. CASE SwitchIn(t)     BY Zenon, <1>10, SwitchInStep
<1>11. CASE DieCheck(t)
  BY Zenon, <1>11, ExitSelfStep, TailStep DEF DieCheck, TailPCs
<1>12. CASE StopCheck(t)
  BY Zenon, <1>12, TailStep DEF StopCheck, TailPCs
<1>13. CASE ParkDeath(t)
  BY Zenon, <1>13, ExitSelfStep, TailStep DEF ParkDeath, TailPCs
<1>14. CASE ParkCond(t)
  BY Zenon, <1>14, TailStep, TailParkStep DEF ParkCond, TailPCs
<1>15. CASE Unpark(t)
  BY Zenon, <1>15, ExitSelfStep, TailStep DEF Unpark, TailPCs
<1>16. CASE Notes(t)
  <2>1. pc[t] = "notes" /\ (ToEL0(t) \/ ExitSelf(t) \/ ExitGroup(t))  BY Zenon, <1>16 DEF Notes
  <2> QED BY Zenon, <2>1, ToEL0Step, ExitSelfStep, ExitGroupStep DEF TailPCs
<1>17. CASE Exiting(t)      BY Zenon, <1>17, ExitSelfStep DEF Exiting, TailPCs
<1>18. CASE Trap(t)         BY Zenon, <1>18, TailStep DEF Trap, TailPCs
<1> QED BY Zenon, <1>1, <1>2, <1>3, <1>4, <1>5, <1>6, <1>7, <1>8, <1>9, <1>10, <1>11,
           <1>12, <1>13, <1>14, <1>15, <1>16, <1>17, <1>18 DEF ThreadStep

\* Every step of the specification keeps the invariant.
LEMMA IInvNext ==
    ASSUME IInv, [Next]_vars PROVE IInv'
<1>1. TypeOK'  BY Zenon, TypeNext DEF IInv
<1>2. (Structure /\ Delivery)'
  <2>1. ASSUME NEW t \in Threads, ThreadStep(t) \/ Syscall(t) \/ Expire(t) \/ RevokeLatch(t)
        PROVE  (Structure /\ Delivery)'
    BY Zenon, <2>1, ThreadStepKeeps, SyscallStep, ExpireStep, RevokeLatchStep
  <2>2. ASSUME NEW w \in Wakers, WakerStep(w) PROVE (Structure /\ Delivery)'
    BY Zenon, <2>2, WakeLockTimerStep, WakeLookupStep, WakeReadyStep DEF WakerStep
  <2>3. ASSUME NEW w \in Wakers, NEW t \in Threads, Produce(w, t) PROVE (Structure /\ Delivery)'
    BY Zenon, <2>3, ProduceStep
  <2>4. CASE TickStep  BY Zenon, <2>4, TickFindStep, TickWakeStep DEF TickStep
  <2>5. CASE WalkStep  BY Zenon, <2>5, WalkPeerStep, WalkUnlockStep, EndWalkStep DEF WalkStep
  <2>6. ASSUME NEW what \in AllWalks, StartWalk(what) PROVE (Structure /\ Delivery)'
    BY Zenon, <2>6, StartWalkStep
  <2>7. CASE UNCHANGED vars
    <3>1. UNCHANGED <<pc, state, on_cpu, kind, parkedFrom, rc, blockedOn, sleep_timedout, expired, cond>>
          /\ UNCHANGED <<wait_lock, r_lock, timer_lock, group_exit, stops, latch, wpc, wrendez, walk, waiter, timerwait>>
      BY Zenon, <2>7 DEF vars, threadVars, lockVars, procVars, wakerVars
    <3>2. WaitLockInv' /\ TimerLockInv' /\ RendezLockInv' /\ WakerInv' /\ SpinInv' /\ TickInv'
      BY Zenon, <3>1, WaitLockFrame, TimerLockFrame, RendezLockFrame, WakerFrame, SpinFrame, TickFrame
    <3>3. ThreadInv' /\ BackInv' /\ WaiterInv' /\ TimerListExact' /\ WakeupInv'
      BY Zenon, <3>1, ThreadFrame, BackFrame, WaiterFrame, TimerListFrame, WakeupFrame
    <3>4. DeathInv' /\ LatchInv' /\ StopInv' /\ ParkInv' /\ DeadlineInv'
      BY Zenon, <3>1, DeathFrame, LatchFrame, StopInvFrame, ParkFrame, DeadlineFrame
    <3> QED BY Zenon, <3>2, <3>3, <3>4 DEF Structure, Delivery
  <2> QED BY Zenon, <2>1, <2>2, <2>3, <2>4, <2>5, <2>6, <2>7 DEF Next
<1> QED BY Zenon, <1>1, <1>2 DEF IInv

\* The invariant holds before the first call.
LEMMA IInvInit == ASSUME Init PROVE IInv
<1> USE DEF Init
<1>1. TypeOK
  <2>1. /\ pc \in [Threads -> SleepPCs \cup TailPCs \cup {"el0", "dead"}]
        /\ kind \in [Threads -> Kinds]
    BY Zenon DEF Kinds
  <2>2. walk \in [what : AllWalks \cup {"none"}, todo : SUBSET Threads, peer : Threads \cup {None}]
    BY Zenon DEF NoWalk
  <2> QED BY Zenon, <2>1, <2>2 DEF TypeOK
<1>2. WaitLockInv /\ TimerLockInv  BY Zenon, WakerFacts DEF WaitLockInv, TimerLockInv, HoldsWait, HoldsTimer, NoWalk
<1>3. RendezLockInv  BY Zenon, WakerFacts, RendezFacts DEF RendezLockInv, HoldsRendez
<1>4. WakerInv /\ SpinInv /\ TickInv  BY Zenon, WakerFacts DEF WakerInv, SpinInv, TickInv, NoWalk
<1>5. ThreadInv /\ BackInv  BY Zenon DEF ThreadInv, BackInv, SleepPCs
<1>6. WaiterInv /\ TimerListExact  BY Zenon, WakerFacts, RendezFacts DEF WaiterInv, TimerListExact, WaitOf
<1>7. WakeupInv /\ DeathInv /\ LatchInv /\ DeadlineInv  BY Zenon DEF WakeupInv, DeathInv, LatchInv, DeadlineInv
<1>8. StopInv /\ ParkInv  BY Zenon, WakerFacts, RendezFacts DEF StopInv, ParkInv, StopRequested, StopOwned
<1> QED BY Zenon, <1>1, <1>2, <1>3, <1>4, <1>5, <1>6, <1>7, <1>8 DEF IInv, Structure, Delivery

\* The inductive invariant holds in every reachable state: every point of
\* sleep_common, tsleep_common, wakeup, timerwait_tick and the walks.
THEOREM Inductive == Spec => []IInv
  BY IInvInit, IInvNext, PTL DEF Spec

\* The extinctions of sleep_common, tsleep_common and wakeup are unreachable.
THEOREM ExtinctionFree == Spec => []NoExtinction
<1>1. ASSUME IInv PROVE NoExtinction
  <2> USE <1>1 DEF IInv, Structure
  <2>1. ASSUME NEW r \in Rendezs, waiter[r] # None
        PROVE  state[waiter[r]] = "SLEEPING" /\ blockedOn[waiter[r]] = r
    BY Zenon, <2>1, SleeperNames DEF WaiterInv
  <2>2. ASSUME NEW t \in Threads, pc[t] = "stopcheck"
        PROVE  waiter[Cur(t)] = None /\ blockedOn[t] = None /\ state[t] = "RUNNING" /\ t \notin timerwait
    <3>1. state[t] = "RUNNING" /\ blockedOn[t] = None  BY <2>2 DEF ThreadInv, BackInv
    <3>2. Cur(t) \in Rendezs /\ Owner(Cur(t)) = t /\ WaitOf(t) \in Rendezs /\ Owner(WaitOf(t)) = t
      BY Zenon, RendezFacts DEF Cur, WaitOf, TypeOK
    <3>3. waiter[Cur(t)] = None /\ waiter[WaitOf(t)] # t  BY Zenon, <3>1, <3>2 DEF WaiterInv
    <3> QED BY Zenon, <3>1, <3>3 DEF TimerListExact
  <2> QED BY Zenon, <2>1, <2>2 DEF NoExtinction
<1> QED BY <1>1, Inductive, PTL

\* No wakeup is lost between sleep()'s look at the condition and its sleep.
THEOREM WakeupsArrive == Spec => []NoLostWakeup
<1>1. ASSUME IInv PROVE NoLostWakeup
  <2> USE <1>1 DEF IInv, Structure, Delivery
  <2> SUFFICES ASSUME NEW t \in Threads, cond[t], waiter[WaitOf(t)] = t  PROVE WakeInFlight(WaitOf(t))
    BY Zenon DEF NoLostWakeup, Asleep, WaitOf
  <2>1. Cur(t) = WaitOf(t)  BY Zenon, RendezFacts DEF WaiterInv, WaitOf
  <2>2. kind[t] = "wait"  BY <2>1, RendezFacts DEF Cur, WaitOf, DebugOf, TypeOK, Kinds
  <2> QED BY Zenon, <2>2 DEF WakeupInv
<1> QED BY <1>1, Inductive, PTL

\* No sleeper of a dying group is passed over by the death walk.
THEOREM DeathsArrive == Spec => []NoLostDeath
<1>1. ASSUME IInv PROVE NoLostDeath
  BY Zenon, <1>1 DEF IInv, Delivery, DeathInv, NoLostDeath, Asleep
<1> QED BY <1>1, Inductive, PTL

\* A terminate latch reaches every call that a thread sleeps in.
THEOREM LatchesArrive == Spec => []NoLostLatch
<1>1. ASSUME IInv PROVE NoLostLatch
  BY Zenon, <1>1 DEF IInv, Delivery, LatchInv, NoLostLatch, Asleep, WaitOf
<1> QED BY <1>1, Inductive, PTL

\* A stop reaches every blocked call and its end every parked thread.
THEOREM StopsArrive == Spec => []NoLostStop
<1>1. ASSUME IInv PROVE NoLostStop
  <2> USE <1>1 DEF IInv, Structure, Delivery
  <2>1. ASSUME NEW t \in Threads, StopRequested, Asleep(t, "wait")
        PROVE  WalkOwes(t, {"stop debug", "stop job"}) \/ WakeInFlight(WaitOf(t))
    BY Zenon, <2>1 DEF StopInv, Asleep, WaitOf
  <2>2. ASSUME NEW t \in Threads, ~StopRequested, Asleep(t, "debug")
        PROVE  WalkOwes(t, {"resume debug", "resume job", "kill"}) \/ WakeInFlight(DebugOf(t))
    <3>1. waiter[DebugOf(t)] = t  BY Zenon, <2>2 DEF Asleep, DebugOf
    <3>2. Cur(t) = DebugOf(t)  BY Zenon, <3>1, RendezFacts DEF WaiterInv, DebugOf
    <3>3. kind[t] = "debug"  BY <3>2, RendezFacts DEF Cur, WaitOf, DebugOf, TypeOK, Kinds
    <3> QED BY Zenon, <2>2, <3>1, <3>3 DEF ParkInv
  <2> QED BY Zenon, <2>1, <2>2 DEF NoLostStop
<1> QED BY <1>1, Inductive, PTL

\* No sleeper is passed over by a wakeup, a death, a latch, a stop or a resume.
THEOREM NothingIsLost == Spec => []NothingLost
  BY WakeupsArrive, DeathsArrive, LatchesArrive, StopsArrive, PTL DEF NothingLost

\* The timer-wait list holds exactly the sleepers with a deadline that nobody
\* is waking.
THEOREM TimerListCorrect == Spec => []TimerListExact
<1>1. ASSUME IInv PROVE TimerListExact  BY Zenon, <1>1 DEF IInv, Structure
<1> QED BY <1>1, Inductive, PTL

\* A call reports a timeout only past its own deadline.
THEOREM TimeoutsReal == Spec => []TimeoutIsReal
<1>1. ASSUME IInv PROVE TimeoutIsReal  BY Zenon, <1>1 DEF IInv, Delivery, DeadlineInv, TimeoutIsReal
<1> QED BY <1>1, Inductive, PTL

\* A thread is runnable only once its registers are saved.
THEOREM NoDoubleRun == Spec => []NeverReadyOnCpu
<1>1. ASSUME IInv PROVE NeverReadyOnCpu
  BY <1>1 DEF IInv, Structure, ThreadInv, NeverReadyOnCpu, TypeOK
<1> QED BY <1>1, Inductive, PTL

\* In a dying group a thread's own step keeps it in the park of its tail, or ends it.
LEMMA TailParkKept ==
    ASSUME TypeOK, group_exit, NEW t \in Threads, InTailPark(t), ThreadStep(t)
    PROVE  InTailPark(t)' \/ pc'[t] = "dead"
<1>0. /\ pc \in [Threads -> SleepPCs \cup TailPCs \cup {"el0", "dead"}] /\ kind \in [Threads -> Kinds]
      /\ ~StopRequested
      /\ parkedFrom \in [Threads -> {"tail", "call"}]
  BY Zenon DEF TypeOK, StopRequested
<1>1. ASSUME pc[t] \in SleepPCs, kind[t] = "debug", parkedFrom[t] = "tail", kind' = [kind EXCEPT ![t] = "wait"],
             pc' = [pc EXCEPT ![t] = IF kind[t] = "wait" THEN "tail"
                                      ELSE IF parkedFrom[t] = "tail" THEN "park" ELSE "lock"]
      PROVE  InTailPark(t)'
  BY Zenon, <1>0, <1>1 DEF InTailPark
<1>2. CASE pc[t] \in {"park", "parkcond", "unpark"}
  <2>1. ParkDeath(t) \/ ParkCond(t) \/ Unpark(t)
    BY Zenon, <1>2 DEF ThreadStep, LockWait, LockTimer, LockRendez, Check, Detour, Register, ObserveDeath, ObserveNone,
                SwitchOut, SwitchIn, DieCheck, StopCheck, Notes, Exiting, Trap
  <2>2. ExitSelf(t) \/ Goto(t, "unpark")  BY Zenon, <1>0, <2>1 DEF ParkDeath, ParkCond, Unpark
  <2>3. CASE ExitSelf(t)  BY Zenon, <1>0, <2>3 DEF ExitSelf
  <2>4. CASE Goto(t, "unpark")  BY Zenon, <1>0, <2>4 DEF Goto, InTailPark
  <2> QED BY Zenon, <2>2, <2>3, <2>4
<1>3. CASE pc[t] \in SleepPCs /\ kind[t] = "debug" /\ parkedFrom[t] = "tail"
  <2>1. \/ LockWait(t) \/ LockTimer(t) \/ LockRendez(t) \/ Check(t) \/ Register(t)
        \/ ObserveDeath(t) \/ ObserveNone(t) \/ SwitchOut(t) \/ SwitchIn(t)
    BY Zenon, <1>3 DEF ThreadStep, Detour, DieCheck, StopCheck, ParkDeath, ParkCond, Unpark, Notes, Exiting, Trap, SleepPCs
  <2>2. ASSUME NEW l \in SleepPCs, pc' = [pc EXCEPT ![t] = l], kind' = kind, parkedFrom' = parkedFrom
        PROVE  InTailPark(t)'
    BY Zenon, <1>0, <1>3, <2>2 DEF InTailPark
  <2>3. CASE LockWait(t)
    <3> DEFINE l == IF pc[t] = "lock" THEN IF Timed(t) THEN "lockT" ELSE "lockR"
                    ELSE IF Timed(t) THEN "relockT" ELSE "relockR"
    <3>1. l \in SleepPCs  BY Zenon DEF SleepPCs
    <3>2. pc' = [pc EXCEPT ![t] = l] /\ kind' = kind /\ parkedFrom' = parkedFrom  BY Zenon, <2>3 DEF LockWait
    <3> HIDE DEF l
    <3> QED BY Zenon, <2>2, <3>1, <3>2
  <2>4. CASE LockTimer(t)
    <3> DEFINE l == IF pc[t] = "lockT" THEN "lockR" ELSE "relockR"
    <3>1. l \in SleepPCs  BY Zenon DEF SleepPCs
    <3>2. pc' = [pc EXCEPT ![t] = l] /\ kind' = kind /\ parkedFrom' = parkedFrom  BY Zenon, <2>4 DEF LockTimer
    <3> HIDE DEF l
    <3> QED BY Zenon, <2>2, <3>1, <3>2
  <2>5. ASSUME NEW r, Return(t, r) PROVE InTailPark(t)'  BY Zenon, <1>1, <1>3, <2>5 DEF Return
  <2>6. CASE LockRendez(t)
    <3>1. Return(t, "INTR") \/ HoldRendez(t)  BY Zenon, <2>6 DEF LockRendez
    <3>2. HoldRendez(t) => InTailPark(t)'  BY Zenon, <2>2 DEF HoldRendez, SleepPCs
    <3> QED BY Zenon, <2>5, <3>1, <3>2
  <2>7. CASE Check(t)
    <3>1. Return(t, "OK") \/ Return(t, "TIMEDOUT") \/ Goto(t, "stopcheck")  BY Zenon, <2>7 DEF Check
    <3>2. Goto(t, "stopcheck") => InTailPark(t)'  BY Zenon, <2>2 DEF Goto, SleepPCs
    <3> QED BY Zenon, <2>5, <3>1, <3>2
  <2>8. CASE Register(t)  BY Zenon, <2>2, <2>8 DEF Register, SleepPCs
  <2>9. CASE ObserveDeath(t)  BY Zenon, <1>1, <1>3, <2>9 DEF ObserveDeath
  <2>10. CASE ObserveNone(t)  BY Zenon, <2>2, <2>10 DEF ObserveNone, SleepPCs
  <2>11. CASE SwitchOut(t)  BY Zenon, <2>2, <2>11 DEF SwitchOut, SleepPCs
  <2>12. CASE SwitchIn(t)  BY Zenon, <2>2, <2>12 DEF SwitchIn, SleepPCs
  <2> QED BY Zenon, <2>1, <2>3, <2>4, <2>6, <2>7, <2>8, <2>9, <2>10, <2>11, <2>12
<1> QED BY Zenon, <1>2, <1>3 DEF InTailPark

\* A step of another thread, of a waker or of a walk leaves it where it is.
LEMMA OthersKeepPark ==
    ASSUME TypeOK, NEW t \in Threads, InTailPark(t), Next, ~ThreadStep(t)
    PROVE  InTailPark(t)'
<1>0. /\ pc \in [Threads -> SleepPCs \cup TailPCs \cup {"el0", "dead"}]
      /\ kind \in [Threads -> Kinds] /\ parkedFrom \in [Threads -> {"tail", "call"}]
  BY Zenon DEF TypeOK
<1>1. pc'[t] = pc[t] /\ kind'[t] = kind[t] /\ parkedFrom'[t] = parkedFrom[t] => InTailPark(t)'
  BY Zenon DEF InTailPark
<1>2. ASSUME NEW u \in Threads \ {t}, ThreadStep(u)
      PROVE  pc'[t] = pc[t] /\ kind'[t] = kind[t] /\ parkedFrom'[t] = parkedFrom[t]
  <2>1. CASE LockWait(u)  BY Zenon, <1>0, <2>1 DEF LockWait
  <2>2. CASE LockTimer(u)  BY Zenon, <1>0, <2>2 DEF LockTimer
  <2>3. CASE LockRendez(u)  BY Zenon, <1>0, <2>3 DEF LockRendez, Return, HoldRendez
  <2>4. CASE Check(u)  BY Zenon, <1>0, <2>4 DEF Check, Return, Goto
  <2>5. CASE Detour(u)  BY Zenon, <1>0, <2>5 DEF Detour, Return, StartPark
  <2>6. CASE Register(u)  BY Zenon, <1>0, <2>6 DEF Register
  <2>7. CASE ObserveDeath(u)  BY Zenon, <1>0, <2>7 DEF ObserveDeath
  <2>8. CASE ObserveNone(u) \/ SwitchOut(u) \/ SwitchIn(u)  BY Zenon, <1>0, <2>8 DEF ObserveNone, SwitchOut, SwitchIn
  <2>9. CASE DieCheck(u) \/ StopCheck(u) \/ ParkDeath(u) \/ Unpark(u) \/ Exiting(u) \/ Trap(u)
    BY Zenon, <1>0, <2>9 DEF DieCheck, StopCheck, ParkDeath, Unpark, Exiting, Trap, ExitSelf, Goto
  <2>10. CASE ParkCond(u)  BY Zenon, <1>0, <2>10 DEF ParkCond, Goto, StartPark
  <2>11. CASE Notes(u)  BY Zenon, <1>0, <2>11 DEF Notes, ToEL0, ExitSelf, ExitGroup
  <2> QED BY Zenon, <1>2, <2>1, <2>2, <2>3, <2>4, <2>5, <2>6, <2>7, <2>8, <2>9, <2>10, <2>11 DEF ThreadStep
<1>3. ASSUME NEW u \in Threads, Syscall(u) PROVE InTailPark(t)'
  <2>1. u # t  BY Zenon, <1>3 DEF Syscall, InTailPark, SleepPCs
  <2> QED BY Zenon, <1>0, <1>1, <1>3, <2>1 DEF Syscall
<1>4. ASSUME UNCHANGED <<pc, kind, parkedFrom>> PROVE InTailPark(t)'  BY Zenon, <1>1, <1>4
<1>5. ASSUME NEW u \in Threads, Expire(u) \/ RevokeLatch(u) PROVE InTailPark(t)'
  BY Zenon, <1>4, <1>5 DEF Expire, RevokeLatch, threadVars
<1>6. ASSUME NEW w \in Wakers, WakerStep(w) \/ \E u \in Threads : Produce(w, u) PROVE InTailPark(t)'
  BY Zenon, <1>4, <1>6 DEF WakerStep, WakeLockTimer, WakeLookup, WakeReady, Produce, threadVars
<1>7. CASE TickStep  BY Zenon, <1>4, <1>7 DEF TickStep, TickFind, TickWake, threadVars
<1>8. CASE WalkStep  BY Zenon, <1>4, <1>8 DEF WalkStep, WalkPeer, WalkUnlock, EndWalk, threadVars
<1>9. ASSUME NEW what, StartWalk(what) PROVE InTailPark(t)'  BY Zenon, <1>4, <1>9 DEF StartWalk, threadVars
<1> QED BY Zenon, <1>1, <1>2, <1>3, <1>5, <1>6, <1>7, <1>8, <1>9 DEF Next

\* A stopped thread of a group that is being killed does not run user code again,
\* whatever resume races the kill: el0_stop_park looks at the death on both sides
\* of its condition.
THEOREM DeathWins == Spec => DeathWinsOverStop
<1>1. TypeOK /\ [Next]_vars =>
        [\A t \in Threads : group_exit /\ InTailPark(t) /\ ~InTailPark(t)' => pc'[t] = "dead"]_vars
  BY Zenon, TailParkKept, OthersKeepPark
<1> QED BY <1>1, TypeCorrect, PTL DEF Spec, DeathWinsOverStop

=============================================================================
