------------------------------- MODULE Torpor -------------------------------
(***************************************************************************)
(* torpor, the wait-on-address primitive of kernel/torpor.c: WAIT and WAKE *)
(* on a user word, the death and stop walks over the wait queues, and the  *)
(* race between a wake, a deadline, a caught note, a stop and a death.     *)
(*                                                                         *)
(* tsleep_noteintr() and wakeup() are used as module Rendez shows them to  *)
(* behave: a sleep that is not yet registered sees what was published      *)
(* before, and a registered one is resumed by the first wakeup().  User    *)
(* memory is written without any lock; everything else the code does under *)
(* torpor_lock is cut where another CPU can see or change something.       *)
(***************************************************************************)
EXTENDS Naturals, Sequences, FiniteSets, Functions

CONSTANTS
    Waiters,     \* threads that call WAIT
    Producers,   \* threads that store to a word and call WAKE
    Control,     \* the holder of g_proc_table_lock that kills, stops, resumes
    Procs,
    ProcOf,      \* the Proc of each waiter and producer
    Addrs,       \* user addresses; every Proc has its own words there
    NBuckets,    \* TORPOR_HASH_BUCKETS
    Hash,        \* torpor_hash: (Proc, address) to bucket
    Counts,      \* the counts WAKE is called with
    Controls,    \* what Control may do: "death", "stop", "resume"
    Expects,     \* the values waited on
    Deadlines,   \* the deadlines asked for: "none", "now", "later"
    Noted,       \* the waiters a caught note may be posted to
    Unmaps,      \* the words whose page may be unmapped
    MaxWaits,    \* bound on the WAITs of a thread
    MaxWakes,    \* bound on the WAKEs of a producer
    MaxControls, \* bound on the walks of Control
    None

Keys   == Procs \X Addrs
Wakers == Producers \cup {Control}

ASSUME TorporAssumption ==
    /\ ProcOf \in [Waiters \cup Producers -> Procs] /\ Procs # {} /\ Addrs # {}
    /\ NBuckets \in Nat \ {0}
    /\ Hash \in [Keys -> 1..NBuckets]
    /\ Counts \subseteq Nat
    /\ Controls \subseteq {"death", "stop", "resume"}
    /\ Expects \subseteq {0, 1} /\ Deadlines \subseteq {"none", "now", "later"}
    /\ Noted \subseteq Waiters /\ Unmaps \subseteq Keys
    /\ MaxWaits \in Nat /\ MaxWakes \in Nat /\ MaxControls \in Nat
    /\ Control \notin Producers /\ Waiters \cap Wakers = {}
    /\ None \notin Waiters \cup Wakers

VARIABLES
    \* per waiter: the frame of sys_torpor_wait_for_proc
    pc, addr, expected, deadline, awoken, rc,
    expired,      \* the counter has passed the deadline
    note,         \* a caught note is pending
    waits,        \* WAITs made
    \* the wait queues
    bucket,       \* torpor_buckets: the waiters of each bucket, newest first
    torpor_lock,
    \* user memory
    word,
    mapped,       \* the words that can be read
    \* per Proc
    dying, stopped,
    \* per waker: the frame of the walk
    wpc, op, key, count,
    wbkt,         \* the bucket being walked
    rest,         \* what is left of it, w first
    woken,
    cascade,      \* the threads the walk over p->threads still has to visit
    wakes,        \* walks made
    \* history: how this WAIT was released
    marked,       \* the WAKE that set awoken, or None
    counted       \* a WAKE counted it

waitVars == <<addr, expected, deadline>>
userVars == <<word, mapped>>
procVars == <<dying, stopped>>
walkVars == <<wpc, op, key, count, wbkt, rest, woken, cascade, wakes>>
history  == <<marked, counted>>
vars == <<pc, waitVars, awoken, rc, expired, note, waits, bucket, torpor_lock,
          userVars, procVars, walkVars, history>>

Init ==
    /\ pc = [t \in Waiters |-> "user"]
    /\ addr \in [Waiters -> {CHOOSE a \in Addrs : TRUE}]
    /\ expected = [t \in Waiters |-> 0]
    /\ deadline = [t \in Waiters |-> "none"]
    /\ awoken = [t \in Waiters |-> FALSE]
    /\ rc = [t \in Waiters |-> "OK"]
    /\ expired = [t \in Waiters |-> FALSE]
    /\ note = [t \in Waiters |-> FALSE]
    /\ waits = [t \in Waiters |-> 0]
    /\ bucket = [b \in 1..NBuckets |-> <<>>]
    /\ torpor_lock = None
    /\ word = [k \in Keys |-> 0]
    /\ mapped = Keys
    /\ dying = {} /\ stopped = {}
    /\ wpc = [u \in Wakers |-> "idle"]
    /\ op = [u \in Wakers |-> "wake"]
    /\ key = [u \in Wakers |-> CHOOSE k \in Keys : TRUE]
    /\ count = [u \in Wakers |-> 0]
    /\ wbkt = [u \in Wakers |-> 1]
    /\ rest = [u \in Wakers |-> <<>>]
    /\ woken = [u \in Wakers |-> 0]
    /\ cascade = [u \in Wakers |-> {}]
    /\ wakes = [u \in Wakers |-> 0]
    /\ marked = [t \in Waiters |-> None]
    /\ counted = [t \in Waiters |-> FALSE]

KeyOf(t)     == <<ProcOf[t], addr[t]>>
Dying(t)     == ProcOf[t] \in dying
MustPark(t)  == ProcOf[t] \in stopped /\ ~Dying(t)

-----------------------------------------------------------------------------
(* sys_torpor_wait_for_proc                                                *)

\* The call: a fresh waiter on the stack. A timeout of zero is a deadline
\* already past. The pending note is the caller's once it is back at EL0.
Wait(t) ==
    /\ pc[t] = "user" /\ ~Dying(t) /\ ~MustPark(t) /\ waits[t] < MaxWaits
    /\ pc' = [pc EXCEPT ![t] = "compare"]
    /\ \E a \in Addrs, e \in Expects, d \in Deadlines :
          /\ addr' = [addr EXCEPT ![t] = a]
          /\ expected' = [expected EXCEPT ![t] = e]
          /\ deadline' = [deadline EXCEPT ![t] = d]
          /\ expired' = [expired EXCEPT ![t] = d = "now"]
    /\ awoken' = [awoken EXCEPT ![t] = FALSE]
    /\ marked' = [marked EXCEPT ![t] = None]
    /\ counted' = [counted EXCEPT ![t] = FALSE]
    /\ waits' = [waits EXCEPT ![t] = @ + 1]
    /\ UNCHANGED <<rc, note, bucket, torpor_lock, userVars, procVars, walkVars>>

\* Back to the caller with c; the EL0 return delivers a pending note.
Return(t, c) ==
    /\ pc' = [pc EXCEPT ![t] = "user"]
    /\ rc' = [rc EXCEPT ![t] = c]
    /\ note' = [note EXCEPT ![t] = FALSE]
    /\ UNCHANGED <<waitVars, awoken, expired, waits, userVars, procVars, walkVars, history>>

\* uaccess_load_u32 faults on a word that is not mapped.
Mismatch(t) == word[KeyOf(t)] # expected[t]
Compared(t, next) ==
    \/ KeyOf(t) \notin mapped /\ Return(t, "EFAULT") /\ UNCHANGED <<bucket, torpor_lock>>
    \/ /\ KeyOf(t) \in mapped /\ Mismatch(t)
       /\ Return(t, "OK") /\ UNCHANGED <<bucket, torpor_lock>>
    \/ KeyOf(t) \in mapped /\ ~Mismatch(t) /\ next

StepTo(t, l) ==
    /\ pc' = [pc EXCEPT ![t] = l]
    /\ UNCHANGED <<waitVars, awoken, rc, expired, note, waits, userVars, procVars, walkVars, history>>

\* The prefault and the lock-free compare.
Compare(t) ==
    /\ pc[t] = "compare"
    /\ Compared(t, StepTo(t, "lock") /\ UNCHANGED <<bucket, torpor_lock>>)

\* MUTANT: no authoritative compare under the lock.
CompareLockedMissing(t) ==
    /\ pc[t] = "lock" /\ torpor_lock = None
    /\ StepTo(t, "register") /\ torpor_lock' = t /\ UNCHANGED bucket

\* MUTANT: the fault path leaves torpor_lock held.
CompareLockedLeaks(t) ==
    /\ pc[t] = "lock" /\ torpor_lock = None
    /\ \/ KeyOf(t) \notin mapped /\ Return(t, "EFAULT") /\ torpor_lock' = t /\ UNCHANGED bucket
       \/ KeyOf(t) \in mapped /\ Compared(t, StepTo(t, "register") /\ torpor_lock' = t /\ UNCHANGED bucket)

\* spin_lock(&torpor_lock) and the authoritative load and compare.
CompareLocked(t) ==
    /\ pc[t] = "lock" /\ torpor_lock = None
    /\ Compared(t, StepTo(t, "register") /\ torpor_lock' = t /\ UNCHANGED bucket)

\* Link at the bucket head, look for a death, drop the lock.
Register(t) ==
    /\ pc[t] = "register"
    /\ torpor_lock' = None
    /\ \/ Dying(t) /\ Return(t, "OK") /\ UNCHANGED bucket
       \/ /\ ~Dying(t) /\ StepTo(t, "sleep")
          /\ bucket' = [bucket EXCEPT ![Hash[KeyOf(t)]] = <<t>> \o @]

\* tsleep_common on w.rendez: the condition, then the deadline, then a stop,
\* then, registered, a death and a caught note.
Tsleep(t) ==
    IF awoken[t] THEN "AWOKEN"
    ELSE IF expired[t] THEN "TIMEDOUT"
    ELSE IF MustPark(t) THEN "park"
    ELSE IF Dying(t) THEN "INTR"
    ELSE IF note[t] THEN "NOTEINTR"
    ELSE "asleep"

\* tsleep returns v: the frame goes on to unlink itself.
Leave(t, v) ==
    /\ pc' = [pc EXCEPT ![t] = "unlink"]
    /\ rc' = [rc EXCEPT ![t] = v]
    /\ UNCHANGED <<waitVars, awoken, expired, note, waits, bucket, torpor_lock>>
    /\ UNCHANGED <<userVars, procVars, walkVars, history>>

Sleep(t) ==
    /\ pc[t] = "sleep"
    /\ \/ /\ Tsleep(t) \in {"asleep", "park"}
          /\ StepTo(t, Tsleep(t)) /\ UNCHANGED <<bucket, torpor_lock>>
       \/ Tsleep(t) \notin {"asleep", "park"} /\ Leave(t, Tsleep(t))

\* MUTANT: the caught-note arm does not ask whether the wait was won.
ResumeNoteFirst(t) ==
    /\ pc[t] = "resume"
    /\ \/ Dying(t) /\ Leave(t, "INTR")
       \/ ~Dying(t) /\ note[t] /\ Leave(t, "NOTEINTR")
       \/ ~Dying(t) /\ ~note[t] /\ StepTo(t, "sleep") /\ UNCHANGED <<bucket, torpor_lock>>

\* After sched(): a death, a caught note on a wait still open, or round again.
Resume(t) ==
    /\ pc[t] = "resume"
    /\ \/ Dying(t) /\ Leave(t, "INTR")
       \/ ~Dying(t) /\ note[t] /\ ~awoken[t] /\ Leave(t, "NOTEINTR")
       \/ /\ ~Dying(t) /\ ~(note[t] /\ ~awoken[t])
          /\ StepTo(t, "sleep") /\ UNCHANGED <<bucket, torpor_lock>>

\* The stop park inside tsleep ends with the stop, or with the group.
Unpark(t) ==
    /\ pc[t] = "park"
    /\ \/ Dying(t) /\ Leave(t, "INTR")
       \/ /\ ~Dying(t) /\ ~MustPark(t)
          /\ StepTo(t, "sleep") /\ UNCHANGED <<bucket, torpor_lock>>

\* A bucket's list without t.
Without(list, t) ==
    IF t \notin Range(list) THEN list
    ELSE LET i == CHOOSE j \in 1..Len(list) : list[j] = t
         IN  SubSeq(list, 1, i - 1) \o SubSeq(list, i + 1, Len(list))

\* MUTANT: a wait ended by a note or a deadline stays linked.
UnlinkOnlyWoken(t) ==
    /\ pc[t] = "unlink" /\ torpor_lock = None
    /\ bucket' = IF rc[t] = "AWOKEN"
                 THEN [bucket EXCEPT ![Hash[KeyOf(t)]] = Without(@, t)]
                 ELSE bucket
    /\ Return(t, IF rc[t] = "TIMEDOUT" THEN "ETIMEDOUT" ELSE IF rc[t] = "NOTEINTR" THEN "EINTR" ELSE "OK")
    /\ UNCHANGED torpor_lock

\* torpor_bucket_unlink_locked, and the result for the caller.
Unlink(t) ==
    /\ pc[t] = "unlink" /\ torpor_lock = None
    /\ bucket' = [bucket EXCEPT ![Hash[KeyOf(t)]] = Without(@, t)]
    /\ Return(t, IF rc[t] = "TIMEDOUT" THEN "ETIMEDOUT" ELSE IF rc[t] = "NOTEINTR" THEN "EINTR" ELSE "OK")
    /\ UNCHANGED torpor_lock

-----------------------------------------------------------------------------
(* What happens to a sleeper from outside                                  *)

\* wakeup(&w->rendez): 1 iff it was registered there.
Wakeup(t) == pc' = IF pc[t] = "asleep" THEN [pc EXCEPT ![t] = "resume"] ELSE pc

InTsleep(t) == pc[t] \in {"sleep", "asleep", "resume", "park"}

Expire(t) ==
    /\ deadline[t] = "later" /\ ~expired[t] /\ InTsleep(t)
    /\ expired' = [expired EXCEPT ![t] = TRUE]
    /\ UNCHANGED <<pc, waitVars, awoken, rc, note, waits, bucket, torpor_lock>>
    /\ UNCHANGED <<userVars, procVars, walkVars, history>>

\* timerwait_tick.
TimerWake(t) ==
    /\ pc[t] = "asleep" /\ expired[t]
    /\ Wakeup(t)
    /\ UNCHANGED <<waitVars, awoken, rc, expired, note, waits, bucket, torpor_lock>>
    /\ UNCHANGED <<userVars, procVars, walkVars, history>>

\* A caught note is posted to t; the poster wakes it.
PostNote(t) ==
    /\ t \in Noted /\ ~note[t] /\ pc[t] # "user"
    /\ note' = [note EXCEPT ![t] = TRUE]
    /\ Wakeup(t)
    /\ UNCHANGED <<waitVars, awoken, rc, expired, waits, bucket, torpor_lock>>
    /\ UNCHANGED <<userVars, procVars, walkVars, history>>

\* Another thread of the Proc unmaps the page of the word.
Unmap(k) ==
    /\ k \in Unmaps \cap mapped
    /\ mapped' = mapped \ {k}
    /\ UNCHANGED <<pc, waitVars, awoken, rc, expired, note, waits, bucket, torpor_lock>>
    /\ UNCHANGED <<word, procVars, walkVars, history>>

-----------------------------------------------------------------------------
(* The walks: sys_torpor_wake_for_proc, torpor_wake_all_for_proc and       *)
(* torpor_stop_wake_all_for_proc                                           *)

\* The producer's store, which its WAKE follows.
Store(u) ==
    /\ u \in Producers /\ wpc[u] = "idle" /\ wakes[u] < MaxWakes
    /\ \E a \in Addrs, v \in {0, 1}, c \in Counts :
          LET k == <<ProcOf[u], a>> IN
          /\ k \in mapped
          /\ word' = [word EXCEPT ![k] = v]
          /\ key' = [key EXCEPT ![u] = k]
          /\ count' = [count EXCEPT ![u] = c]
    /\ wakes' = [wakes EXCEPT ![u] = @ + 1]
    /\ woken' = [woken EXCEPT ![u] = 0]
    /\ wpc' = [wpc EXCEPT ![u] = "call"]
    /\ UNCHANGED <<pc, waitVars, awoken, rc, expired, note, waits, bucket, torpor_lock>>
    /\ UNCHANGED <<mapped, procVars, op, wbkt, rest, cascade, history>>

\* A count of zero is a no-op that does not take the lock.
WakeNone(u) ==
    /\ wpc[u] = "call" /\ op[u] = "wake" /\ count[u] = 0
    /\ wpc' = [wpc EXCEPT ![u] = "idle"]
    /\ UNCHANGED <<pc, waitVars, awoken, rc, expired, note, waits, bucket, torpor_lock>>
    /\ UNCHANGED <<userVars, procVars, op, key, count, wbkt, rest, woken, cascade, wakes, history>>

\* proc_group_terminate, a stop and its resume, under g_proc_table_lock: the
\* flag is published before the walk. A resume has no walk over the buckets.
Begin(what, p) ==
    /\ what \in Controls /\ wpc[Control] = "idle" /\ wakes[Control] < MaxControls
    /\ \/ what = "death" /\ dying' = dying \cup {p} /\ UNCHANGED stopped
       \/ what = "stop" /\ p \notin dying /\ stopped' = stopped \cup {p} /\ UNCHANGED dying
       \/ what = "resume" /\ p \in stopped /\ stopped' = stopped \ {p} /\ UNCHANGED dying
    /\ wpc' = [wpc EXCEPT ![Control] = IF what = "resume" THEN "idle" ELSE "call"]
    /\ op' = [op EXCEPT ![Control] = what]
    /\ key' = [key EXCEPT ![Control] = <<p, CHOOSE a \in Addrs : TRUE>>]
    /\ wakes' = [wakes EXCEPT ![Control] = @ + 1]
    /\ UNCHANGED <<pc, waitVars, awoken, rc, expired, note, waits, bucket, torpor_lock>>
    /\ UNCHANGED <<userVars, count, wbkt, rest, woken, cascade, history>>

\* WAKE walks the bucket of its key, the other two walk them all.
WalkLock(u) ==
    /\ wpc[u] = "call" /\ torpor_lock = None /\ (op[u] = "wake" => count[u] > 0)
    /\ torpor_lock' = u
    /\ LET b == IF op[u] = "wake" THEN Hash[key[u]] ELSE 1 IN
          /\ wbkt' = [wbkt EXCEPT ![u] = b]
          /\ rest' = [rest EXCEPT ![u] = bucket[b]]
    /\ wpc' = [wpc EXCEPT ![u] = "walk"]
    /\ UNCHANGED <<pc, waitVars, awoken, rc, expired, note, waits, bucket>>
    /\ UNCHANGED <<userVars, procVars, op, key, count, woken, cascade, wakes, history>>


\* A waiter the walk is for.
Matches(u, t) ==
    /\ ProcOf[t] = key[u][1]
    /\ op[u] = "wake" => KeyOf(t) = key[u]
    /\ ~awoken[t]

\* The loop condition fails, or there is no further waiter.
WalkDone(u) == rest[u] = <<>> \/ (op[u] = "wake" /\ woken[u] >= count[u])

\* MUTANT: break for continue.
WalkSkipBreaks(u) ==
    /\ wpc[u] = "walk" /\ ~WalkDone(u) /\ ~Matches(u, Head(rest[u]))
    /\ rest' = [rest EXCEPT ![u] = <<>>]
    /\ UNCHANGED <<pc, waitVars, awoken, rc, expired, note, waits, bucket, torpor_lock>>
    /\ UNCHANGED <<userVars, procVars, wpc, op, key, count, wbkt, woken, cascade, wakes, history>>

\* if (...) continue.
WalkSkip(u) ==
    /\ wpc[u] = "walk" /\ ~WalkDone(u) /\ ~Matches(u, Head(rest[u]))
    /\ rest' = [rest EXCEPT ![u] = Tail(@)]
    /\ UNCHANGED <<pc, waitVars, awoken, rc, expired, note, waits, bucket, torpor_lock>>
    /\ UNCHANGED <<userVars, procVars, wpc, op, key, count, wbkt, woken, cascade, wakes, history>>

\* MUTANT: the stop walk completes the waits, as the death walk does.
WalkMarkStopCompletes(u) ==
    /\ wpc[u] = "walk" /\ ~WalkDone(u) /\ Matches(u, Head(rest[u]))
    /\ awoken' = [awoken EXCEPT ![Head(rest[u])] = TRUE]
    /\ marked' = [marked EXCEPT ![Head(rest[u])] = IF op[u] = "wake" THEN u ELSE @]
    /\ wpc' = [wpc EXCEPT ![u] = "wakeup"]
    /\ UNCHANGED <<pc, waitVars, rc, expired, note, waits, bucket, torpor_lock>>
    /\ UNCHANGED <<userVars, procVars, op, key, count, wbkt, rest, woken, cascade, wakes, counted>>

\* awoken = 1, except for a stop, which must not complete the wait.
WalkMark(u) ==
    /\ wpc[u] = "walk" /\ ~WalkDone(u) /\ Matches(u, Head(rest[u]))
    /\ awoken' = [awoken EXCEPT ![Head(rest[u])] = op[u] # "stop"]
    /\ marked' = [marked EXCEPT ![Head(rest[u])] = IF op[u] = "wake" THEN u ELSE @]
    /\ wpc' = [wpc EXCEPT ![u] = "wakeup"]
    /\ UNCHANGED <<pc, waitVars, rc, expired, note, waits, bucket, torpor_lock>>
    /\ UNCHANGED <<userVars, procVars, op, key, count, wbkt, rest, woken, cascade, wakes, counted>>

\* MUTANT: a WAKE takes the mark for the wake and leaves the waiter asleep.
WalkWakeupMarkOnly(u) ==
    /\ wpc[u] = "wakeup"
    /\ LET t == Head(rest[u])  hit == op[u] = "wake" /\ pc[t] = "asleep" IN
       /\ IF hit THEN UNCHANGED pc ELSE Wakeup(t)
       /\ woken' = [woken EXCEPT ![u] = IF hit THEN @ + 1 ELSE @]
       /\ counted' = [counted EXCEPT ![t] = @ \/ hit]
    /\ rest' = [rest EXCEPT ![u] = Tail(@)]
    /\ wpc' = [wpc EXCEPT ![u] = "walk"]
    /\ UNCHANGED <<waitVars, awoken, rc, expired, note, waits, bucket, torpor_lock>>
    /\ UNCHANGED <<userVars, procVars, op, key, count, wbkt, cascade, wakes, marked>>

\* if (wakeup(&w->rendez)) woken++.
WalkWakeup(u) ==
    /\ wpc[u] = "wakeup"
    /\ LET t == Head(rest[u])  hit == op[u] = "wake" /\ pc[t] = "asleep" IN
       /\ Wakeup(t)
       /\ woken' = [woken EXCEPT ![u] = IF hit THEN @ + 1 ELSE @]
       /\ counted' = [counted EXCEPT ![t] = @ \/ hit]
    /\ rest' = [rest EXCEPT ![u] = Tail(@)]
    /\ wpc' = [wpc EXCEPT ![u] = "walk"]
    /\ UNCHANGED <<waitVars, awoken, rc, expired, note, waits, bucket, torpor_lock>>
    /\ UNCHANGED <<userVars, procVars, op, key, count, wbkt, cascade, wakes, marked>>

\* The outer loop of the two walks over every bucket.
WalkNext(u) ==
    /\ wpc[u] = "walk" /\ op[u] # "wake" /\ rest[u] = <<>> /\ wbkt[u] < NBuckets
    /\ wbkt' = [wbkt EXCEPT ![u] = @ + 1]
    /\ rest' = [rest EXCEPT ![u] = bucket[wbkt[u] + 1]]
    /\ UNCHANGED <<pc, waitVars, awoken, rc, expired, note, waits, bucket, torpor_lock>>
    /\ UNCHANGED <<userVars, procVars, wpc, op, key, count, woken, cascade, wakes, history>>

\* Drop the lock; the two other walks go on to p->threads.
WalkUnlock(u) ==
    /\ wpc[u] = "walk" /\ WalkDone(u) /\ (op[u] = "wake" \/ wbkt[u] = NBuckets)
    /\ torpor_lock' = None
    /\ rest' = [rest EXCEPT ![u] = <<>>]
    /\ wpc' = [wpc EXCEPT ![u] = IF op[u] = "wake" THEN "idle" ELSE "cascade"]
    /\ cascade' = [cascade EXCEPT ![u] = IF op[u] = "wake" THEN {}
                                         ELSE {t \in Waiters : ProcOf[t] = key[u][1]}]
    /\ UNCHANGED <<pc, waitVars, awoken, rc, expired, note, waits, bucket>>
    /\ UNCHANGED <<userVars, procVars, op, key, count, wbkt, woken, wakes, history>>

\* wakeup(peer->rendez_blocked_on) under the peer's wait_lock.
Cascade(u, t) ==
    /\ wpc[u] = "cascade" /\ t \in cascade[u]
    /\ Wakeup(t)
    /\ cascade' = [cascade EXCEPT ![u] = @ \ {t}]
    /\ UNCHANGED <<waitVars, awoken, rc, expired, note, waits, bucket, torpor_lock>>
    /\ UNCHANGED <<userVars, procVars, wpc, op, key, count, wbkt, rest, woken, wakes, history>>

CascadeEnd(u) ==
    /\ wpc[u] = "cascade" /\ cascade[u] = {}
    /\ wpc' = [wpc EXCEPT ![u] = "idle"]
    /\ UNCHANGED <<pc, waitVars, awoken, rc, expired, note, waits, bucket, torpor_lock>>
    /\ UNCHANGED <<userVars, procVars, op, key, count, wbkt, rest, woken, cascade, wakes, history>>

-----------------------------------------------------------------------------
WaiterStep(t) ==
    \/ Compare(t) \/ CompareLocked(t) \/ Register(t) \/ Sleep(t)
    \/ Resume(t) \/ Unpark(t) \/ Unlink(t) \/ TimerWake(t)

WalkStep(u) ==
    \/ WakeNone(u) \/ WalkLock(u) \/ WalkSkip(u) \/ WalkMark(u) \/ WalkWakeup(u)
    \/ WalkNext(u) \/ WalkUnlock(u) \/ CascadeEnd(u)
    \/ \E t \in Waiters : Cascade(u, t)

Next ==
    \/ \E t \in Waiters : WaiterStep(t) \/ Wait(t) \/ Expire(t) \/ PostNote(t)
    \/ \E u \in Wakers : WalkStep(u) \/ Store(u)
    \/ \E what \in {"death", "stop", "resume"}, p \in Procs : Begin(what, p)
    \/ \E k \in Keys : Unmap(k)

Spec == Init /\ [][Next]_vars

\* Kernel code that can run does run, the tick keeps coming and time passes.
FairSpec ==
    /\ Spec
    /\ \A t \in Waiters : WF_vars(WaiterStep(t)) /\ WF_vars(Expire(t))
    /\ \A u \in Wakers : WF_vars(WalkStep(u))

-----------------------------------------------------------------------------
(* Properties                                                              *)

Linked(t) == \E b \in 1..NBuckets : t \in Range(bucket[b])
InWalk(u) == wpc[u] \in {"walk", "wakeup"}
Ahead(u, t) == t \in Range(rest[u])

\* Every variable has its type, and a caller only ever sees a TORPOR_* code.
TypeOK ==
    /\ pc \in [Waiters -> {"user", "compare", "lock", "register", "sleep", "asleep",
                           "resume", "park", "unlink"}]
    /\ addr \in [Waiters -> Addrs]
    /\ rc \in [Waiters -> {"OK", "EFAULT", "ETIMEDOUT", "EINTR",
                           "AWOKEN", "TIMEDOUT", "INTR", "NOTEINTR"}]
    /\ \A t \in Waiters : pc[t] = "user" => rc[t] \in {"OK", "EFAULT", "ETIMEDOUT", "EINTR"}
    /\ bucket \in [1..NBuckets -> Seq(Waiters)]
    /\ torpor_lock \in Waiters \cup Wakers \cup {None}
    /\ word \in [Keys -> {0, 1}]
    /\ wpc \in [Wakers -> {"idle", "call", "walk", "wakeup", "cascade"}]
    /\ \A u \in Wakers : rest[u] \in Seq(Waiters) /\ woken[u] \in Nat

\* A waiter's frame is in its own bucket, once, exactly while the call is
\* between registering and unlinking, and a walk only ever holds on to frames
\* that are still linked: no pointer outlives the stack it points into. (With
\* the types.)
FramesLive ==
    /\ TypeOK
    /\ \A t \in Waiters : Linked(t) <=> pc[t] \in {"sleep", "asleep", "resume", "park", "unlink"}
    /\ \A b \in 1..NBuckets :
          IsInjective(bucket[b]) /\ \A t \in Range(bucket[b]) : Hash[KeyOf(t)] = b
    /\ \A u \in Wakers, t \in Waiters : InWalk(u) /\ Ahead(u, t) => Linked(t)

\* u has stored to t's word and its WAKE has not yet gone past t.
StillToWake(u, t) ==
    /\ op[u] = "wake" /\ key[u] = KeyOf(t)
    /\ wpc[u] = "call" \/ (InWalk(u) /\ Ahead(u, t))

\* I-9 for wait-on-address: when every WAKE is a broadcast, a thread never
\* sleeps on a word that no longer has the value it waited on, unless the WAKE
\* that follows a store is still on its way to it.
NoLostWake ==
    \A t \in Waiters :
        pc[t] = "asleep" /\ Mismatch(t) /\ ~awoken[t] => \E u \in Producers : StillToWake(u, t)

\* A waiter that a WAKE counted as woken returns 0: neither the deadline nor a
\* caught note takes a counted wake away (only a death may).
CountedWakeReturnsOk ==
    \A t \in Waiters : counted[t] /\ pc[t] = "user" => rc[t] = "OK"

\* A WAKE that returns less than its count left nobody waiting behind: every
\* waiter on the key has been released by someone.
WakeExhausts ==
    [][\A u \in Producers :
          wpc[u] = "walk" /\ wpc'[u] = "idle" /\ woken[u] < count[u] =>
              \A t \in Waiters : Linked(t) /\ KeyOf(t) = key[u] => awoken[t]]_vars

\* A wait ends as woken only by a WAKE of its own Proc on its own word, or with
\* the Proc dying: not by a WAKE in another Proc at the same address, not by a
\* stop and its resume.
NoForgedWake ==
    \A t \in Waiters :
        pc[t] = "unlink" /\ rc[t] = "AWOKEN" =>
            Dying(t) \/ (marked[t] # None /\ ProcOf[marked[t]] = ProcOf[t])

\* torpor.h: "wake up to `count` waiters": a WAKE releases no more.
WakesAtMostCount ==
    \A u \in Producers : wpc[u] # "call" =>
        Cardinality({t \in Waiters : marked[t] = u /\ Linked(t)}) <= count[u]

\* A wait with a deadline returns, unless its Proc is stopped.
WaitEnds ==
    \A t \in Waiters : (InTsleep(t) /\ deadline[t] # "none") ~> (pc[t] = "user" \/ MustPark(t))

\* A wait of a dying Proc returns, however it was blocked.
DeathEnds == \A t \in Waiters : InTsleep(t) /\ Dying(t) ~> pc[t] = "user"

\* Every WAKE, death walk and stop walk returns: nobody keeps torpor_lock.
WalksEnd == \A u \in Wakers : wpc[u] # "idle" ~> wpc[u] = "idle"

\* A broadcast WAKE after a store ends every wait on the word.
BroadcastReleases ==
    \A t \in Waiters :
        (pc[t] = "asleep" /\ Mismatch(t)) ~> (pc[t] = "user" \/ MustPark(t) \/ ~Mismatch(t))

\* A wait ends: by its deadline, by a death and by a broadcast.
WaitsEnd == WaitEnds /\ DeathEnds /\ BroadcastReleases

=============================================================================
