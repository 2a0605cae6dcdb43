----------------------------- MODULE PipeProofs -----------------------------
(***************************************************************************)
(* The safety of the pipe for any number of readers and writers, any ring  *)
(* size and any byte counts: no waiter is left asleep, no hook outlives    *)
(* its frame, the ring is freed once, after everybody has left it, and the *)
(* ring is a bounded FIFO.                                                 *)
(***************************************************************************)
EXTENDS Pipe, SequenceTheorems, TLAPS

Waiting == {"block", "asleep", "resume"}
Leaving == {"unhook", "unhook intr"}

\* The ring's indices.
RingInv ==
    /\ count \in 0..Capacity /\ head \in 0..Capacity - 1 /\ tail \in 0..Capacity - 1
    /\ head = (tail + count) % Capacity

\* The types of the rest, arguments included: a thread in its call has a size
\* and a mode of its kind.
Types ==
    /\ hooks \subseteq Threads /\ list_lock \in Actors \cup {None}
    /\ pc \in [Actors -> {"user", "sample", "block", "asleep", "resume", "unhook", "unhook intr",
                          "wake", "walk", "drop", "closed"}]
    /\ todo \in [Actors -> SUBSET Threads]
    /\ n \in [Threads -> Nat] /\ mode \in [Threads -> {"block", "nonblock", "frame"}]

Flags ==
    /\ read_eof \in BOOLEAN /\ write_eof \in BOOLEAN /\ freed \in BOOLEAN
    /\ ready \in [Threads -> BOOLEAN]

\* Who can be where: an operation holds its end open, and so does a hangup.
RoleInv ==
    /\ \A t \in Threads : /\ pc[t] \notin {"drop", "closed"}
                          /\ pc[t] # "user" => pc[EndOf(t)] = "user"
                          /\ pc[t] = "sample" \/ pc[t] \in Waiting \/ pc[t] \in Leaving =>
                                n[t] \in IF t \in Readers THEN ReadSizes ELSE Sizes
    /\ \A x \in Closers : pc[x] \in {"user", "wake", "walk", "drop", "closed"}
    /\ pc[Hangup] # "drop"
    /\ pc[Hangup] \in {"wake", "walk"} => pc[WriteEnd] = "user"

\* A walk holds the list's lock, and only a walk has hooks to visit.
LockInv ==
    /\ \A x \in Actors : pc[x] = "walk" <=> list_lock = x
    /\ \A x \in Actors : pc[x] # "walk" => todo[x] = {}

\* Each end that is not closed holds a reference.
RefInv ==
    /\ \/ ref = 2 /\ pc[ReadEnd] # "closed" /\ pc[WriteEnd] # "closed"
       \/ ref = 1 /\ pc[ReadEnd] = "closed" /\ pc[WriteEnd] # "closed"
       \/ ref = 1 /\ pc[ReadEnd] # "closed" /\ pc[WriteEnd] = "closed"
       \/ ref = 0 /\ pc[ReadEnd] = "closed" /\ pc[WriteEnd] = "closed"
    /\ freed <=> ref = 0

\* A waiter that could go on has been flagged, or a walk will flag it.
WaitInv ==
    \A t \in Threads :
        /\ pc[t] = "asleep" => ~ready[t]
        /\ pc[t] \in Waiting /\ CanGo(t) => ready[t] \/ WakeDue(t)

\* The inductive invariant.
PipeInv ==
    RingInv /\ Types /\ Flags /\ RoleInv /\ LockInv /\ HooksLive /\ RefInv /\ WaitInv

\* Whoever waits and whoever walks: the parts of the state that WaitInv reads.
LEMMA CanGoKept ==
    ASSUME NEW s \in Threads, n'[s] = n[s], mode'[s] = mode[s], UNCHANGED <<count, read_eof, write_eof>>
    PROVE  CanGo(s)' <=> CanGo(s)
BY Zenon DEF CanGo, Fits

\* A wake that is due stays due while its walker does something else.
LEMMA WakeDueKept ==
    ASSUME Types, NEW s \in Threads, NEW x \in Actors, NEW v,
           pc' = [pc EXCEPT ![x] = v], pc[x] \notin {"wake", "walk"}, todo' = todo
    PROVE  WakeDue(s) => WakeDue(s)'
BY Zenon DEF Types, WakeDue

\* The facts about the constants that the steps use.
LEMMA Apart ==
    /\ \A t \in Threads : t \in Actors /\ t \notin Closers /\ EndOf(t) \in {ReadEnd, WriteEnd}
    /\ ReadEnd \notin Threads /\ WriteEnd \notin Threads /\ Hangup \notin Threads
    /\ ReadEnd \in Actors /\ WriteEnd \in Actors /\ Hangup \in Actors
    /\ ReadEnd # WriteEnd /\ Hangup # ReadEnd /\ Hangup # WriteEnd
    /\ None \notin Actors
BY Zenon, PipeAssumption DEF Actors, Closers, EndOf

\* A call returns without having changed the ring.
LEMMA FinishStep ==
    ASSUME PipeInv, NEW t \in Threads, NEW o, pc[t] = "sample", Finish(t, o), UNCHANGED sampleRest
    PROVE  PipeInv'
<1>1. /\ pc' = [pc EXCEPT ![t] = "user"] /\ n' = [n EXCEPT ![t] = 0] /\ mode' = [mode EXCEPT ![t] = "block"]
      /\ UNCHANGED <<read_eof, write_eof, ref, freed, list_lock, todo, buf, count, head, tail, hooks, ready>>
  BY Zenon DEF Finish, Return, sampleRest, ringVars
<1>c. \A x \in Closers : pc'[x] = pc[x]  BY Zenon, <1>1, Apart DEF PipeInv, Types, Actors
<1>2. RingInv'  BY Zenon, <1>1 DEF PipeInv, RingInv
<1>3. Types'  BY Zenon, <1>1, Apart DEF PipeInv, Types
<1>4. Flags'  BY Zenon, <1>1, Apart DEF PipeInv, Flags, Types
<1>5. RoleInv'
  <2>1. ASSUME NEW s \in Threads
        PROVE  /\ pc'[s] \notin {"drop", "closed"}
               /\ pc'[s] # "user" => pc'[EndOf(s)] = "user"
               /\ pc'[s] = "sample" \/ pc'[s] \in Waiting \/ pc'[s] \in Leaving =>
                     n'[s] \in IF s \in Readers THEN ReadSizes ELSE Sizes
    <3>1. CASE s = t  BY Zenon, <1>1, <1>c, <3>1, Apart DEF PipeInv, Types, RoleInv, Closers, Waiting, Leaving
    <3>2. CASE s # t
      <4>1. pc'[s] = pc[s] /\ n'[s] = n[s]  BY Zenon, <1>1, <3>2, Apart DEF PipeInv, Types
      <4> QED BY Zenon, <1>c, <4>1, Apart DEF PipeInv, RoleInv, Closers
    <3> QED BY Zenon, <3>1, <3>2
  <2>2. (/\ \A x \in Closers : pc[x] \in {"user", "wake", "walk", "drop", "closed"}
         /\ pc[Hangup] # "drop"
         /\ pc[Hangup] \in {"wake", "walk"} => pc[WriteEnd] = "user")'
    BY Zenon, <1>c DEF PipeInv, RoleInv, Closers
  <2> QED BY Zenon, <2>1, <2>2 DEF RoleInv
<1>6. LockInv'  BY Zenon, <1>1, Apart DEF PipeInv, Types, LockInv
<1>7. HooksLive'  BY ZenonT(30), <1>1, Apart DEF PipeInv, Types, LockInv, HooksLive
<1>8. RefInv'
  <2>0. freed <=> ref = 0  BY Zenon DEF PipeInv, RefInv
  <2>1. ref' = ref /\ freed' = freed /\ pc'[ReadEnd] = pc[ReadEnd] /\ pc'[WriteEnd] = pc[WriteEnd]
    BY Zenon, <1>1, <1>c DEF Closers
  <2>2. (freed <=> ref = 0)'  BY Zenon, <2>0, <2>1
  <2> QED BY Zenon, <2>1, <2>2 DEF PipeInv, RefInv
<1>9. WaitInv'
  <2> SUFFICES ASSUME NEW s \in Threads
               PROVE  /\ pc'[s] = "asleep" => ~ready'[s]
                      /\ pc'[s] \in Waiting /\ CanGo(s)' => ready'[s] \/ WakeDue(s)'
    BY Zenon DEF WaitInv
  <2>1. CASE s = t  BY Zenon, <1>1, <2>1, Apart DEF PipeInv, Types, Waiting
  <2>2. CASE s # t
    <3>1. pc'[s] = pc[s] /\ (ready'[s] <=> ready[s])  BY Zenon, <1>1, <2>2, Apart DEF PipeInv, Types
    <3>2. CanGo(s)' <=> CanGo(s)  BY Zenon, <1>1, <2>2, CanGoKept DEF PipeInv, Types
    <3>3. WakeDue(s) => WakeDue(s)'  BY Zenon, <1>1, WakeDueKept, Apart DEF PipeInv
    <3> QED BY Zenon, <3>1, <3>2, <3>3 DEF PipeInv, WaitInv
  <2> QED BY Zenon, <2>1, <2>2
<1> QED BY Zenon, <1>2, <1>3, <1>4, <1>5, <1>6, <1>7, <1>8, <1>9 DEF PipeInv

\* The ring has changed: its lock is dropped with the walk to follow.
LEMMA CommitStep ==
    ASSUME PipeInv, NEW t \in Threads, NEW o, pc[t] = "sample", RingInv', Commit(t, o), UNCHANGED sampleRest
    PROVE  PipeInv'
<1>1. /\ pc' = [pc EXCEPT ![t] = "wake"] /\ n' = [n EXCEPT ![t] = 0] /\ mode' = [mode EXCEPT ![t] = "block"]
      /\ UNCHANGED <<read_eof, write_eof, ref, freed, list_lock, todo, hooks, ready>>
  BY Zenon DEF Commit, Return, sampleRest
<1>c. \A x \in Closers : pc'[x] = pc[x]  BY Zenon, <1>1, Apart DEF PipeInv, Types, Actors
<1>2. RingInv'  BY Zenon
<1>3. Types'  BY Zenon, <1>1, Apart DEF PipeInv, Types
<1>4. Flags'  BY Zenon, <1>1, Apart DEF PipeInv, Flags, Types
<1>5. RoleInv'
  <2>1. ASSUME NEW s \in Threads
        PROVE  /\ pc'[s] \notin {"drop", "closed"}
               /\ pc'[s] # "user" => pc'[EndOf(s)] = "user"
               /\ pc'[s] = "sample" \/ pc'[s] \in Waiting \/ pc'[s] \in Leaving =>
                     n'[s] \in IF s \in Readers THEN ReadSizes ELSE Sizes
    <3>1. CASE s = t  BY Zenon, <1>1, <1>c, <3>1, Apart DEF PipeInv, Types, RoleInv, Closers, Waiting, Leaving
    <3>2. CASE s # t
      <4>1. pc'[s] = pc[s] /\ n'[s] = n[s]  BY Zenon, <1>1, <3>2, Apart DEF PipeInv, Types
      <4> QED BY Zenon, <1>c, <4>1, Apart DEF PipeInv, RoleInv, Closers
    <3> QED BY Zenon, <3>1, <3>2
  <2>2. (/\ \A x \in Closers : pc[x] \in {"user", "wake", "walk", "drop", "closed"}
         /\ pc[Hangup] # "drop"
         /\ pc[Hangup] \in {"wake", "walk"} => pc[WriteEnd] = "user")'
    BY Zenon, <1>c DEF PipeInv, RoleInv, Closers
  <2> QED BY Zenon, <2>1, <2>2 DEF RoleInv
<1>6. LockInv'  BY Zenon, <1>1, Apart DEF PipeInv, Types, LockInv
<1>7. HooksLive'  BY Zenon, <1>1, Apart DEF PipeInv, Types, LockInv, HooksLive
<1>8. RefInv'
  <2>0. freed <=> ref = 0  BY Zenon DEF PipeInv, RefInv
  <2>1. ref' = ref /\ freed' = freed /\ pc'[ReadEnd] = pc[ReadEnd] /\ pc'[WriteEnd] = pc[WriteEnd]
    BY Zenon, <1>1, <1>c DEF Closers
  <2>2. (freed <=> ref = 0)'  BY Zenon, <2>0, <2>1
  <2> QED BY Zenon, <2>1, <2>2 DEF PipeInv, RefInv
<1>9. WaitInv'
  <2> SUFFICES ASSUME NEW s \in Threads
               PROVE  /\ pc'[s] = "asleep" => ~ready'[s]
                      /\ pc'[s] \in Waiting /\ CanGo(s)' => ready'[s] \/ WakeDue(s)'
    BY Zenon DEF WaitInv
  <2>1. WakeDue(s)'  BY Zenon, <1>1, Apart DEF PipeInv, Types, WakeDue
  <2>2. pc'[s] = "asleep" => s # t /\ pc[s] = "asleep"  BY Zenon, <1>1, Apart DEF PipeInv, Types
  <2> QED BY Zenon, <1>1, <2>1, <2>2 DEF PipeInv, WaitInv
<1> QED BY Zenon, <1>2, <1>3, <1>4, <1>5, <1>6, <1>7, <1>8, <1>9 DEF PipeInv

\* The caller must wait: its hook goes on the list.
LEMMA BlockStep ==
    ASSUME PipeInv, NEW t \in Threads, pc[t] = "sample", ~CanGo(t), Block(t), UNCHANGED sampleRest
    PROVE  PipeInv'
<1>1. /\ pc' = [pc EXCEPT ![t] = "block"] /\ list_lock = None /\ hooks' = hooks \cup {t}
      /\ ready' = [ready EXCEPT ![t] = FALSE]
      /\ UNCHANGED <<read_eof, write_eof, ref, freed, list_lock, todo, buf, count, head, tail, n, mode>>
  BY Zenon DEF Block, sampleRest, ringVars
<1>c. \A x \in Closers : pc'[x] = pc[x]  BY Zenon, <1>1, Apart DEF PipeInv, Types, Actors
<1>2. RingInv'  BY Zenon, <1>1 DEF PipeInv, RingInv
<1>3. Types'  BY Zenon, <1>1, Apart DEF PipeInv, Types
<1>4. Flags'  BY Zenon, <1>1, Apart DEF PipeInv, Flags, Types
<1>5. RoleInv'
  <2>1. ASSUME NEW s \in Threads
        PROVE  /\ pc'[s] \notin {"drop", "closed"}
               /\ pc'[s] # "user" => pc'[EndOf(s)] = "user"
               /\ pc'[s] = "sample" \/ pc'[s] \in Waiting \/ pc'[s] \in Leaving =>
                     n'[s] \in IF s \in Readers THEN ReadSizes ELSE Sizes
    <3>1. CASE s = t  BY Zenon, <1>1, <1>c, <3>1, Apart DEF PipeInv, Types, RoleInv, Closers, Waiting, Leaving
    <3>2. CASE s # t
      <4>1. pc'[s] = pc[s] /\ n'[s] = n[s]  BY Zenon, <1>1, <3>2, Apart DEF PipeInv, Types
      <4> QED BY Zenon, <1>c, <4>1, Apart DEF PipeInv, RoleInv, Closers
    <3> QED BY Zenon, <3>1, <3>2
  <2>2. (/\ \A x \in Closers : pc[x] \in {"user", "wake", "walk", "drop", "closed"}
         /\ pc[Hangup] # "drop"
         /\ pc[Hangup] \in {"wake", "walk"} => pc[WriteEnd] = "user")'
    BY Zenon, <1>c DEF PipeInv, RoleInv, Closers
  <2> QED BY Zenon, <2>1, <2>2 DEF RoleInv
<1>6. LockInv'  BY Zenon, <1>1, Apart DEF PipeInv, Types, LockInv
<1>7. HooksLive'
  <2>1. \A x \in Actors : todo[x] = {}  BY Zenon, <1>1, Apart DEF PipeInv, LockInv
  <2>2. ASSUME NEW s \in Threads PROVE s \in hooks' <=> pc'[s] \in {"block", "asleep", "resume", "unhook", "unhook intr"}
    BY Zenon, <1>1, <2>2, Apart DEF PipeInv, Types, HooksLive
  <2> QED BY ZenonT(30), <1>1, <2>1, <2>2 DEF HooksLive, PipeInv, Types
<1>8. RefInv'
  <2>0. freed <=> ref = 0  BY Zenon DEF PipeInv, RefInv
  <2>1. ref' = ref /\ freed' = freed /\ pc'[ReadEnd] = pc[ReadEnd] /\ pc'[WriteEnd] = pc[WriteEnd]
    BY Zenon, <1>1, <1>c DEF Closers
  <2>2. (freed <=> ref = 0)'  BY Zenon, <2>0, <2>1
  <2> QED BY Zenon, <2>1, <2>2 DEF PipeInv, RefInv
<1>9. WaitInv'
  <2> SUFFICES ASSUME NEW s \in Threads
               PROVE  /\ pc'[s] = "asleep" => ~ready'[s]
                      /\ pc'[s] \in Waiting /\ CanGo(s)' => ready'[s] \/ WakeDue(s)'
    BY Zenon DEF WaitInv
  <2>1. CASE s = t
    <3>1. ~CanGo(s)'  BY Zenon, <1>1, <2>1, CanGoKept
    <3> QED BY Zenon, <1>1, <2>1, <3>1, Apart DEF PipeInv, Types
  <2>2. CASE s # t
    <3>1. pc'[s] = pc[s] /\ (ready'[s] <=> ready[s])  BY Zenon, <1>1, <2>2, Apart DEF PipeInv, Types, Flags
    <3>2. CanGo(s)' <=> CanGo(s)  BY Zenon, <1>1, <2>2, CanGoKept DEF PipeInv, Types
    <3>3. WakeDue(s) => WakeDue(s)'  BY Zenon, <1>1, WakeDueKept, Apart DEF PipeInv
    <3> QED BY Zenon, <3>1, <3>2, <3>3 DEF PipeInv, WaitInv
  <2> QED BY Zenon, <2>1, <2>2
<1> QED BY Zenon, <1>2, <1>3, <1>4, <1>5, <1>6, <1>7, <1>8, <1>9 DEF PipeInv

\* A step that leaves alone everything the invariant speaks of.
LEMMA StutterStep ==
    ASSUME PipeInv, UNCHANGED <<ringVars, read_eof, write_eof, ref, freed, list_lock, todo, n, mode, hooks, ready, pc>>
    PROVE  PipeInv'
<1>1. UNCHANGED <<buf, count, head, tail, read_eof, write_eof, ref, freed, list_lock, todo, n, mode, hooks, ready, pc>>
  BY Zenon DEF ringVars
<1>2. RingInv'  BY Zenon, <1>1 DEF PipeInv, RingInv
<1>3. Types'  BY Zenon, <1>1 DEF PipeInv, Types
<1>4. Flags'  BY Zenon DEF PipeInv, Flags
<1>5. RoleInv'  BY Zenon DEF PipeInv, RoleInv
<1>6. LockInv'  BY Zenon DEF PipeInv, LockInv
<1>7. HooksLive'  BY Zenon, <1>1 DEF PipeInv, HooksLive
<1>8. RefInv'
  <2>1. (freed <=> ref = 0) /\ freed' = freed /\ ref' = ref  BY Zenon DEF PipeInv, RefInv
  <2>2. (freed <=> ref = 0)'  BY Zenon, <2>1
  <2> QED BY Zenon, <1>1, <2>2 DEF PipeInv, RefInv
<1>9. WaitInv'  BY <1>1 DEF PipeInv, WaitInv, CanGo, WakeDue, Fits
<1> QED BY Zenon, <1>2, <1>3, <1>4, <1>5, <1>6, <1>7, <1>8, <1>9 DEF PipeInv

\* A waiter moves on in sleep_noteintr, or is interrupted there.
LEMMA WaitStep ==
    ASSUME PipeInv, NEW t \in Threads, pc[t] \in Waiting,
           NEW v \in Waiting \cup Leaving, v = "asleep" => ~ready[t],
           pc' = [pc EXCEPT ![t] = v], UNCHANGED <<ringVars, read_eof, write_eof, ref, freed, list_lock, todo, n, mode, hooks, ready>>
    PROVE  PipeInv'
<1>1. /\ pc' = [pc EXCEPT ![t] = v] /\ pc[t] \in {"block", "asleep", "resume"}
      /\ v \in {"block", "asleep", "resume", "unhook", "unhook intr"}
      /\ UNCHANGED <<read_eof, write_eof, ref, freed, list_lock, todo, buf, count, head, tail, n, mode, hooks, ready>>
  BY Zenon DEF Waiting, Leaving, ringVars
<1>c. \A x \in Closers : pc'[x] = pc[x]  BY Zenon, <1>1, Apart DEF PipeInv, Types, Actors, Flags
<1>2. RingInv'  BY Zenon, <1>1, Apart DEF PipeInv, RingInv
<1>3. Types'
  <2>1. pc' \in [Actors -> {"user", "sample", "block", "asleep", "resume", "unhook", "unhook intr",
                            "wake", "walk", "drop", "closed"}]
    BY Zenon, <1>1 DEF PipeInv, Types
  <2> QED BY Zenon, <1>1, <2>1 DEF PipeInv, Types
<1>4. Flags'  BY Zenon, <1>1, Apart DEF PipeInv, Flags, Types
<1>5. RoleInv'
  <2>1. ASSUME NEW s \in Threads
        PROVE  /\ pc'[s] \notin {"drop", "closed"}
               /\ pc'[s] # "user" => pc'[EndOf(s)] = "user"
               /\ pc'[s] = "sample" \/ pc'[s] \in Waiting \/ pc'[s] \in Leaving =>
                     n'[s] \in IF s \in Readers THEN ReadSizes ELSE Sizes
    <3>1. CASE s = t  BY Zenon, <1>1, <1>c, <3>1, Apart DEF PipeInv, Types, RoleInv, Closers, Waiting, Leaving
    <3>2. CASE s # t
      <4>1. pc'[s] = pc[s] /\ n'[s] = n[s]  BY Zenon, <1>1, <3>2, Apart DEF PipeInv, Types
      <4> QED BY <1>c, <4>1, Apart DEF PipeInv, RoleInv
    <3> QED BY Zenon, <3>1, <3>2
  <2>2. (/\ \A x \in Closers : pc[x] \in {"user", "wake", "walk", "drop", "closed"}
         /\ pc[Hangup] # "drop"
         /\ pc[Hangup] \in {"wake", "walk"} => pc[WriteEnd] = "user")'
    BY Zenon, <1>c DEF PipeInv, RoleInv, Closers
  <2> QED BY Zenon, <2>1, <2>2 DEF RoleInv
<1>6. LockInv'
  <2>1. \A x \in Actors : pc'[x] = "walk" <=> pc[x] = "walk"  BY Zenon, <1>1, Apart DEF PipeInv, Types
  <2> QED BY Zenon, <1>1, <2>1 DEF PipeInv, LockInv
<1>7. HooksLive'
  <2>1. ASSUME NEW s \in Threads PROVE s \in hooks' <=> pc'[s] \in {"block", "asleep", "resume", "unhook", "unhook intr"}
    BY Zenon, <1>1, Apart DEF PipeInv, Types, HooksLive, Waiting, Leaving
  <2> QED BY Zenon, <1>1, <2>1 DEF HooksLive, PipeInv, Types
<1>8. RefInv'
  <2>0. freed <=> ref = 0  BY Zenon DEF PipeInv, RefInv
  <2>1. ref' = ref /\ freed' = freed /\ pc'[ReadEnd] = pc[ReadEnd] /\ pc'[WriteEnd] = pc[WriteEnd]
    BY Zenon, <1>1, <1>c DEF Closers
  <2>2. (freed <=> ref = 0)'  BY Zenon, <2>0
  <2> QED BY Zenon, <2>1, <2>2 DEF PipeInv, RefInv
<1>9. WaitInv'
  <2> SUFFICES ASSUME NEW s \in Threads
               PROVE  /\ pc'[s] = "asleep" => ~ready'[s]
                      /\ pc'[s] \in Waiting /\ CanGo(s)' => ready'[s] \/ WakeDue(s)'
    BY Zenon DEF WaitInv
  <2>1. CASE s = t
    <3>1. CanGo(s)' <=> CanGo(s)  BY Zenon, <1>1, CanGoKept
    <3>2. WakeDue(s) => WakeDue(s)'  BY Zenon, <1>1, WakeDueKept, Apart DEF PipeInv
    <3>3. pc'[s] = v /\ (ready'[s] <=> ready[s])  BY Zenon, <1>1, <2>1, Apart DEF PipeInv, Types
    <3> QED BY Zenon, <2>1, <3>1, <3>2, <3>3 DEF PipeInv, WaitInv
  <2>2. CASE s # t
    <3>1. pc'[s] = pc[s] /\ (ready'[s] <=> ready[s])  BY Zenon, <1>1, <2>2, Apart DEF PipeInv, Types
    <3>2. CanGo(s)' <=> CanGo(s)  BY Zenon, <1>1, <2>2, CanGoKept DEF PipeInv, Types
    <3>3. WakeDue(s) => WakeDue(s)'  BY Zenon, <1>1, WakeDueKept, Apart DEF PipeInv
    <3> QED BY Zenon, <3>1, <3>2, <3>3 DEF PipeInv, WaitInv
  <2> QED BY Zenon, <2>1, <2>2
<1> QED BY Zenon, <1>2, <1>3, <1>4, <1>5, <1>6, <1>7, <1>8, <1>9 DEF PipeInv

\* The hook comes off the list: poll_waiter_list_unregister.
LEMMA UnhookStep ==
    ASSUME PipeInv, NEW t \in Threads, Unhook(t)
    PROVE  PipeInv'
<1>1. /\ pc[t] \in {"unhook", "unhook intr"} /\ list_lock = None /\ hooks' = hooks \ {t}
      /\ \/ pc' = [pc EXCEPT ![t] = "sample"] /\ UNCHANGED <<n, mode>>
         \/ pc' = [pc EXCEPT ![t] = "user"] /\ n' = [n EXCEPT ![t] = 0] /\ mode' = [mode EXCEPT ![t] = "block"]
      /\ ready' = [ready EXCEPT ![t] = FALSE]
      /\ UNCHANGED <<read_eof, write_eof, ref, freed, list_lock, todo, buf, count, head, tail>>
  BY Zenon DEF Unhook, AfterWait, Return, blockRest, ringVars
<1>c. \A x \in Closers : pc'[x] = pc[x]  BY ZenonT(40), <1>1, Apart DEF PipeInv, Types, Actors
<1>2. RingInv'  BY Zenon, <1>1, Apart DEF PipeInv, RingInv
<1>3. Types'
  <2>1. pc' \in [Actors -> {"user", "sample", "block", "asleep", "resume", "unhook", "unhook intr",
                           "wake", "walk", "drop", "closed"}]
    BY Zenon, <1>1, Apart DEF PipeInv, Types
  <2>2. n' = n \/ n' = [n EXCEPT ![t] = 0]  BY Zenon, <1>1
  <2>3. mode' = mode \/ mode' = [mode EXCEPT ![t] = "block"]  BY Zenon, <1>1
  <2>4. n' \in [Threads -> Nat]
    <3>1. n \in [Threads -> Nat]  BY Zenon DEF PipeInv, Types
    <3> QED BY <2>2, <3>1
  <2>5. mode' \in [Threads -> {"block", "nonblock", "frame"}]  BY Zenon, <2>3 DEF PipeInv, Types
  <2> QED BY Zenon, <1>1, <2>1, <2>4, <2>5 DEF PipeInv, Types
<1>4. Flags'  BY Zenon, <1>1, Apart DEF PipeInv, Flags, Types
<1>5. RoleInv'
  <2>1. ASSUME NEW s \in Threads
        PROVE  /\ pc'[s] \notin {"drop", "closed"}
               /\ pc'[s] # "user" => pc'[EndOf(s)] = "user"
               /\ pc'[s] = "sample" \/ pc'[s] \in Waiting \/ pc'[s] \in Leaving =>
                     n'[s] \in IF s \in Readers THEN ReadSizes ELSE Sizes
    <3>1. CASE s = t  BY Zenon, <1>1, <1>c, <3>1, Apart DEF PipeInv, Types, RoleInv, Closers, Waiting, Leaving
    <3>2. CASE s # t
      <4>1. pc'[s] = pc[s] /\ n'[s] = n[s]  BY Zenon, <1>1, <3>2, Apart DEF PipeInv, Types
      <4> QED BY Zenon, <1>c, <4>1, Apart DEF PipeInv, RoleInv, Closers
    <3> QED BY Zenon, <3>1, <3>2
  <2>2. (/\ \A x \in Closers : pc[x] \in {"user", "wake", "walk", "drop", "closed"}
         /\ pc[Hangup] # "drop"
         /\ pc[Hangup] \in {"wake", "walk"} => pc[WriteEnd] = "user")'
    BY Zenon, <1>c DEF PipeInv, RoleInv, Closers
  <2> QED BY Zenon, <2>1, <2>2 DEF RoleInv
<1>6. LockInv'  BY Zenon, <1>1, Apart DEF PipeInv, Types, LockInv
<1>7. HooksLive'
  <2>1. \A x \in Actors : todo[x] = {}  BY Zenon, <1>1, Apart DEF PipeInv, LockInv
  <2>2. ASSUME NEW s \in Threads PROVE s \in hooks' <=> pc'[s] \in {"block", "asleep", "resume", "unhook", "unhook intr"}
    BY ZenonT(40), <1>1, <2>2, Apart DEF PipeInv, Types, HooksLive
  <2> QED BY Zenon, <1>1, <2>1, <2>2 DEF HooksLive, PipeInv, Types
<1>8. RefInv'
  <2>0. freed <=> ref = 0  BY Zenon DEF PipeInv, RefInv
  <2>1. ref' = ref /\ freed' = freed /\ pc'[ReadEnd] = pc[ReadEnd] /\ pc'[WriteEnd] = pc[WriteEnd]
    BY Zenon, <1>1, <1>c DEF Closers
  <2>2. (freed <=> ref = 0)'  BY Zenon, <2>0, <2>1
  <2> QED BY Zenon, <2>1, <2>2 DEF PipeInv, RefInv
<1>9. WaitInv'
  <2> SUFFICES ASSUME NEW s \in Threads
               PROVE  /\ pc'[s] = "asleep" => ~ready'[s]
                      /\ pc'[s] \in Waiting /\ CanGo(s)' => ready'[s] \/ WakeDue(s)'
    BY Zenon DEF WaitInv
  <2>1. CASE s = t  BY Zenon, <1>1, <2>1, Apart DEF PipeInv, Types, Waiting
  <2>2. CASE s # t
    <3>0. ready'[s] = ready[s]  BY Zenon, <1>1, <2>2 DEF PipeInv, Flags
    <3>1. pc'[s] = pc[s] /\ (ready'[s] <=> ready[s])  BY Zenon, <1>1, <2>2, <3>0, Apart DEF PipeInv, Types
    <3>2. CanGo(s)' <=> CanGo(s)  BY Zenon, <1>1, <2>2, CanGoKept DEF PipeInv, Types
    <3>3. WakeDue(s) => WakeDue(s)'  BY Zenon, <1>1, WakeDueKept, Apart DEF PipeInv
    <3> QED BY Zenon, <3>1, <3>2, <3>3 DEF PipeInv, WaitInv
  <2> QED BY Zenon, <2>1, <2>2
<1> QED BY Zenon, <1>2, <1>3, <1>4, <1>5, <1>6, <1>7, <1>8, <1>9 DEF PipeInv

\* A call begins.
LEMMA CallStep ==
    ASSUME PipeInv, NEW t \in Threads, Call(t)
    PROVE  PipeInv'
<1>1. /\ pc[t] = "user" /\ pc[EndOf(t)] = "user" /\ pc' = [pc EXCEPT ![t] = "sample"]
      /\ \E len \in IF t \in Readers THEN ReadSizes ELSE Sizes : n' = [n EXCEPT ![t] = len]
      /\ \E m \in {"block", "nonblock", "frame"} : mode' = [mode EXCEPT ![t] = m]
      /\ UNCHANGED <<read_eof, write_eof, ref, freed, list_lock, todo, buf, count, head, tail, hooks, ready>>
  BY Zenon, PipeAssumption DEF Call, ringVars
<1>c. \A x \in Closers : pc'[x] = pc[x]  BY Zenon, <1>1, Apart DEF PipeInv, Types, Actors
<1>2. RingInv'  BY Zenon, <1>1 DEF PipeInv, RingInv
<1>3. Types'
  <2>0. \E len \in Nat : n' = [n EXCEPT ![t] = len]  BY Zenon, <1>1, PipeAssumption
  <2>1. n' \in [Threads -> Nat] /\ mode' \in [Threads -> {"block", "nonblock", "frame"}]
    BY ZenonT(40), <1>1, <2>0 DEF PipeInv, Types
  <2> QED BY Zenon, <1>1, <2>1, Apart DEF PipeInv, Types
<1>4. Flags'  BY Zenon, <1>1, Apart DEF PipeInv, Flags, Types
<1>5. RoleInv'
  <2>1. ASSUME NEW s \in Threads
        PROVE  /\ pc'[s] \notin {"drop", "closed"}
               /\ pc'[s] # "user" => pc'[EndOf(s)] = "user"
               /\ pc'[s] = "sample" \/ pc'[s] \in Waiting \/ pc'[s] \in Leaving =>
                     n'[s] \in IF s \in Readers THEN ReadSizes ELSE Sizes
    <3>1. CASE s = t  BY ZenonT(30), <1>1, <1>c, <3>1, Apart DEF PipeInv, Types, RoleInv, Closers, Waiting, Leaving
    <3>2. CASE s # t
      <4>1. pc'[s] = pc[s] /\ n'[s] = n[s]  BY ZenonT(40), <1>1, <3>2, Apart DEF PipeInv, Types
      <4> QED BY Zenon, <1>c, <4>1, Apart DEF PipeInv, RoleInv, Closers
    <3> QED BY Zenon, <3>1, <3>2
  <2>2. (/\ \A x \in Closers : pc[x] \in {"user", "wake", "walk", "drop", "closed"}
         /\ pc[Hangup] # "drop"
         /\ pc[Hangup] \in {"wake", "walk"} => pc[WriteEnd] = "user")'
    BY Zenon, <1>c DEF PipeInv, RoleInv, Closers
  <2> QED BY Zenon, <2>1, <2>2 DEF RoleInv
<1>6. LockInv'  BY Zenon, <1>1, Apart DEF PipeInv, Types, LockInv
<1>7. HooksLive'
  <2>1. ASSUME NEW s \in Threads PROVE s \in hooks' <=> pc'[s] \in {"block", "asleep", "resume", "unhook", "unhook intr"}
    BY Zenon, <1>1, Apart DEF PipeInv, Types, HooksLive, Waiting, Leaving
  <2> QED BY Zenon, <1>1, <2>1 DEF HooksLive, PipeInv, Types
<1>8. RefInv'
  <2>0. freed <=> ref = 0  BY Zenon DEF PipeInv, RefInv
  <2>1. ref' = ref /\ freed' = freed /\ pc'[ReadEnd] = pc[ReadEnd] /\ pc'[WriteEnd] = pc[WriteEnd]
    BY Zenon, <1>1, <1>c DEF Closers
  <2>2. (freed <=> ref = 0)'  BY Zenon, <2>0, <2>1
  <2> QED BY Zenon, <2>1, <2>2 DEF PipeInv, RefInv
<1>9. WaitInv'
  <2> SUFFICES ASSUME NEW s \in Threads
               PROVE  /\ pc'[s] = "asleep" => ~ready'[s]
                      /\ pc'[s] \in Waiting /\ CanGo(s)' => ready'[s] \/ WakeDue(s)'
    BY Zenon DEF WaitInv
  <2>1. CASE s = t  BY Zenon, <1>1, <2>1, Apart DEF PipeInv, Types, Waiting
  <2>2. CASE s # t
    <3>1. pc'[s] = pc[s] /\ (ready'[s] <=> ready[s])  BY Zenon, <1>1, <2>2, Apart DEF PipeInv, Types
    <3>2. CanGo(s)' <=> CanGo(s)  BY Zenon, <1>1, <2>2, CanGoKept DEF PipeInv, Types
    <3>3. WakeDue(s) => WakeDue(s)'  BY Zenon, <1>1, WakeDueKept, Apart DEF PipeInv
    <3> QED BY Zenon, <3>1, <3>2, <3>3 DEF PipeInv, WaitInv
  <2> QED BY Zenon, <2>1, <2>2
<1> QED BY Zenon, <1>2, <1>3, <1>4, <1>5, <1>6, <1>7, <1>8, <1>9 DEF PipeInv

\* A walk takes the lock of the list.
LEMMA WakeLockStep ==
    ASSUME PipeInv, NEW x \in Actors, WakeLock(x)
    PROVE  PipeInv'
<1>1. /\ pc[x] = "wake" /\ list_lock = None /\ list_lock' = x
      /\ pc' = [pc EXCEPT ![x] = "walk"] /\ todo' = [todo EXCEPT ![x] = hooks]
      /\ UNCHANGED <<buf, count, head, tail, read_eof, write_eof, ref, freed, hooks, ready, n, mode>>
  BY Zenon DEF WakeLock, walkRest, ringVars
<1>2. RingInv'  BY Zenon, <1>1 DEF PipeInv, RingInv
<1>3. Types'  BY Zenon, <1>1, Apart DEF PipeInv, Types
<1>4. Flags'  BY Zenon, <1>1, Apart DEF PipeInv, Flags, Types
<1>5. RoleInv'
  <2>1. ASSUME NEW s \in Threads
        PROVE  /\ pc'[s] \notin {"drop", "closed"}
               /\ pc'[s] # "user" => pc'[EndOf(s)] = "user"
               /\ pc'[s] = "sample" \/ pc'[s] \in Waiting \/ pc'[s] \in Leaving =>
                     n'[s] \in IF s \in Readers THEN ReadSizes ELSE Sizes
    <3>0. EndOf(s) \in Actors /\ EndOf(s) # s  BY Zenon, Apart
    <3>1. CASE s = x
      <4>1. pc'[EndOf(s)] = pc[EndOf(s)]  BY Zenon, <1>1, <3>0, <3>1 DEF PipeInv, Types
      <4> QED BY Zenon, <1>1, <3>1, <4>1, Apart DEF PipeInv, Types, RoleInv, Waiting, Leaving
    <3>2. CASE s # x
      <4>0. pc'[s] = pc[s] /\ n'[s] = n[s]  BY Zenon, <1>1, <3>2, Apart DEF PipeInv, Types
      <4>1. pc'[s] = pc[s] /\ n'[s] = n[s] /\ (EndOf(s) = x => pc[s] = "user")
        BY Zenon, <1>1, <4>0 DEF PipeInv, RoleInv
      <4>2. pc'[EndOf(s)] = pc[EndOf(s)] \/ EndOf(s) = x  BY Zenon, <1>1, <3>0 DEF PipeInv, Types
      <4> QED BY Zenon, <1>1, <3>2, <4>1, <4>2, Apart DEF PipeInv, RoleInv, Waiting, Leaving
    <3> QED BY Zenon, <3>1, <3>2
  <2>2. (/\ \A y \in Closers : pc[y] \in {"user", "wake", "walk", "drop", "closed"}
         /\ pc[Hangup] # "drop"
         /\ pc[Hangup] \in {"wake", "walk"} => pc[WriteEnd] = "user")'
    BY Zenon, <1>1, Apart DEF PipeInv, Types, RoleInv, Closers, Actors
  <2> QED BY Zenon, <2>1, <2>2 DEF RoleInv
<1>6. LockInv'  BY Zenon, <1>1, Apart DEF PipeInv, Types, LockInv
<1>7. HooksLive'
  <2>1. ASSUME NEW s \in Threads PROVE s \in hooks' <=> pc'[s] \in {"block", "asleep", "resume", "unhook", "unhook intr"}
    BY Zenon, <1>1, Apart DEF PipeInv, Types, HooksLive, Waiting, Leaving
  <2>2. \A y \in Actors : todo'[y] \subseteq hooks  BY Zenon, <1>1 DEF PipeInv, Types, HooksLive
  <2> QED BY Zenon, <1>1, <2>1, <2>2 DEF HooksLive, PipeInv, Types
<1>8. RefInv'
  <2>0. freed <=> ref = 0  BY Zenon DEF PipeInv, RefInv
  <2>1. /\ ref' = ref /\ freed' = freed
        /\ (pc'[ReadEnd] = "closed" <=> pc[ReadEnd] = "closed") /\ (pc'[WriteEnd] = "closed" <=> pc[WriteEnd] = "closed")
    BY Zenon, <1>1, Apart DEF PipeInv, Types
  <2>2. (freed <=> ref = 0)'  BY Zenon, <2>0, <2>1
  <2> QED BY Zenon, <2>1, <2>2 DEF PipeInv, RefInv
<1>9. WaitInv'
  <2> SUFFICES ASSUME NEW s \in Threads
               PROVE  /\ pc'[s] = "asleep" => ~ready'[s]
                      /\ pc'[s] \in Waiting /\ CanGo(s)' => ready'[s] \/ WakeDue(s)'
    BY Zenon DEF WaitInv
  <2>1. CASE s = x  BY Zenon, <1>1, <2>1, Apart DEF PipeInv, Types, Waiting
  <2>2. CASE s # x
    <3>1. pc'[s] = pc[s] /\ (ready'[s] <=> ready[s])  BY Zenon, <1>1, <2>2, Apart DEF PipeInv, Types
    <3>2. CanGo(s)' <=> CanGo(s)  BY Zenon, <1>1, CanGoKept
    <3>3. WakeDue(s) /\ pc[s] \in Waiting => WakeDue(s)'
      BY Zenon, <1>1, Apart DEF PipeInv, Types, WakeDue, HooksLive, Waiting
    <3> QED BY Zenon, <3>1, <3>2, <3>3 DEF PipeInv, WaitInv
  <2> QED BY Zenon, <2>1, <2>2
<1> QED BY Zenon, <1>2, <1>3, <1>4, <1>5, <1>6, <1>7, <1>8, <1>9 DEF PipeInv

\* A walk visits a hook: ready = true, then wakeup().
LEMMA WakeHookStep ==
    ASSUME PipeInv, NEW x \in Actors, NEW t \in Threads, WakeHook(x, t)
    PROVE  PipeInv'
<1>1. /\ pc[x] = "walk" /\ t \in todo[x] /\ todo' = [todo EXCEPT ![x] = @ \ {t}] /\ x # t
      /\ pc[t] \in {"block", "asleep", "resume", "unhook", "unhook intr"}
      /\ pc' = [pc EXCEPT ![t] = IF pc[t] = "asleep" THEN "resume" ELSE pc[t]]
      /\ ready' = [ready EXCEPT ![t] = TRUE]
      /\ UNCHANGED <<buf, count, head, tail, read_eof, write_eof, ref, freed, list_lock, hooks, n, mode>>
  BY Zenon DEF WakeHook, Woken, walkRest, ringVars, PipeInv, HooksLive
<1>c. \A y \in Closers : pc'[y] = pc[y]  BY Zenon, <1>1, Apart DEF PipeInv, Types, Actors
<1>2. RingInv'  BY Zenon, <1>1, Apart DEF PipeInv, RingInv
<1>3. Types'  BY Zenon, <1>1, Apart DEF PipeInv, Types
<1>4. Flags'  BY Zenon, <1>1, Apart DEF PipeInv, Flags, Types
<1>5. RoleInv'
  <2>1. ASSUME NEW s \in Threads
        PROVE  /\ pc'[s] \notin {"drop", "closed"}
               /\ pc'[s] # "user" => pc'[EndOf(s)] = "user"
               /\ pc'[s] = "sample" \/ pc'[s] \in Waiting \/ pc'[s] \in Leaving =>
                     n'[s] \in IF s \in Readers THEN ReadSizes ELSE Sizes
    <3>1. CASE s = t  BY ZenonT(30), <1>1, <1>c, <3>1, Apart DEF PipeInv, Types, RoleInv, Closers, Waiting, Leaving
    <3>2. CASE s # t
      <4>1. pc'[s] = pc[s] /\ n'[s] = n[s]  BY Zenon, <1>1, <3>2, Apart DEF PipeInv, Types
      <4> QED BY Zenon, <1>c, <4>1, Apart DEF PipeInv, RoleInv, Closers
    <3> QED BY Zenon, <3>1, <3>2
  <2>2. (/\ \A y \in Closers : pc[y] \in {"user", "wake", "walk", "drop", "closed"}
         /\ pc[Hangup] # "drop"
         /\ pc[Hangup] \in {"wake", "walk"} => pc[WriteEnd] = "user")'
    BY Zenon, <1>c DEF PipeInv, RoleInv, Closers
  <2> QED BY Zenon, <2>1, <2>2 DEF RoleInv
<1>6. LockInv'
  <2>1. \A y \in Actors : pc'[y] = "walk" <=> pc[y] = "walk"  BY Zenon, <1>1, Apart DEF PipeInv, Types
  <2> QED BY Zenon, <1>1, <2>1 DEF PipeInv, Types, LockInv
<1>7. HooksLive'
  <2>1. ASSUME NEW s \in Threads PROVE s \in hooks' <=> pc'[s] \in {"block", "asleep", "resume", "unhook", "unhook intr"}
    BY Zenon, <1>1, Apart DEF PipeInv, Types, HooksLive, Waiting, Leaving
  <2>2. \A y \in Actors : todo'[y] \subseteq todo[y]  BY Zenon, <1>1 DEF PipeInv, Types
  <2> QED BY Zenon, <1>1, <2>1, <2>2 DEF HooksLive, PipeInv, Types
<1>8. RefInv'
  <2>0. freed <=> ref = 0  BY Zenon DEF PipeInv, RefInv
  <2>1. ref' = ref /\ freed' = freed /\ pc'[ReadEnd] = pc[ReadEnd] /\ pc'[WriteEnd] = pc[WriteEnd]
    BY Zenon, <1>1, <1>c DEF Closers
  <2>2. (freed <=> ref = 0)'  BY Zenon, <2>0, <2>1
  <2> QED BY Zenon, <2>1, <2>2 DEF PipeInv, RefInv
<1>9. WaitInv'
  <2> SUFFICES ASSUME NEW s \in Threads
               PROVE  /\ pc'[s] = "asleep" => ~ready'[s]
                      /\ pc'[s] \in Waiting /\ CanGo(s)' => ready'[s] \/ WakeDue(s)'
    BY Zenon DEF WaitInv
  <2>1. CASE s = t  BY Zenon, <1>1, <2>1, Apart DEF PipeInv, Types, Flags
  <2>2. CASE s # t
    <3>0. ready'[s] = ready[s]  BY Zenon, <1>1, <2>2 DEF PipeInv, Flags
    <3>1. pc'[s] = pc[s] /\ (ready'[s] <=> ready[s])  BY Zenon, <1>1, <2>2, <3>0, Apart DEF PipeInv, Types
    <3>2. CanGo(s)' <=> CanGo(s)  BY Zenon, <1>1, CanGoKept
    <3>3. WakeDue(s) => WakeDue(s)'  BY Zenon, <1>1, <2>2, Apart DEF PipeInv, Types, WakeDue
    <3> QED BY Zenon, <3>1, <3>2, <3>3 DEF PipeInv, WaitInv
  <2> QED BY Zenon, <2>1, <2>2
<1> QED BY Zenon, <1>2, <1>3, <1>4, <1>5, <1>6, <1>7, <1>8, <1>9 DEF PipeInv

\* A walk ends.
LEMMA WakeUnlockStep ==
    ASSUME PipeInv, NEW x \in Actors, WakeUnlock(x)
    PROVE  PipeInv'
<1>1. /\ pc[x] = "walk" /\ todo[x] = {} /\ list_lock' = None
      /\ pc' = [pc EXCEPT ![x] = AfterWake(x)]
      /\ (x \in Threads => AfterWake(x) = "user") /\ (x = Hangup => AfterWake(x) = "closed")
      /\ (x \in {ReadEnd, WriteEnd} => AfterWake(x) = "drop")
      /\ AfterWake(x) \in {"user", "closed", "drop"}
      /\ UNCHANGED <<buf, count, head, tail, read_eof, write_eof, ref, freed, hooks, ready, n, mode, todo>>
  BY Zenon, Apart DEF WakeUnlock, AfterWake, walkRest, ringVars
<1>2. RingInv'  BY Zenon, <1>1 DEF PipeInv, RingInv
<1>3. Types'  BY Zenon, <1>1, Apart DEF PipeInv, Types
<1>4. Flags'  BY Zenon, <1>1, Apart DEF PipeInv, Flags, Types
<1>5. RoleInv'
  <2>1. ASSUME NEW s \in Threads
        PROVE  /\ pc'[s] \notin {"drop", "closed"}
               /\ pc'[s] # "user" => pc'[EndOf(s)] = "user"
               /\ pc'[s] = "sample" \/ pc'[s] \in Waiting \/ pc'[s] \in Leaving =>
                     n'[s] \in IF s \in Readers THEN ReadSizes ELSE Sizes
    <3>0. EndOf(s) \in Actors /\ EndOf(s) # s  BY Zenon, Apart
    <3>1. CASE s = x
      <4>1. pc'[EndOf(s)] = pc[EndOf(s)]  BY Zenon, <1>1, <3>0, <3>1 DEF PipeInv, Types
      <4> QED BY ZenonT(30), <1>1, <3>1, <4>1, Apart DEF PipeInv, Types, RoleInv, Waiting, Leaving
    <3>2. CASE s # x
      <4>1. pc'[s] = pc[s] /\ n'[s] = n[s] /\ (EndOf(s) = x => pc[s] = "user")
        BY Zenon, <1>1, <3>2, Apart DEF PipeInv, Types, RoleInv
      <4>2. pc'[EndOf(s)] = pc[EndOf(s)] \/ EndOf(s) = x  BY Zenon, <1>1, <3>0 DEF PipeInv, Types
      <4> QED BY Zenon, <1>1, <3>2, <4>1, <4>2, Apart DEF PipeInv, RoleInv, Waiting, Leaving, Types
    <3> QED BY Zenon, <3>1, <3>2
  <2>2. (/\ \A y \in Closers : pc[y] \in {"user", "wake", "walk", "drop", "closed"}
         /\ pc[Hangup] # "drop"
         /\ pc[Hangup] \in {"wake", "walk"} => pc[WriteEnd] = "user")'
    BY Zenon, <1>1, Apart DEF PipeInv, Types, RoleInv, Closers, Actors
  <2> QED BY Zenon, <2>1, <2>2 DEF RoleInv
<1>6. LockInv'  BY Zenon, <1>1, Apart DEF PipeInv, Types, LockInv
<1>7. HooksLive'
  <2>1. ASSUME NEW s \in Threads PROVE s \in hooks' <=> pc'[s] \in {"block", "asleep", "resume", "unhook", "unhook intr"}
    BY Zenon, <1>1, Apart DEF PipeInv, Types, HooksLive, Waiting, Leaving
  <2> QED BY Zenon, <1>1, <2>1 DEF HooksLive, PipeInv, Types
<1>8. RefInv'
  <2>0. freed <=> ref = 0  BY Zenon DEF PipeInv, RefInv
  <2>1. /\ ref' = ref /\ freed' = freed
        /\ (pc'[ReadEnd] = "closed" <=> pc[ReadEnd] = "closed") /\ (pc'[WriteEnd] = "closed" <=> pc[WriteEnd] = "closed")
    BY Zenon, <1>1, Apart DEF PipeInv, Types
  <2>2. (freed <=> ref = 0)'  BY Zenon, <2>0, <2>1
  <2> QED BY Zenon, <2>1, <2>2 DEF PipeInv, RefInv
<1>9. WaitInv'
  <2> SUFFICES ASSUME NEW s \in Threads
               PROVE  /\ pc'[s] = "asleep" => ~ready'[s]
                      /\ pc'[s] \in Waiting /\ CanGo(s)' => ready'[s] \/ WakeDue(s)'
    BY Zenon DEF WaitInv
  <2>1. CASE s = x  BY Zenon, <1>1, <2>1, Apart DEF PipeInv, Types, Waiting
  <2>2. CASE s # x
    <3>1. pc'[s] = pc[s] /\ (ready'[s] <=> ready[s])  BY Zenon, <1>1, <2>2, Apart DEF PipeInv, Types
    <3>2. CanGo(s)' <=> CanGo(s)  BY Zenon, <1>1, CanGoKept
    <3>3. WakeDue(s) => WakeDue(s)'  BY Zenon, <1>1, Apart DEF PipeInv, Types, WakeDue
    <3> QED BY Zenon, <3>1, <3>2, <3>3 DEF PipeInv, WaitInv
  <2> QED BY Zenon, <2>1, <2>2
<1> QED BY Zenon, <1>2, <1>3, <1>4, <1>5, <1>6, <1>7, <1>8, <1>9 DEF PipeInv

\* The last reference to an end goes.
LEMMA CloseStep ==
    ASSUME PipeInv, NEW x \in Actors, Close(x)
    PROVE  PipeInv'
<1>1. /\ x \in {ReadEnd, WriteEnd} /\ pc[x] = "user" /\ (\A t \in Threads : EndOf(t) = x => pc[t] = "user")
      /\ (x = WriteEnd => pc[Hangup] \in {"user", "closed"})
      /\ pc' = [pc EXCEPT ![x] = "wake"]
      /\ UNCHANGED <<buf, count, head, tail, ref, freed, hooks, list_lock, ready, n, mode, todo>>
  BY Zenon DEF Close, closeRest, ringVars
<1>2. RingInv'  BY Zenon, <1>1 DEF PipeInv, RingInv
<1>3. Types'  BY Zenon, <1>1, Apart DEF PipeInv, Types
<1>4. Flags'
  <2>1. read_eof' \in BOOLEAN /\ write_eof' \in BOOLEAN  BY Zenon DEF Close
  <2> QED BY Zenon, <1>1, <2>1 DEF PipeInv, Flags
<1>5. RoleInv'
  <2>1. ASSUME NEW s \in Threads
        PROVE  /\ pc'[s] \notin {"drop", "closed"}
               /\ pc'[s] # "user" => pc'[EndOf(s)] = "user"
               /\ pc'[s] = "sample" \/ pc'[s] \in Waiting \/ pc'[s] \in Leaving =>
                     n'[s] \in IF s \in Readers THEN ReadSizes ELSE Sizes
    <3>0. EndOf(s) \in Actors /\ EndOf(s) # s  BY Zenon, Apart
    <3>1. CASE s = x
      <4>1. pc'[EndOf(s)] = pc[EndOf(s)]  BY Zenon, <1>1, <3>0, <3>1 DEF PipeInv, Types
      <4> QED BY ZenonT(40), <1>1, <3>1, <4>1, Apart DEF PipeInv, Types, RoleInv, Waiting, Leaving
    <3>2. CASE s # x
      <4>1. pc'[s] = pc[s] /\ n'[s] = n[s] /\ (EndOf(s) = x => pc[s] = "user")
        BY Zenon, <1>1, <3>2, Apart DEF PipeInv, Types, RoleInv
      <4>2. pc'[EndOf(s)] = pc[EndOf(s)] \/ EndOf(s) = x  BY Zenon, <1>1, <3>0 DEF PipeInv, Types
      <4> QED BY Zenon, <1>1, <3>2, <4>1, <4>2, Apart DEF PipeInv, RoleInv, Waiting, Leaving, Types
    <3> QED BY Zenon, <3>1, <3>2
  <2>2. (/\ \A y \in Closers : pc[y] \in {"user", "wake", "walk", "drop", "closed"}
         /\ pc[Hangup] # "drop"
         /\ pc[Hangup] \in {"wake", "walk"} => pc[WriteEnd] = "user")'
    BY Zenon, <1>1, Apart DEF PipeInv, Types, RoleInv, Closers, Actors
  <2> QED BY Zenon, <2>1, <2>2 DEF RoleInv
<1>6. LockInv'  BY Zenon, <1>1, Apart DEF PipeInv, Types, LockInv
<1>7. HooksLive'
  <2>1. ASSUME NEW s \in Threads PROVE s \in hooks' <=> pc'[s] \in {"block", "asleep", "resume", "unhook", "unhook intr"}
    BY Zenon, <1>1, Apart DEF PipeInv, Types, HooksLive, Waiting, Leaving
  <2> QED BY Zenon, <1>1, <2>1 DEF HooksLive, PipeInv, Types
<1>8. RefInv'
  <2>0. freed <=> ref = 0  BY Zenon DEF PipeInv, RefInv
  <2>1. /\ ref' = ref /\ freed' = freed
        /\ (pc'[ReadEnd] = "closed" <=> pc[ReadEnd] = "closed") /\ (pc'[WriteEnd] = "closed" <=> pc[WriteEnd] = "closed")
    BY Zenon, <1>1, Apart DEF PipeInv, Types
  <2>2. (freed <=> ref = 0)'  BY Zenon, <2>0, <2>1
  <2> QED BY Zenon, <2>1, <2>2 DEF PipeInv, RefInv
<1>9. WaitInv'
  <2> SUFFICES ASSUME NEW s \in Threads
               PROVE  /\ pc'[s] = "asleep" => ~ready'[s]
                      /\ pc'[s] \in Waiting /\ CanGo(s)' => ready'[s] \/ WakeDue(s)'
    BY Zenon DEF WaitInv
  <2>1. WakeDue(s)'  BY Zenon, <1>1, Apart DEF PipeInv, Types, WakeDue
  <2>2. pc'[s] = pc[s]  BY Zenon, <1>1, Apart DEF PipeInv, Types, Closers
  <2> QED BY Zenon, <1>1, <2>1, <2>2 DEF PipeInv, WaitInv
<1> QED BY Zenon, <1>2, <1>3, <1>4, <1>5, <1>6, <1>7, <1>8, <1>9 DEF PipeInv

\* pipe_hangup_write.
LEMMA HangupStep ==
    ASSUME PipeInv, HangupWrite
    PROVE  PipeInv'
<1>1. /\ pc[Hangup] = "user" /\ pc[WriteEnd] = "user" /\ pc' = [pc EXCEPT ![Hangup] = "wake"]
      /\ UNCHANGED <<buf, count, head, tail, ref, freed, hooks, list_lock, ready, n, mode, todo>>
  BY Zenon DEF HangupWrite, closeRest, ringVars
<1>2. RingInv'  BY Zenon, <1>1 DEF PipeInv, RingInv
<1>3. Types'  BY Zenon, <1>1, Apart DEF PipeInv, Types
<1>4. Flags'
  <2>1. read_eof' \in BOOLEAN /\ write_eof' \in BOOLEAN  BY Zenon DEF HangupWrite, PipeInv, Flags
  <2> QED BY Zenon, <1>1, <2>1 DEF PipeInv, Flags
<1>5. RoleInv'
  <2>1. ASSUME NEW s \in Threads
        PROVE  /\ pc'[s] \notin {"drop", "closed"}
               /\ pc'[s] # "user" => pc'[EndOf(s)] = "user"
               /\ pc'[s] = "sample" \/ pc'[s] \in Waiting \/ pc'[s] \in Leaving =>
                     n'[s] \in IF s \in Readers THEN ReadSizes ELSE Sizes
    <3>0. EndOf(s) \in Actors /\ EndOf(s) # s  BY Zenon, Apart
    <3>1. CASE s = Hangup
      <4>1. pc'[EndOf(s)] = pc[EndOf(s)]  BY Zenon, <1>1, <3>0, <3>1 DEF PipeInv, Types
      <4> QED BY Zenon, <1>1, <3>1, <4>1, Apart DEF PipeInv, Types, RoleInv, Waiting, Leaving
    <3>2. CASE s # Hangup
      <4>1. pc'[s] = pc[s] /\ n'[s] = n[s] /\ (EndOf(s) = Hangup => pc[s] = "user")
        BY Zenon, <1>1, <3>2, Apart DEF PipeInv, Types, RoleInv
      <4>2. pc'[EndOf(s)] = pc[EndOf(s)] \/ EndOf(s) = Hangup  BY Zenon, <1>1, <3>0 DEF PipeInv, Types
      <4> QED BY Zenon, <1>1, <3>2, <4>1, <4>2, Apart DEF PipeInv, RoleInv, Waiting, Leaving
    <3> QED BY Zenon, <3>1, <3>2
  <2>2. (/\ \A y \in Closers : pc[y] \in {"user", "wake", "walk", "drop", "closed"}
         /\ pc[Hangup] # "drop"
         /\ pc[Hangup] \in {"wake", "walk"} => pc[WriteEnd] = "user")'
    BY Zenon, <1>1, Apart DEF PipeInv, Types, RoleInv, Closers, Actors
  <2> QED BY Zenon, <2>1, <2>2 DEF RoleInv
<1>6. LockInv'  BY Zenon, <1>1, Apart DEF PipeInv, Types, LockInv
<1>7. HooksLive'
  <2>1. ASSUME NEW s \in Threads PROVE s \in hooks' <=> pc'[s] \in {"block", "asleep", "resume", "unhook", "unhook intr"}
    BY Zenon, <1>1, Apart DEF PipeInv, Types, HooksLive, Waiting, Leaving
  <2> QED BY Zenon, <1>1, <2>1 DEF HooksLive, PipeInv, Types
<1>8. RefInv'
  <2>0. freed <=> ref = 0  BY Zenon DEF PipeInv, RefInv
  <2>1. /\ ref' = ref /\ freed' = freed
        /\ (pc'[ReadEnd] = "closed" <=> pc[ReadEnd] = "closed") /\ (pc'[WriteEnd] = "closed" <=> pc[WriteEnd] = "closed")
    BY Zenon, <1>1, Apart DEF PipeInv, Types
  <2>2. (freed <=> ref = 0)'  BY Zenon, <2>0, <2>1
  <2> QED BY Zenon, <2>1, <2>2 DEF PipeInv, RefInv
<1>9. WaitInv'
  <2> SUFFICES ASSUME NEW s \in Threads
               PROVE  /\ pc'[s] = "asleep" => ~ready'[s]
                      /\ pc'[s] \in Waiting /\ CanGo(s)' => ready'[s] \/ WakeDue(s)'
    BY Zenon DEF WaitInv
  <2>1. WakeDue(s)'  BY Zenon, <1>1, Apart DEF PipeInv, Types, WakeDue
  <2>2. pc'[s] = pc[s]  BY Zenon, <1>1, Apart DEF PipeInv, Types, Closers
  <2> QED BY Zenon, <1>1, <2>1, <2>2 DEF PipeInv, WaitInv
<1> QED BY Zenon, <1>2, <1>3, <1>4, <1>5, <1>6, <1>7, <1>8, <1>9 DEF PipeInv

\* The reference of an end is dropped; the last one frees the ring.
LEMMA DropStep ==
    ASSUME PipeInv, NEW x \in Actors, Drop(x)
    PROVE  PipeInv'
<1>1. /\ pc[x] = "drop" /\ x \in {ReadEnd, WriteEnd} /\ pc' = [pc EXCEPT ![x] = "closed"] /\ ref' = ref - 1
      /\ UNCHANGED <<buf, count, head, tail, read_eof, write_eof, hooks, list_lock, ready, n, mode, todo>>
  BY Zenon DEF Drop, closeRest, ringVars, PipeInv, RoleInv, Actors, Closers
<1>2. RingInv'  BY Zenon, <1>1 DEF PipeInv, RingInv
<1>3. Types'  BY Zenon, <1>1, Apart DEF PipeInv, Types
<1>4. Flags'
  <2>1. freed' \in BOOLEAN  BY Zenon DEF Drop
  <2> QED BY Zenon, <1>1, <2>1 DEF PipeInv, Flags
<1>5. RoleInv'
  <2>1. ASSUME NEW s \in Threads
        PROVE  /\ pc'[s] \notin {"drop", "closed"}
               /\ pc'[s] # "user" => pc'[EndOf(s)] = "user"
               /\ pc'[s] = "sample" \/ pc'[s] \in Waiting \/ pc'[s] \in Leaving =>
                     n'[s] \in IF s \in Readers THEN ReadSizes ELSE Sizes
    <3>0. EndOf(s) \in Actors /\ EndOf(s) # s  BY Zenon, Apart
    <3>1. CASE s = x
      <4>1. pc'[EndOf(s)] = pc[EndOf(s)]  BY Zenon, <1>1, <3>0, <3>1 DEF PipeInv, Types
      <4> QED BY Zenon, <1>1, <3>1, <4>1, Apart DEF PipeInv, Types, RoleInv, Waiting, Leaving
    <3>2. CASE s # x
      <4>1. pc'[s] = pc[s] /\ n'[s] = n[s] /\ (EndOf(s) = x => pc[s] = "user")
        BY Zenon, <1>1, <3>2, Apart DEF PipeInv, Types, RoleInv
      <4>2. pc'[EndOf(s)] = pc[EndOf(s)] \/ EndOf(s) = x  BY Zenon, <1>1, <3>0 DEF PipeInv, Types
      <4> QED BY Zenon, <1>1, <3>2, <4>1, <4>2, Apart DEF PipeInv, RoleInv, Waiting, Leaving
    <3> QED BY Zenon, <3>1, <3>2
  <2>2. (/\ \A y \in Closers : pc[y] \in {"user", "wake", "walk", "drop", "closed"}
         /\ pc[Hangup] # "drop"
         /\ pc[Hangup] \in {"wake", "walk"} => pc[WriteEnd] = "user")'
    BY Zenon, <1>1, Apart DEF PipeInv, Types, RoleInv, Closers, Actors
  <2> QED BY Zenon, <2>1, <2>2 DEF RoleInv
<1>6. LockInv'  BY Zenon, <1>1, Apart DEF PipeInv, Types, LockInv
<1>7. HooksLive'
  <2>1. ASSUME NEW s \in Threads PROVE s \in hooks' <=> pc'[s] \in {"block", "asleep", "resume", "unhook", "unhook intr"}
    BY Zenon, <1>1, Apart DEF PipeInv, Types, HooksLive, Waiting, Leaving
  <2> QED BY Zenon, <1>1, <2>1 DEF HooksLive, PipeInv, Types
<1>8. RefInv'
  <2>1. freed' <=> ref = 1  BY Zenon DEF Drop
  <2>2. ref \in {1, 2} /\ (ref' = 0 <=> ref = 1)  BY <1>1 DEF PipeInv, RefInv
  <2>3. (freed <=> ref = 0)'  BY Zenon, <2>1, <2>2
  <2>4. CASE x = ReadEnd
    <3>1. pc'[ReadEnd] = "closed" /\ pc'[WriteEnd] = pc[WriteEnd]  BY Zenon, <1>1, <2>4, Apart DEF PipeInv, Types
    <3> QED BY <1>1, <2>3, <2>4, <3>1 DEF PipeInv, RefInv
  <2>5. CASE x = WriteEnd
    <3>1. pc'[WriteEnd] = "closed" /\ pc'[ReadEnd] = pc[ReadEnd]  BY Zenon, <1>1, <2>5, Apart DEF PipeInv, Types
    <3> QED BY <1>1, <2>3, <2>5, <3>1 DEF PipeInv, RefInv
  <2> QED BY Zenon, <1>1, <2>4, <2>5
<1>9. WaitInv'
  <2> SUFFICES ASSUME NEW s \in Threads
               PROVE  /\ pc'[s] = "asleep" => ~ready'[s]
                      /\ pc'[s] \in Waiting /\ CanGo(s)' => ready'[s] \/ WakeDue(s)'
    BY Zenon DEF WaitInv
  <2>1. pc'[s] = pc[s] /\ (ready'[s] <=> ready[s])  BY Zenon, <1>1, Apart DEF PipeInv, Types, Closers
  <2>2. CanGo(s)' <=> CanGo(s)  BY Zenon, <1>1, CanGoKept
  <2>3. WakeDue(s) => WakeDue(s)'  BY Zenon, <1>1, WakeDueKept DEF PipeInv
  <2> QED BY Zenon, <2>1, <2>2, <2>3 DEF PipeInv, WaitInv
<1> QED BY Zenon, <1>2, <1>3, <1>4, <1>5, <1>6, <1>7, <1>8, <1>9 DEF PipeInv

\* What ring_write and ring_read do to the indices.
LEMMA RingWriteInv ==
    ASSUME RingInv, NEW b, NEW k \in Nat, count + k <= Capacity, RingWrite(b, k)
    PROVE  RingInv'
<1>1. count' = count + k /\ tail' = tail /\ head' = (head + k) % Capacity  BY Zenon DEF RingWrite
<1>2. head = IF tail + count < Capacity THEN tail + count ELSE tail + count - Capacity
  <2>1. tail + count \in Nat /\ tail + count < 2 * Capacity  BY PipeAssumption DEF RingInv
  <2> QED BY <2>1, PipeAssumption DEF RingInv
<1>3. (head + k) % Capacity = IF head + k < Capacity THEN head + k ELSE head + k - Capacity
  <2>1. head + k \in Nat /\ head + k < 2 * Capacity  BY PipeAssumption DEF RingInv
  <2> QED BY <1>1, <2>1, PipeAssumption DEF RingInv
<1>4. (tail + count') % Capacity = IF tail + count' < Capacity THEN tail + count' ELSE tail + count' - Capacity
  <2>1. tail + count' \in Nat /\ tail + count' < 2 * Capacity  BY <1>1, PipeAssumption DEF RingInv
  <2> QED BY <1>1, <2>1, PipeAssumption DEF RingInv
<1> QED BY <1>1, <1>2, <1>3, <1>4, PipeAssumption DEF RingInv

\* A read of no more than there is keeps the ring well formed.
LEMMA RingReadInv ==
    ASSUME RingInv, NEW k \in Nat, k <= count, RingRead(k)
    PROVE  RingInv'
<1>1. count' = count - k /\ head' = head /\ tail' = (tail + k) % Capacity  BY Zenon DEF RingRead
<1>2. head = IF tail + count < Capacity THEN tail + count ELSE tail + count - Capacity
  <2>1. tail + count \in Nat /\ tail + count < 2 * Capacity  BY PipeAssumption DEF RingInv
  <2> QED BY <2>1, PipeAssumption DEF RingInv
<1>3. tail' = IF tail + k < Capacity THEN tail + k ELSE tail + k - Capacity
  <2>1. tail + k \in Nat /\ tail + k < 2 * Capacity  BY PipeAssumption DEF RingInv
  <2> QED BY <1>1, <2>1, PipeAssumption DEF RingInv
<1>4. (tail' + count') % Capacity = IF tail' + count' < Capacity THEN tail' + count' ELSE tail' + count' - Capacity
  <2>1. tail' + count' \in Nat /\ tail' + count' < 2 * Capacity  BY <1>1, PipeAssumption DEF RingInv
  <2> QED BY <1>1, <2>1, PipeAssumption
<1> QED BY <1>1, <1>2, <1>3, <1>4, PipeAssumption DEF RingInv

\* A read under the lock keeps the invariant.
LEMMA ReadStep ==
    ASSUME PipeInv, NEW t \in Threads, Read(t)
    PROVE  PipeInv'
<1>1. n[t] \in Nat \ {0}  BY Zenon, PipeAssumption DEF Read, PipeInv, RoleInv
<1> DEFINE k == Smaller(n[t], count)
<1>2. k \in Nat /\ k <= count  BY <1>1 DEF Smaller, PipeInv, RingInv
<1>3. RingInv'  BY Zenon, <1>2, RingReadInv DEF Read, PipeInv
<1> QED BY Zenon, <1>3, CommitStep DEF Read

\* A write under the lock keeps the invariant.
LEMMA WriteStep ==
    ASSUME PipeInv, NEW t \in Threads, Write(t)
    PROVE  PipeInv'
<1>1. n[t] \in Nat  BY Zenon DEF Write, PipeInv, Types
<1> DEFINE k == Smaller(n[t], Capacity - count)
<1>2. k \in Nat /\ count + k <= Capacity  BY <1>1, PipeAssumption DEF Smaller, PipeInv, RingInv
<1>3. RingInv'  BY Zenon, <1>2, RingWriteInv DEF Write, PipeInv
<1> QED BY Zenon, <1>3, CommitStep DEF Write

\* The steps of pipe_read_common and devpipe_write keep the invariant.
LEMMA OpInv ==
    ASSUME PipeInv, NEW t \in Threads, OpStep(t)
    PROVE  PipeInv'
<1>1. CASE Read(t)  BY Zenon, <1>1, ReadStep
<1>2. CASE ReadEof(t)  BY Zenon, <1>2, FinishStep DEF ReadEof
<1>3. CASE ReadEmpty(t)
  <2>1. ~CanGo(t)  BY <1>3 DEF ReadEmpty, CanGo
  <2> QED BY Zenon, <1>3, <2>1, FinishStep, BlockStep DEF ReadEmpty
<1>4. CASE WriteRefused(t)  BY Zenon, <1>4, FinishStep DEF WriteRefused
<1>5. CASE Write(t)  BY Zenon, <1>5, WriteStep
<1>6. CASE WriteFull(t)
  <2>1. ~CanGo(t)  BY Zenon, <1>6, PipeAssumption DEF WriteFull, CanGo, Open
  <2> QED BY Zenon, <1>6, <2>1, FinishStep, BlockStep DEF WriteFull
<1>7. CASE Sleep(t)
  <2>1. PICK v \in Waiting \cup Leaving : (v = "asleep" => ~ready[t]) /\ pc' = [pc EXCEPT ![t] = v]
    BY Zenon, <1>7 DEF Sleep, Waiting, Leaving
  <2> QED BY Zenon, <1>7, <2>1, WaitStep DEF Sleep, Waiting, blockRest
<1>8. CASE Resume(t)
  <2>1. PICK v \in Waiting \cup Leaving : v # "asleep" /\ pc' = [pc EXCEPT ![t] = v]
    BY Zenon, <1>8 DEF Resume, Waiting, Leaving
  <2> QED BY Zenon, <1>8, <2>1, WaitStep DEF Resume, Waiting, blockRest
<1>9. CASE Unhook(t)  BY Zenon, <1>9, UnhookStep
<1> QED BY Zenon, <1>1, <1>2, <1>3, <1>4, <1>5, <1>6, <1>7, <1>8, <1>9 DEF OpStep

\* A death or a note for a thread, wherever it is.
LEMMA InterruptStep ==
    ASSUME PipeInv, NEW t \in Threads, Interrupt(t)
    PROVE  PipeInv'
<1>1. CASE pc[t] = "asleep"
  <2>1. pc' = [pc EXCEPT ![t] = "resume"]  BY Zenon, <1>1 DEF Interrupt, Woken
  <2> QED BY Zenon, <1>1, <2>1, WaitStep DEF Interrupt, Waiting
<1>2. CASE pc[t] # "asleep"
  <2>1. pc' = pc  BY Zenon, <1>2, Apart DEF Interrupt, Woken, PipeInv, Types
  <2> QED BY Zenon, <2>1, StutterStep DEF Interrupt
<1> QED BY Zenon, <1>1, <1>2

\* The initial states satisfy the invariant.
LEMMA PipeInvInit == Init => PipeInv
<1> SUFFICES ASSUME Init PROVE PipeInv  BY Zenon
<1>1. RingInv  BY PipeAssumption DEF Init, RingInv
<1>2. Types /\ Flags  BY Zenon DEF Init, Types, Flags
<1>3. RoleInv /\ LockInv /\ RefInv  BY Apart DEF Init, RoleInv, LockInv, RefInv, Waiting, Leaving,
        Actors
<1>4. HooksLive /\ WaitInv  BY Zenon, Apart DEF Init, HooksLive, WaitInv, Waiting
<1> QED BY Zenon, <1>1, <1>2, <1>3, <1>4 DEF PipeInv

\* Every step keeps the invariant.
LEMMA PipeInvNext == PipeInv /\ [Next]_vars => PipeInv'
<1> SUFFICES ASSUME PipeInv, [Next]_vars PROVE PipeInv'  BY Zenon
<1>1. ASSUME NEW t \in Threads, OpStep(t) \/ Call(t) \/ Interrupt(t) PROVE PipeInv'
  BY Zenon, <1>1, OpInv, CallStep, InterruptStep
<1>2. ASSUME NEW t \in Threads, NoteDone(t) PROVE PipeInv'
  BY Zenon, <1>2, StutterStep DEF NoteDone
<1>3. ASSUME NEW x \in Actors, WalkStep(x) \/ Close(x) PROVE PipeInv'
  BY Zenon, <1>3, WakeLockStep, WakeHookStep, WakeUnlockStep, DropStep, CloseStep DEF WalkStep
<1>4. CASE HangupWrite  BY Zenon, <1>4, HangupStep
<1>5. CASE UNCHANGED vars  BY Zenon, <1>5, StutterStep DEF vars
<1> QED BY Zenon, <1>1, <1>2, <1>3, <1>4, <1>5 DEF Next

\* The invariant holds of every pipe, however many threads share it.
THEOREM PipeInductive == Spec => []PipeInv
<1> QED BY PipeInvInit, PipeInvNext, PTL DEF Spec

\* No waiter sleeps on when it could go on, without a list walk on its way to
\* it (pipe_block_locked, poll_waiter_list_wake): one walk per change of the
\* ring serves any number of readers and writers.
THEOREM WaitersWoken == Spec => []NoStuckWaiter
<1>1. PipeInv => NoStuckWaiter  BY Zenon DEF PipeInv, WaitInv, NoStuckWaiter, Waiting
<1> QED BY <1>1, PipeInductive, PTL

\* The list holds the hooks of the blocked calls and no other, and a walk never
\* holds on to one that has left (NoStaleHook of kernel/poll.c).
THEOREM HooksAreLive == Spec => []HooksLive
<1>1. PipeInv => HooksLive  BY Zenon DEF PipeInv
<1> QED BY <1>1, PipeInductive, PTL

\* The ring is freed with the second close, once nobody is left in it.
THEOREM RingOutlivesUse == Spec => []RingAlive
<1>1. ASSUME PipeInv PROVE TypeOK
  <2>1. ref \in 0..2  BY <1>1 DEF PipeInv, RefInv
  <2> QED BY Zenon, <1>1, <2>1 DEF PipeInv, RingInv, Types, Flags, TypeOK
<1>2. ASSUME PipeInv, freed, NEW x \in Actors PROVE pc[x] \in {"user", "closed"}
  <2>1. pc[ReadEnd] = "closed" /\ pc[WriteEnd] = "closed"  BY <1>2 DEF PipeInv, RefInv
  <2>2. CASE x \in Threads  BY Zenon, <1>2, <2>1, <2>2, Apart DEF PipeInv, RoleInv
  <2>3. CASE x \in Closers  BY Zenon, <1>2, <2>1, <2>3 DEF PipeInv, RoleInv, Closers
  <2> QED BY Zenon, <2>2, <2>3 DEF Actors
<1>3. PipeInv => (freed <=> ref = 0)  BY Zenon DEF PipeInv, RefInv
<1>4. PipeInv => RingAlive  BY Zenon, <1>1, <1>2, <1>3 DEF RingAlive
<1> QED BY <1>4, PipeInductive, PTL

-----------------------------------------------------------------------------
(* The ring is a FIFO                                                      *)

\* The i-th place from the tail, and how far it is from the head.
LEMMA Place ==
    ASSUME RingInv, NEW i \in 1..Capacity
    PROVE  LET j == (tail + i - 1) % Capacity IN
           /\ j \in 0..Capacity - 1
           /\ j = IF tail + i - 1 < Capacity THEN tail + i - 1 ELSE tail + i - 1 - Capacity
           /\ (j + Capacity - head) % Capacity =
                 IF i <= count THEN Capacity + i - 1 - count ELSE i - 1 - count
<1> DEFINE j == (tail + i - 1) % Capacity
<1>1. /\ Capacity \in Nat \ {0} /\ tail \in 0..Capacity - 1 /\ head \in 0..Capacity - 1
      /\ count \in 0..Capacity /\ i \in 1..Capacity
  BY Zenon, PipeAssumption DEF RingInv
<1>2. head = IF tail + count < Capacity THEN tail + count ELSE tail + count - Capacity
  <2>1. tail + count \in Nat /\ tail + count < 2 * Capacity  BY <1>1
  <2> QED BY <1>1, <2>1 DEF RingInv
<1>3. j = IF tail + i - 1 < Capacity THEN tail + i - 1 ELSE tail + i - 1 - Capacity
  <2>1. tail + i - 1 \in Nat /\ tail + i - 1 < 2 * Capacity  BY <1>1
  <2> QED BY <1>1, <2>1
<1>4. j \in 0..Capacity - 1  BY <1>1
<1> HIDE DEF j
<1>5. (j + Capacity - head) % Capacity =
         IF j + Capacity - head < Capacity THEN j + Capacity - head ELSE j - head
  BY <1>1, <1>4
<1>6. (j + Capacity - head) % Capacity = IF i <= count THEN Capacity + i - 1 - count ELSE i - 1 - count
  BY <1>1, <1>2, <1>3
<1> QED BY Zenon, <1>3, <1>4, <1>6 DEF j

\* The bytes of the ring are a sequence as long as its count.
LEMMA ContentsSeq ==
    ASSUME RingInv
    PROVE  Contents \in Seq({Contents[i] : i \in 1..count}) /\ Len(Contents) = count
<1>1. count \in Nat  BY DEF RingInv
<1>2. Contents = [i \in 1..count |-> Contents[i]]  BY Zenon DEF Contents
<1> QED BY <1>1, <1>2, SeqDef, LenProperties

\* ring_write appends.
LEMMA ContentsWrite ==
    ASSUME RingInv, NEW T, NEW b \in Seq(T), NEW k \in 0..Len(b), count + k <= Capacity, RingWrite(b, k)
    PROVE  Contents' = Contents \o SubSeq(b, 1, k)
<1> DEFINE S == {Contents[i] : i \in 1..count} \cup {b[i] : i \in 1..k}
           new == SubSeq(b, 1, k)
           c == count + k
<1>0. count \in Nat /\ k \in Nat /\ c \in Nat /\ c <= Capacity /\ Capacity \in Nat \ {0}
  BY PipeAssumption DEF RingInv
<1>1. Contents \in Seq(S) /\ Len(Contents) = count
  <2>1. Contents \in Seq({Contents[i] : i \in 1..count}) /\ Len(Contents) = count  BY Zenon, ContentsSeq
  <2> QED BY Zenon, <2>1, SeqMonotonic
<1>2. new \in Seq(S) /\ Len(new) = k /\ \A i \in 1..k : new[i] = b[i]
  OBVIOUS
<1>3. Len(Contents \o new) = c /\ Contents \o new \in Seq(S)
  BY ZenonT(30), <1>0, <1>1, <1>2, ConcatProperties
<1>4. count' = c /\ tail' = tail
      /\ buf' = [j \in 0..Capacity - 1 |->
                    LET i == (j + Capacity - head) % Capacity IN IF i < k THEN b[i + 1] ELSE buf[j]]
  BY Zenon DEF RingWrite
<1>5. ASSUME NEW i \in 1..c
      PROVE  buf'[(tail + i - 1) % Capacity] = (Contents \o new)[i]
  <2> DEFINE j == (tail + i - 1) % Capacity
             d == (j + Capacity - head) % Capacity
  <2>1. j \in 0..Capacity - 1 /\ d = IF i <= count THEN Capacity + i - 1 - count ELSE i - 1 - count
    BY <1>0, Place
  <2>2. buf'[j] = IF d < k THEN b[d + 1] ELSE buf[j]  BY Zenon, <1>4, <2>1
  <2>3. CASE i <= count
    <3>1. ~(d < k)  BY <1>0, <2>1, <2>3
    <3>2. (Contents \o new)[i] = Contents[i]  BY <1>1, <2>3
    <3> QED BY <1>0, <2>2, <2>3, <3>1, <3>2 DEF Contents
  <2>4. CASE i > count
    <3>1. d = i - 1 - count /\ d < k  BY <1>0, <2>1, <2>4
    <3>2. (Contents \o new)[i] = new[i - count]  BY <1>0, <1>1, <2>4
    <3>3. i - count \in 1..k /\ d + 1 = i - count  BY <1>0, <2>4, <3>1
    <3> QED BY Zenon, <1>2, <2>2, <3>1, <3>2, <3>3
  <2>5. i <= count \/ i > count  BY <1>0
  <2> QED BY Zenon, <2>3, <2>4, <2>5
<1>6. Contents' = [i \in 1..c |-> buf'[(tail + i - 1) % Capacity]]  BY <1>4 DEF Contents
<1>7. Contents \o new = [i \in 1..c |-> (Contents \o new)[i]]  BY <1>3
<1> QED BY Zenon, <1>5, <1>6, <1>7

\* ring_read takes from the front.
LEMMA ContentsRead ==
    ASSUME RingInv, NEW k \in 0..count, RingRead(k)
    PROVE  Contents' = SubSeq(Contents, k + 1, Len(Contents))
<1>0. count \in Nat /\ k \in Nat /\ count - k \in Nat /\ count <= Capacity /\ Capacity \in Nat \ {0} /\ tail \in 0..Capacity - 1
  BY PipeAssumption DEF RingInv
<1>1. Contents \in Seq({Contents[i] : i \in 1..count}) /\ Len(Contents) = count  BY Zenon, ContentsSeq
<1>2. count' = count - k /\ tail' = (tail + k) % Capacity /\ buf' = buf  BY Zenon DEF RingRead
<1>3. SubSeq(Contents, k + 1, count) = [i \in 1..count - k |-> Contents[k + i]]  BY <1>1
<1>4. ASSUME NEW i \in 1..count - k
      PROVE  (tail' + i - 1) % Capacity = (tail + (k + i) - 1) % Capacity
  <2>0. i \in 1..Capacity  BY <1>0
  <2>1. tail' = IF tail + k < Capacity THEN tail + k ELSE tail + k - Capacity
    <3>1. tail + k \in Nat /\ tail + k < 2 * Capacity  BY <1>0
    <3> QED BY <1>0, <1>2, <3>1
  <2>2. tail' \in 0..Capacity - 1  BY <1>0, <2>1
  <2>3. (tail' + i - 1) % Capacity =
           IF tail' + i - 1 < Capacity THEN tail' + i - 1 ELSE tail' + i - 1 - Capacity
    <3>1. PICK u \in 0..Capacity - 1 : u = tail'  BY Zenon, <2>2
    <3>2. u + i - 1 \in Nat /\ u + i - 1 < 2 * Capacity  BY <1>0
    <3>3. (u + i - 1) % Capacity = IF u + i - 1 < Capacity THEN u + i - 1 ELSE u + i - 1 - Capacity
      BY <1>0
    <3> QED BY Zenon, <3>1, <3>3
  <2>4. (tail + (k + i) - 1) % Capacity =
           IF tail + (k + i) - 1 < Capacity THEN tail + (k + i) - 1 ELSE tail + (k + i) - 1 - Capacity
    <3>1. tail + (k + i) - 1 \in Nat /\ tail + (k + i) - 1 < 2 * Capacity  BY <1>0
    <3> QED BY <1>0, <3>1
  <2> QED BY <1>0, <2>1, <2>2, <2>3, <2>4
<1>5. \A i \in 1..count - k : k + i \in 1..count  BY <1>0
<1> QED BY Zenon, <1>1, <1>2, <1>3, <1>4, <1>5 DEF Contents

\* What a read returns is the front of the ring.
LEMMA FrontIsPrefix ==
    ASSUME RingInv, NEW k \in 0..count
    PROVE  Front(k) = SubSeq(Contents, 1, k)
<1>1. Contents \in Seq({Contents[i] : i \in 1..count}) /\ Len(Contents) = count  BY Zenon, ContentsSeq
<1>2. SubSeq(Contents, 1, k) = [i \in 1..k |-> Contents[i]]  OBVIOUS
<1> QED BY <1>2 DEF Front, Contents, RingInv

\* The initial states of the pipe are initial states of the FIFO.
LEMMA FifoInit == Init => Fifo!Init
<1> SUFFICES ASSUME Init PROVE Fifo!Init  BY Zenon
<1>1. Contents = <<>>  BY DEF Init, Contents
<1> QED BY Zenon, <1>1 DEF Init, Fifo!Init

\* A write is a write of the abstract queue.
LEMMA FifoWrite ==
    ASSUME Traced, PipeInv, NEW t \in Threads, Write(t)
    PROVE  Fifo!Next
<1> DEFINE k == Smaller(n[t], Capacity - count)
           b == Message(t, n[t])
<1>0. t \in Writers /\ Open /\ Fits(t) /\ RingWrite(b, k) /\ last' = <<"wrote", t, n[t], k>>
      /\ UNCHANGED <<read_eof, write_eof>>
  BY Zenon DEF Write, Commit, Outcome, sampleRest
<1>1. n[t] \in Sizes /\ n[t] \in Nat \ {0} /\ count \in 0..Capacity /\ Capacity \in Nat \ {0} /\ RingInv
  BY Zenon, <1>0, PipeAssumption DEF Write, PipeInv, RoleInv, RingInv
<1>1a. Capacity - count \in Nat \ {0} /\ (n[t] <= Capacity => Capacity - count >= n[t])
  <2>1. Fits(t) /\ n[t] \in Nat \ {0} /\ count \in Nat /\ Capacity \in Nat  BY <1>0, <1>1
  <2> QED BY <2>1 DEF Fits
<1>2. /\ k \in 1..n[t] /\ k \in 1..Capacity /\ count + k <= Capacity
      /\ n[t] <= Capacity => k = n[t]
  BY <1>1, <1>1a DEF Smaller
<1>3. b \in Seq(Writers \X Nat \cup {Blank}) /\ Len(b) = n[t]  BY <1>0, <1>1 DEF Message
<1> HIDE DEF k, b
<1>4. Contents' = Contents \o SubSeq(b, 1, k)
  <2>1. k \in 0..Len(b)  BY <1>2, <1>3
  <2> QED BY Zenon, <1>0, <1>1, <1>2, <1>3, <2>1, ContentsWrite
<1>5. Len(Contents) = count  BY Zenon, <1>1, ContentsSeq
<1>6. Fifo!Write(t, n[t], k)  BY Zenon, <1>0, <1>2, <1>4, <1>5 DEF Fifo!Write, Open, b
<1> QED BY Zenon, <1>0, <1>1, <1>2, <1>6 DEF Fifo!Next

\* A read is a read of the abstract queue.
LEMMA FifoRead ==
    ASSUME Traced, PipeInv, NEW t \in Threads, Read(t)
    PROVE  Fifo!Next
<1> DEFINE k == Smaller(n[t], count)
<1>0. t \in Readers /\ count > 0 /\ RingRead(k) /\ last' = <<"read", t, Front(k)>>
      /\ UNCHANGED <<read_eof, write_eof>>
  BY Zenon DEF Read, Commit, Outcome, sampleRest
<1>1. n[t] \in Nat \ {0} /\ count \in 0..Capacity /\ Capacity \in Nat \ {0} /\ RingInv
  BY Zenon, <1>0, PipeAssumption DEF Read, PipeInv, RoleInv, RingInv
<1>2. k \in 1..count /\ k \in 1..Capacity /\ k \in 0..count  BY <1>0, <1>1 DEF Smaller
<1> HIDE DEF k
<1>3. Contents' = SubSeq(Contents, k + 1, Len(Contents))  BY Zenon, <1>0, <1>1, <1>2, ContentsRead
<1>4. Front(k) = SubSeq(Contents, 1, k)  BY Zenon, <1>1, <1>2, FrontIsPrefix
<1>5. Len(Contents) = count  BY Zenon, <1>1, ContentsSeq
<1>6. Fifo!Read(t, k)  BY Zenon, <1>0, <1>2, <1>3, <1>4, <1>5 DEF Fifo!Read
<1> QED BY Zenon, <1>0, <1>2, <1>6 DEF Fifo!Next

\* A call that finds nothing to do tells the truth about the FIFO.
LEMMA FifoFinish ==
    ASSUME Traced, PipeInv, NEW t \in Threads,
           ReadEof(t) \/ ReadEmpty(t) \/ WriteRefused(t) \/ WriteFull(t)
    PROVE  [Fifo!Next]_Fifo!fifoVars
<1>0. RingInv /\ count \in 0..Capacity /\ Capacity \in Nat \ {0} /\ Len(Contents) = count
      /\ (count = 0 => Contents = <<>>)
  BY PipeAssumption, ContentsSeq DEF PipeInv, RingInv
<1>1. UNCHANGED <<buf, count, tail, read_eof, write_eof>>
  BY Zenon DEF ReadEof, ReadEmpty, WriteRefused, WriteFull, Finish, Block, sampleRest, ringVars
<1>2. Contents' = Contents  BY Zenon, <1>1 DEF Contents
<1>3. CASE ReadEof(t)
  <2>1. t \in Readers /\ last' = <<"eof", t>> /\ count = 0 /\ write_eof  BY Zenon, <1>3 DEF ReadEof,
        Finish, Outcome
  <2>2. Fifo!Eof(t)  BY Zenon, <1>0, <1>1, <1>2, <2>1 DEF Fifo!Eof
  <2> QED BY Zenon, <2>1, <2>2 DEF Fifo!Next
<1>4. CASE WriteRefused(t)
  <2>1. t \in Writers /\ last' = <<"refused", t>> /\ ~Open  BY Zenon, <1>4 DEF WriteRefused, Finish,
        Outcome
  <2>2. Fifo!Refused(t)  BY Zenon, <1>1, <1>2, <2>1 DEF Fifo!Refused, Open
  <2> QED BY Zenon, <2>1, <2>2 DEF Fifo!Next
<1>5. CASE ReadEmpty(t)
  <2>1. CASE mode[t] = "nonblock"
    <3>1. t \in Readers /\ last' = <<"again", t, n[t]>> /\ count = 0 /\ ~write_eof /\ n[t] \in ReadSizes
      BY Zenon, <1>5, <2>1 DEF ReadEmpty, Finish, Outcome, PipeInv, RoleInv
    <3>2. Fifo!TryAgain(t, n[t])  BY Zenon, <1>0, <1>1, <1>2, <3>1 DEF Fifo!TryAgain
    <3> QED BY Zenon, <3>1, <3>2 DEF Fifo!Next
  <2>2. CASE mode[t] # "nonblock"
    BY Zenon, <1>1, <1>2, <1>5, <2>2 DEF ReadEmpty, Block, Fifo!fifoVars
  <2> QED BY Zenon, <2>1, <2>2
<1>6. CASE WriteFull(t)
  <2>1. CASE mode[t] # "block"
    <3>1. t \in Writers /\ last' = <<"again", t, n[t]>> /\ Open /\ ~Fits(t)
      BY Zenon, <1>6, <2>1 DEF WriteFull, Finish, Outcome
    <3>2. n[t] \in Sizes /\ n[t] \in Nat \ {0}
      BY Zenon, <1>6, <3>1, PipeAssumption DEF WriteFull, PipeInv, RoleInv
    <3>3. Capacity - Len(Contents) < n[t]
      <4>1. Len(Contents) = count /\ ~Fits(t) /\ n[t] \in Nat \ {0} /\ count \in Nat /\ Capacity \in Nat
        BY <1>0, <3>1, <3>2
      <4> QED BY <4>1 DEF Fits
    <3>4. Fifo!TryAgain(t, n[t])  BY Zenon, <1>1, <1>2, <3>1, <3>3 DEF Fifo!TryAgain, Open
    <3> QED BY Zenon, <3>1, <3>2, <3>4 DEF Fifo!Next
  <2>2. CASE mode[t] = "block"
    BY Zenon, <1>1, <1>2, <1>6, <2>2 DEF WriteFull, Block, Fifo!fifoVars
  <2> QED BY Zenon, <2>1, <2>2
<1> QED BY Zenon, <1>3, <1>4, <1>5, <1>6

\* A close and a hangup.
LEMMA FifoGone ==
    ASSUME PipeInv, (\E x \in Actors : Close(x)) \/ HangupWrite
    PROVE  Fifo!Next
<1>1. UNCHANGED <<buf, count, tail, last>>  BY Zenon DEF Close, HangupWrite, closeRest, ringVars
<1>2. Contents' = Contents  BY Zenon, <1>1 DEF Contents
<1>3. (read_eof' /\ write_eof' = write_eof) \/ (write_eof' /\ read_eof' = read_eof)
  <2>1. CASE HangupWrite  BY Zenon, <2>1 DEF HangupWrite
  <2>2. ASSUME NEW x \in Actors, Close(x), x = ReadEnd PROVE read_eof' /\ write_eof' = write_eof
    <3>1. x # WriteEnd /\ write_eof \in BOOLEAN  BY Zenon, <2>2, Apart DEF PipeInv, Flags
    <3> QED BY Zenon, <2>2, <3>1 DEF Close
  <2>3. ASSUME NEW x \in Actors, Close(x), x = WriteEnd PROVE write_eof' /\ read_eof' = read_eof
    <3>1. x # ReadEnd /\ read_eof \in BOOLEAN  BY Zenon, <2>3, Apart DEF PipeInv, Flags
    <3> QED BY Zenon, <2>3, <3>1 DEF Close
  <2> QED BY Zenon, <2>1, <2>2, <2>3 DEF Close
<1> QED BY Zenon, <1>1, <1>2, <1>3 DEF Fifo!Next, Fifo!GoneReader, Fifo!GoneWriter

\* Every other step is invisible.
LEMMA FifoStutter ==
    ASSUME UNCHANGED <<ringVars, read_eof, write_eof, last>>
    PROVE  UNCHANGED Fifo!fifoVars
BY Zenon DEF ringVars, Contents, Fifo!fifoVars

\* Whatever the interleaving, whatever the sizes and however many threads, the
\* ring of kernel/pipe.c is a bounded FIFO (ring_write, ring_read, the EOF and
\* EAGAIN rules of pipe_read_common and devpipe_write).
THEOREM PipeIsFifo == ASSUME Traced PROVE Spec => ImplementsFifo
<1>1. ASSUME PipeInv, [Next]_vars PROVE [Fifo!Next]_Fifo!fifoVars
  <2>1. ASSUME NEW t \in Threads, OpStep(t) PROVE [Fifo!Next]_Fifo!fifoVars
    <3>1. CASE Sleep(t) \/ Resume(t) \/ Unhook(t)
      BY Zenon, <3>1, FifoStutter DEF Sleep, Resume, Unhook, AfterWait, blockRest
    <3> QED BY Zenon, <1>1, <2>1, <3>1, FifoRead, FifoWrite, FifoFinish DEF OpStep
  <2>2. ASSUME NEW t \in Threads, Call(t) \/ Interrupt(t) \/ NoteDone(t) PROVE [Fifo!Next]_Fifo!fifoVars
    BY Zenon, <2>2, FifoStutter DEF Call, Interrupt, NoteDone
  <2>3. ASSUME NEW x \in Actors, WalkStep(x) PROVE [Fifo!Next]_Fifo!fifoVars
    BY Zenon, <2>3, FifoStutter DEF WalkStep, WakeLock, WakeHook, WakeUnlock, Drop, walkRest, closeRest
  <2>4. CASE (\E x \in Actors : Close(x)) \/ HangupWrite  BY Zenon, <1>1, <2>4, FifoGone
  <2>5. CASE UNCHANGED vars  BY Zenon, <2>5, FifoStutter DEF vars
  <2> QED BY Zenon, <1>1, <2>1, <2>2, <2>3, <2>4, <2>5 DEF Next
<1> QED BY <1>1, FifoInit, PipeInvInit, PipeInvNext, PTL DEF Spec, ImplementsFifo, Fifo!Spec

=============================================================================
