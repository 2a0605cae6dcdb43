---------------------------- MODULE TorporProofs ----------------------------
(***************************************************************************)
(* The safety of wait-on-address for any waiters, producers, Procs,        *)
(* addresses, hash and counts: the wait queues hold exactly the frames of  *)
(* the calls in progress, no wake is forged, none that was counted is      *)
(* taken back, a WAKE that comes short of its count leaves nobody behind,  *)
(* and a broadcast is never lost.                                          *)
(***************************************************************************)
EXTENDS Torpor, FiniteSetTheorems, TLAPS

\* Where the frame of a call is linked.
Queued == {"sleep", "asleep", "resume", "park", "unlink"}

Types ==
    /\ pc \in [Waiters -> {"user", "compare", "lock", "register", "sleep", "asleep",
                           "resume", "park", "unlink"}]
    /\ addr \in [Waiters -> Addrs]
    /\ rc \in [Waiters -> {"OK", "EFAULT", "ETIMEDOUT", "EINTR",
                           "AWOKEN", "TIMEDOUT", "INTR", "NOTEINTR"}]
    /\ bucket \in [1..NBuckets -> Seq(Waiters)]
    /\ torpor_lock \in Waiters \cup Wakers \cup {None}
    /\ word \in [Keys -> {0, 1}]
    /\ wpc \in [Wakers -> {"idle", "call", "walk", "wakeup", "cascade"}]
    /\ op \in [Wakers -> {"wake", "death", "stop", "resume"}]
    /\ key \in [Wakers -> Keys] /\ wbkt \in [Wakers -> 1..NBuckets]
    /\ rest \in [Wakers -> Seq(Waiters)]
    /\ count \in [Wakers -> Nat] /\ woken \in [Wakers -> Nat]
    /\ awoken \in [Waiters -> BOOLEAN] /\ counted \in [Waiters -> BOOLEAN]
    /\ marked \in [Waiters -> Producers \cup {None}]

\* torpor_lock is held by whoever is linking its frame, or walking.
LockInv ==
    /\ \A t \in Waiters : pc[t] = "register" <=> torpor_lock = t
    /\ \A u \in Wakers : InWalk(u) <=> torpor_lock = u

\* The queues hold the frames of the calls in progress, each once, each in the
\* bucket of its word.
QueueInv ==
    \A b \in 1..NBuckets :
        /\ IsInjective(bucket[b])
        /\ \A t \in Waiters : t \in Range(bucket[b]) <=> pc[t] \in Queued /\ Hash[KeyOf(t)] = b

\* What a walk is for, and what it has yet to visit: frames that are linked;
\* all that a WAKE is for and nobody has released.
WalkOf(u) ==
    /\ u \in Producers => op[u] = "wake" /\ (wpc[u] # "idle" => key[u][1] = ProcOf[u])
    /\ u = Control /\ wpc[u] # "idle" => op[u] \in {"death", "stop"} /\ (op[u] = "death" => key[u][1] \in dying)
    /\ InWalk(u) => Range(rest[u]) \subseteq Range(bucket[wbkt[u]])
    /\ wpc[u] = "wakeup" => rest[u] # <<>> /\ (op[u] = "wake" => awoken[Head(rest[u])])
    /\ InWalk(u) /\ op[u] = "wake" => \A t \in Waiters :
          pc[t] \in Queued /\ KeyOf(t) = key[u] => awoken[t] \/ t \in Range(rest[u])
WalkInv == \A u \in Wakers : WalkOf(u)

\* A wait is released by a WAKE of its own Proc, or with the Proc dying.
MarkInv ==
    \A t \in Waiters :
        awoken[t] => Dying(t) \/ (marked[t] # None /\ ProcOf[marked[t]] = ProcOf[t])

\* What tsleep returned, and what the caller gets for it.
ResultInv ==
    \A t \in Waiters :
        /\ pc[t] = "user" => rc[t] \in {"OK", "EFAULT", "ETIMEDOUT", "EINTR"}
        /\ pc[t] = "unlink" /\ rc[t] = "AWOKEN" => awoken[t]
        /\ counted[t] => /\ awoken[t]
                         /\ pc[t] \in {"resume", "sleep", "unlink", "user"}
                         /\ pc[t] = "unlink" => rc[t] \in {"AWOKEN", "INTR"}
                         /\ pc[t] = "user" => rc[t] = "OK"

\* All that the invariant speaks of, but for pc.
others == <<addr, rc, bucket, torpor_lock, word, wpc, op, key, wbkt, rest, count, woken,
            awoken, counted, marked, dying>>

\* The inductive invariant.
TorporInv == Types /\ LockInv /\ QueueInv /\ WalkInv /\ MarkInv /\ ResultInv

\* Every WAKE is for at least as many waiters as there are.
Broadcast == IsFiniteSet(Waiters) /\ \A c \in Counts : c >= Cardinality(Waiters)

\* A broadcast does not stop short.
CastOf(u) ==
    /\ wpc[u] # "idle" => count[u] \in Counts
    /\ wpc[u] = "call" => woken[u] = 0
    /\ InWalk(u) => woken[u] + Len(rest[u]) <= Cardinality(Waiters)

\* t has compared its word under the lock and has been overtaken by a store.
Overtaken(t) == (pc[t] = "register" \/ pc[t] \in Queued) /\ Mismatch(t) /\ ~awoken[t]

\* Whoever has been overtaken has the WAKE coming.
CastInv ==
    /\ \A u \in Producers : CastOf(u)
    /\ \A t \in Waiters : Overtaken(t) => \E u \in Producers : StillToWake(u, t)

\* The key of a waiter names its Proc (struct torpor_waiter).
LEMMA KeyProc ==
    ASSUME NEW t
    PROVE  KeyOf(t)[1] = ProcOf[t]
BY DEF KeyOf

\* A frame is linked at the head of its bucket.
LEMMA PushSet ==
    ASSUME NEW S, NEW s \in Seq(S), NEW e \in S
    PROVE  /\ <<e>> \o s \in Seq(S) /\ Range(<<e>> \o s) = Range(s) \cup {e}
           /\ IsInjective(s) /\ e \notin Range(s) => IsInjective(<<e>> \o s)
<1> DEFINE p == <<e>> \o s
<1>1. p \in Seq(S) /\ Len(p) = Len(s) + 1 /\ p[1] = e /\ \A i \in 1..Len(s) : p[i + 1] = s[i]
  OBVIOUS
<1>2. Len(s) \in Nat /\ DOMAIN s = 1..Len(s) /\ DOMAIN p = 1..Len(s) + 1  OBVIOUS
<1> HIDE DEF p
<1>3. \A i \in 1..Len(s) + 1 : i = 1 \/ (i - 1 \in 1..Len(s) /\ p[i] = s[i - 1])
  <2> SUFFICES ASSUME NEW i \in 1..Len(s) + 1, i # 1 PROVE i - 1 \in 1..Len(s) /\ p[i] = s[i - 1]
    BY Zenon
  <2>1. i - 1 \in 1..Len(s) /\ (i - 1) + 1 = i  BY <1>2
  <2> QED BY Zenon, <1>1, <2>1
<1>4. Range(p) \subseteq Range(s) \cup {e}
  <2> SUFFICES ASSUME NEW i \in 1..Len(s) + 1 PROVE p[i] \in Range(s) \cup {e}
    BY Zenon, <1>2 DEF Range
  <2>1. CASE i = 1  BY Zenon, <1>1, <2>1
  <2>2. CASE i # 1
    <3>1. i - 1 \in DOMAIN s /\ p[i] = s[i - 1]  BY <1>3, <2>2
    <3> QED BY Zenon, <3>1 DEF Range
  <2> QED BY Zenon, <2>1, <2>2
<1>5. Range(s) \cup {e} \subseteq Range(p)
  <2>1. 1 \in 1..Len(s) + 1 /\ \A i \in 1..Len(s) : i + 1 \in 1..Len(s) + 1  BY <1>2
  <2> QED BY Zenon, <1>1, <1>2, <2>1 DEF Range, TorporInv, Types
<1>6. ASSUME IsInjective(s), e \notin Range(s) PROVE IsInjective(p)
  <2> SUFFICES ASSUME NEW i \in 1..Len(s) + 1, NEW j \in 1..Len(s) + 1, p[i] = p[j] PROVE i = j
    BY Zenon, <1>2 DEF IsInjective
  <2>1. \A k \in 1..Len(s) : s[k] # e  BY <1>6 DEF Range
  <2>2. CASE i = 1 \/ j = 1  BY Zenon, <1>1, <1>3, <2>1, <2>2
  <2>3. CASE i # 1 /\ j # 1
    <3>1. /\ i - 1 \in 1..Len(s) /\ p[i] = s[i - 1]
          /\ j - 1 \in 1..Len(s) /\ p[j] = s[j - 1]
      BY Zenon, <1>3, <2>3
    <3>2. i - 1 = j - 1  BY Zenon, <1>2, <1>6, <3>1 DEF IsInjective
    <3> QED BY <1>2, <3>2
  <2> QED BY Zenon, <2>2, <2>3
<1> QED BY Zenon, <1>1, <1>4, <1>5, <1>6 DEF p

\* A walk goes on to the next frame.
LEMMA TailSet ==
    ASSUME NEW S, NEW s \in Seq(S), s # <<>>
    PROVE  /\ Head(s) \in S /\ Head(s) \in Range(s) /\ Tail(s) \in Seq(S)
           /\ Len(s) \in Nat /\ Len(Tail(s)) = Len(s) - 1
           /\ Range(s) = Range(Tail(s)) \cup {Head(s)}
<1>1. /\ Tail(s) \in Seq(S) /\ Len(Tail(s)) = Len(s) - 1 /\ Head(s) \in S /\ Head(s) = s[1]
      /\ \A i \in 1..Len(Tail(s)) : Tail(s)[i] = s[i + 1]
  OBVIOUS
<1>2. Len(s) \in Nat \ {0} /\ DOMAIN s = 1..Len(s) /\ DOMAIN Tail(s) = 1..Len(s) - 1
  OBVIOUS
<1>3. Head(s) \in Range(s)  BY DEF Range
<1>4. Range(Tail(s)) \subseteq Range(s)
  <2>1. \A i \in 1..Len(s) - 1 : i + 1 \in 1..Len(s)  BY <1>2
  <2> QED BY <1>1, <1>2, <2>1 DEF Range
<1>5. ASSUME NEW i \in 1..Len(s) PROVE s[i] \in Range(Tail(s)) \cup {Head(s)}
  <2>1. i = 1 \/ (i - 1 \in 1..Len(s) - 1 /\ (i - 1) + 1 = i)  BY <1>2
  <2> QED BY Zenon, <1>1, <1>2, <2>1 DEF Range, TorporInv, Types
<1> QED BY <1>1, <1>2, <1>3, <1>4, <1>5 DEF Range

\* torpor_bucket_unlink_locked takes out the frame it is given, and no other.
LEMMA RemoveSet ==
    ASSUME NEW S, NEW s \in Seq(S), NEW e, IsInjective(s)
    PROVE  /\ Without(s, e) \in Seq(S) /\ Range(Without(s, e)) = Range(s) \ {e}
           /\ IsInjective(Without(s, e))
<1>0. Len(s) \in Nat /\ DOMAIN s = 1..Len(s) /\ \A i \in 1..Len(s) : s[i] \in S  OBVIOUS
<1>1. CASE e \notin Range(s)
  <2>1. Without(s, e) = s  BY Zenon, <1>1 DEF Without
  <2> QED BY Zenon, <1>1, <2>1
<1>2. CASE e \in Range(s)
  <2>1. PICK i \in 1..Len(s) : s[i] = e  BY <1>2 DEF Range
  <2> DEFINE r == Without(s, e)
             a == SubSeq(s, 1, i - 1)
             z == SubSeq(s, i + 1, Len(s))
  <2>2. \A j \in 1..Len(s) : s[j] = e => j = i  BY <2>1 DEF IsInjective
  <2>3. (CHOOSE j \in 1..Len(s) : s[j] = e) = i  BY Zenon, <2>1, <2>2
  <2>5. r = a \o z  BY Zenon, <1>2, <2>3 DEF Without
  <2>6. a \in Seq(S) /\ Len(a) = i - 1 /\ \A j \in 1..i - 1 : a[j] = s[j]
    OBVIOUS
  <2>7. z \in Seq(S) /\ Len(z) = Len(s) - i /\ \A j \in 1..Len(s) - i : z[j] = s[i + j]
    <3>1. /\ z \in Seq(S) /\ Len(z) = IF i + 1 <= Len(s) THEN Len(s) - (i + 1) + 1 ELSE 0
          /\ \A j \in 1..Len(s) - (i + 1) + 1 : z[j] = s[(i + 1) + j - 1]
      OBVIOUS
    <3>2. Len(s) - (i + 1) + 1 = Len(s) - i /\ \A j \in 1..Len(s) - i : (i + 1) + j - 1 = i + j
      OBVIOUS
    <3> HIDE DEF z
    <3>3. Len(z) = Len(s) - i
      <4>1. CASE i = Len(s)  BY <3>1
      <4>2. CASE i # Len(s)
        <5>1. i \in Nat /\ Len(s) \in Nat /\ i <= Len(s)  BY <1>0
        <5>2. i + 1 <= Len(s)  BY <4>2
        <5> QED BY Zenon, <3>1, <3>2, <5>2
      <4> QED BY Zenon, <4>1, <4>2
    <3> QED BY Zenon, <3>1, <3>2, <3>3
  <2> HIDE DEF a, z, r
  <2>8. /\ r \in Seq(S) /\ Len(r) = Len(s) - 1
        /\ \A j \in 1..Len(s) - 1 : r[j] = IF j < i THEN s[j] ELSE s[j + 1]
    <3>0. a \in Seq(S) /\ z \in Seq(S)  BY Zenon, <2>6, <2>7
    <3>1. /\ r \in Seq(S) /\ Len(r) = Len(a) + Len(z)
          /\ \A j \in 1..Len(a) + Len(z) : r[j] = IF j <= Len(a) THEN a[j] ELSE z[j - Len(a)]
      BY <2>5, <3>0
    <3>2. Len(a) + Len(z) = Len(s) - 1  BY <2>6, <2>7
    <3>3. ASSUME NEW j \in 1..Len(s) - 1 PROVE r[j] = IF j < i THEN s[j] ELSE s[j + 1]
      <4>1. CASE j < i
        <5>1. j \in 1..i - 1 /\ j <= Len(a)  BY <2>6, <4>1
        <5> QED BY Zenon, <2>6, <3>1, <3>2, <4>1, <5>1
      <4>2. CASE ~(j < i)
        <5>1. j - Len(a) \in 1..Len(s) - i /\ i + (j - Len(a)) = j + 1 /\ ~(j <= Len(a))
          BY <2>6, <4>2
        <5> QED BY Zenon, <2>7, <3>1, <3>2, <4>2, <5>1
      <4> QED BY Zenon, <4>1, <4>2
    <3> QED BY Zenon, <3>1, <3>2, <3>3
  <2>9. DOMAIN r = 1..Len(s) - 1  BY <2>8
  <2>10. IsInjective(r)
    <3> SUFFICES ASSUME NEW j \in 1..Len(s) - 1, NEW k \in 1..Len(s) - 1, r[j] = r[k] PROVE j = k
      BY Zenon, <2>9 DEF IsInjective
    <3> DEFINE at(x) == IF x < i THEN x ELSE x + 1
    <3>1. at(j) \in 1..Len(s) /\ at(k) \in 1..Len(s) /\ r[j] = s[at(j)] /\ r[k] = s[at(k)]
      BY <2>8
    <3>2. at(j) = at(k)  BY Zenon, <1>0, <3>1 DEF IsInjective
    <3> QED BY <1>0, <2>1, <3>2
  <2>11. Range(r) \subseteq Range(s) \ {e}
    <3> SUFFICES ASSUME NEW j \in 1..Len(s) - 1 PROVE r[j] \in Range(s) /\ r[j] # e
      BY Zenon, <2>9 DEF Range
    <3> DEFINE x == IF j < i THEN j ELSE j + 1
    <3>1. x \in 1..Len(s) /\ x # i /\ r[j] = s[x]  BY <2>8
    <3> HIDE DEF x
    <3> QED BY Zenon, <1>0, <2>1, <3>1 DEF Range, IsInjective
  <2>12. Range(s) \ {e} \subseteq Range(r)
    <3> SUFFICES ASSUME NEW x \in 1..Len(s), s[x] # e PROVE s[x] \in Range(r)
      BY DEF Range
    <3> DEFINE j == IF x < i THEN x ELSE x - 1
    <3>1. x # i  BY Zenon, <2>1
    <3>2. j \in 1..Len(s) - 1 /\ x = IF j < i THEN j ELSE j + 1  BY <3>1
    <3> HIDE DEF j
    <3>3. r[j] = s[x]  BY Zenon, <2>8, <3>2
    <3> QED BY Zenon, <2>9, <3>2, <3>3 DEF Range
  <2> QED BY Zenon, <2>8, <2>10, <2>11, <2>12 DEF r
<1> QED BY Zenon, <1>1, <1>2

\* A bucket holds no more frames than there are waiters.
LEMMA InjectiveLen ==
    ASSUME NEW S, IsFiniteSet(S), NEW s \in Seq(S), IsInjective(s)
    PROVE  Len(s) <= Cardinality(S)
<1>1. Len(s) \in Nat /\ s \in [1..Len(s) -> S] /\ DOMAIN s = 1..Len(s)  OBVIOUS
<1>2. IsFiniteSet(1..Len(s)) /\ Cardinality(1..Len(s)) = Len(s)
  <2>1. Len(s) \in Int /\ 1 \in Int /\ (IF 1 > Len(s) THEN 0 ELSE Len(s) - 1 + 1) = Len(s)  BY <1>1
  <2> QED BY Zenon, <2>1, FS_Interval
<1>3. s \in Injection(1..Len(s), S)  BY DEF Injection
<1> QED BY <1>2, <1>3, FS_Injection

\* The threads of the model are apart.
LEMMA Apart ==
    /\ Control \in Wakers /\ Control \notin Producers
    /\ \A u \in Wakers : u \notin Waiters /\ u # None /\ (u # Control => u \in Producers)
    /\ \A u \in Producers : u \in Wakers /\ u # None
    /\ \A t \in Waiters : t \notin Wakers /\ t # None
    /\ \A t \in Waiters \cup Producers : ProcOf[t] \in Procs
BY Zenon, TorporAssumption DEF Wakers

\* A word's key has a bucket.
LEMMA KeyType ==
    ASSUME Types
    PROVE  /\ \A t \in Waiters : KeyOf(t) \in Keys /\ Hash[KeyOf(t)] \in 1..NBuckets
           /\ \A u \in Wakers : Hash[key[u]] \in 1..NBuckets
BY Zenon, TorporAssumption DEF Types, KeyOf, Keys

\* A step that leaves alone everything the invariant speaks of.
LEMMA StutterStep ==
    ASSUME TorporInv, UNCHANGED <<pc, others>>
    PROVE  TorporInv'
<1>1. UNCHANGED <<pc, addr, rc, bucket, torpor_lock, word, wpc, op, key, wbkt, rest, count, woken, awoken, counted, marked, dying>>
  BY Zenon DEF others
<1>2. Types'  BY Zenon, <1>1 DEF TorporInv, Types
<1>3. LockInv'  BY Zenon, <1>1 DEF TorporInv, LockInv, InWalk
<1>4. QueueInv'  BY Zenon, <1>1 DEF TorporInv, QueueInv, KeyOf
<1>5. WalkInv'  BY Zenon, <1>1 DEF TorporInv, WalkInv, WalkOf, KeyOf, InWalk
<1>6. MarkInv'  BY Zenon, <1>1 DEF TorporInv, MarkInv, Dying
<1>7. ResultInv'  BY Zenon, <1>1 DEF TorporInv, ResultInv, Types
<1> QED BY Zenon, <1>2, <1>3, <1>4, <1>5, <1>6, <1>7 DEF TorporInv

\* The frame a walk has come to is linked, in the bucket it walks.
LEMMA WalkHead ==
    ASSUME TorporInv, NEW u \in Wakers, InWalk(u), rest[u] # <<>>
    PROVE  /\ rest[u] \in Seq(Waiters) /\ Head(rest[u]) \in Waiters
           /\ Head(rest[u]) \in Range(bucket[wbkt[u]]) /\ pc[Head(rest[u])] \in Queued
           /\ Tail(rest[u]) \in Seq(Waiters) /\ Range(rest[u]) = Range(Tail(rest[u])) \cup {Head(rest[u])}
<1>1. rest[u] \in Seq(Waiters) /\ Range(rest[u]) \subseteq Range(bucket[wbkt[u]]) /\ wbkt[u] \in 1..NBuckets
  BY Zenon DEF TorporInv, Types, WalkInv, WalkOf
<1>2. /\ Head(rest[u]) \in Waiters /\ Head(rest[u]) \in Range(rest[u]) /\ Tail(rest[u]) \in Seq(Waiters)
      /\ Range(rest[u]) = Range(Tail(rest[u])) \cup {Head(rest[u])}
  BY Zenon, <1>1, TailSet
<1> QED BY Zenon, <1>1, <1>2 DEF TorporInv, QueueInv

\* A walk whose frame and bucket a step leaves alone is not disturbed by it.
LEMMA OtherWalk ==
    ASSUME TorporInv, NEW v \in Wakers, bucket' = bucket, addr' = addr, dying \subseteq dying',
           wpc'[v] = wpc[v], op'[v] = op[v], key'[v] = key[v], wbkt'[v] = wbkt[v], rest'[v] = rest[v],
           \A t \in Waiters : pc'[t] \in Queued => pc[t] \in Queued,
           \A t \in Waiters : awoken[t] => awoken'[t]
    PROVE  WalkOf(v)'
<1>1. wpc[v] = "wakeup" => Head(rest[v]) \in Waiters
  BY Zenon, WalkHead DEF TorporInv, WalkInv, WalkOf, InWalk
<1> QED BY Zenon, <1>1 DEF TorporInv, WalkInv, WalkOf, InWalk, KeyOf

\* A linked frame stays linked: tsleep goes on, or is woken.
LEMMA QueuedStep ==
    ASSUME TorporInv, NEW t \in Waiters, pc[t] \in Queued, NEW v \in {"sleep", "asleep", "resume", "park"},
           counted[t] => v \in {"sleep", "resume"}, pc' = [pc EXCEPT ![t] = v],
           UNCHANGED others
    PROVE  TorporInv'
<1>1. /\ pc' = [pc EXCEPT ![t] = v] /\ pc[t] \in Queued /\ v \in {"sleep", "asleep", "resume", "park"}
      /\ UNCHANGED <<addr, rc, bucket, torpor_lock, word, wpc, op, key, wbkt, rest, count, woken, awoken, counted, marked, dying>>
  BY Zenon DEF others
<1>2. Types'  BY <1>1 DEF TorporInv, Types
<1>3. LockInv'
  <2>1. \A s \in Waiters : pc'[s] = "register" <=> pc[s] = "register"  BY Zenon DEF Queued, TorporInv, Types
  <2> QED BY Zenon, <1>1, <2>1 DEF TorporInv, LockInv, InWalk
<1>4. QueueInv'  BY <1>1 DEF TorporInv, QueueInv, Queued, KeyOf
<1>5. WalkInv'
  <2>1. \A s \in Waiters : pc'[s] \in Queued => pc[s] \in Queued  BY Zenon, <1>1 DEF Queued, TorporInv, Types
  <2> SUFFICES ASSUME NEW u \in Wakers PROVE WalkOf(u)'  BY Zenon DEF WalkInv
  <2> QED BY Zenon, <1>1, <2>1, OtherWalk
<1>6. MarkInv'  BY Zenon, <1>1 DEF TorporInv, MarkInv, Dying
<1>7. ResultInv'  BY <1>1 DEF TorporInv, ResultInv
<1> QED BY Zenon, <1>2, <1>3, <1>4, <1>5, <1>6, <1>7 DEF TorporInv

\* tsleep returns: the frame is still linked.
LEMMA LeaveStep ==
    ASSUME TorporInv, NEW t \in Waiters, pc[t] \in Queued, NEW v \in {"AWOKEN", "TIMEDOUT", "INTR", "NOTEINTR"},
           v = "AWOKEN" => awoken[t], counted[t] => v \in {"AWOKEN", "INTR"}, Leave(t, v)
    PROVE  TorporInv'
<1>1. /\ pc' = [pc EXCEPT ![t] = "unlink"] /\ rc' = [rc EXCEPT ![t] = v] /\ pc[t] \in Queued
      /\ UNCHANGED <<addr, bucket, torpor_lock, word, wpc, op, key, wbkt, rest, count, woken, awoken, counted, marked, dying>>
  BY Zenon DEF Leave, waitVars, userVars, procVars, walkVars, history
<1>2. Types'  BY Zenon, <1>1, Apart DEF TorporInv, Types
<1>3. LockInv'
  <2>1. \A s \in Waiters : pc'[s] = "register" <=> pc[s] = "register"  BY Zenon, <1>1 DEF Queued, TorporInv, Types
  <2> QED BY Zenon, <1>1, <2>1 DEF TorporInv, LockInv, InWalk
<1>4. QueueInv'  BY <1>1 DEF TorporInv, QueueInv, Queued, KeyOf
<1>5. WalkInv'
  <2>1. \A s \in Waiters : pc'[s] \in Queued => pc[s] \in Queued  BY Zenon, <1>1 DEF Queued, TorporInv, Types
  <2> SUFFICES ASSUME NEW u \in Wakers PROVE WalkOf(u)'  BY Zenon DEF WalkInv
  <2> QED BY Zenon, <1>1, <2>1, OtherWalk
<1>6. MarkInv'  BY Zenon, <1>1 DEF TorporInv, MarkInv, Dying
<1>7. ResultInv'  BY <1>1 DEF TorporInv, Types, ResultInv
<1> QED BY Zenon, <1>2, <1>3, <1>4, <1>5, <1>6, <1>7 DEF TorporInv

\* A call returns without having linked its frame.
LEMMA BounceStep ==
    ASSUME TorporInv, NEW t \in Waiters, pc[t] \in {"compare", "lock"}, NEW c \in {"OK", "EFAULT"}, Return(t, c),
           UNCHANGED <<bucket, torpor_lock>>
    PROVE  TorporInv'
<1>1. /\ pc' = [pc EXCEPT ![t] = "user"] /\ rc' = [rc EXCEPT ![t] = c] /\ pc[t] \in {"compare", "lock"}
      /\ UNCHANGED <<addr, bucket, torpor_lock, word, wpc, op, key, wbkt, rest, count, woken, awoken, counted, marked, dying>>
  BY Zenon DEF Return, waitVars, userVars, procVars, walkVars, history
<1>2. Types'  BY Zenon, <1>1, Apart DEF TorporInv, Types
<1>3. LockInv'  BY Zenon, <1>1 DEF TorporInv, LockInv, InWalk, Types
<1>4. QueueInv'
  <2>1. \A s \in Waiters : pc'[s] \in Queued <=> pc[s] \in Queued  BY Zenon, <1>1 DEF Queued, TorporInv, Types
  <2>2. \A s \in Waiters : KeyOf(s)' = KeyOf(s)  BY Zenon, <1>1 DEF KeyOf
  <2> QED BY <1>1, <2>1, <2>2 DEF TorporInv, QueueInv
<1>5. WalkInv'
  <2>1. \A s \in Waiters : pc'[s] \in Queued => pc[s] \in Queued  BY Zenon, <1>1 DEF Queued, TorporInv, Types
  <2> SUFFICES ASSUME NEW u \in Wakers PROVE WalkOf(u)'  BY Zenon DEF WalkInv
  <2> QED BY Zenon, <1>1, <2>1, OtherWalk
<1>6. MarkInv'  BY Zenon, <1>1 DEF TorporInv, MarkInv, Dying
<1>7. ResultInv'  BY Zenon, <1>1 DEF TorporInv, Types, ResultInv
<1> QED BY Zenon, <1>2, <1>3, <1>4, <1>5, <1>6, <1>7 DEF TorporInv

\* The first compare succeeds.
LEMMA ToLockStep ==
    ASSUME TorporInv, NEW t \in Waiters, pc[t] = "compare", StepTo(t, "lock"), UNCHANGED <<bucket, torpor_lock>>
    PROVE  TorporInv'
<1>1. /\ pc' = [pc EXCEPT ![t] = "lock"] /\ pc[t] = "compare"
      /\ UNCHANGED <<addr, rc, bucket, torpor_lock, word, wpc, op, key, wbkt, rest, count, woken, awoken, counted, marked, dying>>
  BY Zenon DEF StepTo, waitVars, userVars, procVars, walkVars, history
<1>2. Types'  BY Zenon, <1>1 DEF TorporInv, Types
<1>3. LockInv'  BY Zenon, <1>1 DEF TorporInv, LockInv, InWalk, Types
<1>4. QueueInv'
  <2>1. \A s \in Waiters : pc'[s] \in Queued <=> pc[s] \in Queued  BY Zenon, <1>1 DEF Queued, TorporInv, Types
  <2>2. \A s \in Waiters : KeyOf(s)' = KeyOf(s)  BY Zenon, <1>1 DEF KeyOf
  <2> QED BY <1>1, <2>1, <2>2 DEF TorporInv, QueueInv
<1>5. WalkInv'
  <2>1. \A s \in Waiters : pc'[s] \in Queued => pc[s] \in Queued  BY Zenon, <1>1 DEF Queued, TorporInv, Types
  <2> SUFFICES ASSUME NEW u \in Wakers PROVE WalkOf(u)'  BY Zenon DEF WalkInv
  <2> QED BY Zenon, <1>1, <2>1, OtherWalk
<1>6. MarkInv'  BY Zenon, <1>1 DEF TorporInv, MarkInv, Dying
<1>7. ResultInv'  BY Zenon, <1>1 DEF TorporInv, ResultInv, Types
<1> QED BY Zenon, <1>2, <1>3, <1>4, <1>5, <1>6, <1>7 DEF TorporInv

\* The compare under the lock succeeds.
LEMMA ToRegisterStep ==
    ASSUME TorporInv, NEW t \in Waiters, pc[t] = "lock", torpor_lock = None, StepTo(t, "register"), torpor_lock' = t, UNCHANGED bucket
    PROVE  TorporInv'
<1>1. /\ pc' = [pc EXCEPT ![t] = "register"] /\ pc[t] = "lock" /\ torpor_lock = None /\ torpor_lock' = t
      /\ UNCHANGED <<addr, rc, bucket, word, wpc, op, key, wbkt, rest, count, woken, awoken, counted, marked, dying>>
  BY Zenon DEF StepTo, waitVars, userVars, procVars, walkVars, history
<1>2. Types'  BY Zenon, <1>1 DEF TorporInv, Types
<1>3. LockInv'  BY <1>1, Apart DEF TorporInv, Types, LockInv, InWalk
<1>4. QueueInv'
  <2>1. \A s \in Waiters : pc'[s] \in Queued <=> pc[s] \in Queued  BY Zenon, <1>1 DEF Queued, TorporInv, Types
  <2>2. \A s \in Waiters : KeyOf(s)' = KeyOf(s)  BY Zenon, <1>1 DEF KeyOf
  <2> QED BY <1>1, <2>1, <2>2 DEF TorporInv, QueueInv
<1>5. WalkInv'
  <2>1. \A s \in Waiters : pc'[s] \in Queued => pc[s] \in Queued  BY Zenon, <1>1 DEF Queued, TorporInv, Types
  <2> SUFFICES ASSUME NEW u \in Wakers PROVE WalkOf(u)'  BY Zenon DEF WalkInv
  <2> QED BY Zenon, <1>1, <2>1, OtherWalk
<1>6. MarkInv'  BY Zenon, <1>1 DEF TorporInv, MarkInv, Dying
<1>7. ResultInv'  BY Zenon, <1>1 DEF TorporInv, ResultInv, Types
<1> QED BY Zenon, <1>2, <1>3, <1>4, <1>5, <1>6, <1>7 DEF TorporInv

\* A dying caller is not linked.
LEMMA DyingStep ==
    ASSUME TorporInv, NEW t \in Waiters, pc[t] = "register", torpor_lock' = None, Return(t, "OK"), UNCHANGED bucket
    PROVE  TorporInv'
<1>1. /\ pc' = [pc EXCEPT ![t] = "user"] /\ rc' = [rc EXCEPT ![t] = "OK"] /\ pc[t] = "register"
      /\ torpor_lock = t /\ torpor_lock' = None
      /\ UNCHANGED <<addr, bucket, word, wpc, op, key, wbkt, rest, count, woken, awoken, counted, marked, dying>>
  BY Zenon DEF Return, waitVars, userVars, procVars, walkVars, history, TorporInv, LockInv
<1>2. Types'  BY Zenon, <1>1 DEF TorporInv, Types
<1>3. LockInv'  BY <1>1, Apart DEF TorporInv, Types, LockInv, InWalk
<1>4. QueueInv'
  <2>1. \A s \in Waiters : pc'[s] \in Queued <=> pc[s] \in Queued  BY Zenon, <1>1 DEF Queued, TorporInv, Types
  <2>2. \A s \in Waiters : KeyOf(s)' = KeyOf(s)  BY Zenon, <1>1 DEF KeyOf
  <2> QED BY <1>1, <2>1, <2>2 DEF TorporInv, QueueInv
<1>5. WalkInv'
  <2>1. \A s \in Waiters : pc'[s] \in Queued => pc[s] \in Queued  BY Zenon, <1>1 DEF Queued, TorporInv, Types
  <2> SUFFICES ASSUME NEW u \in Wakers PROVE WalkOf(u)'  BY Zenon DEF WalkInv
  <2> QED BY Zenon, <1>1, <2>1, OtherWalk
<1>6. MarkInv'  BY Zenon, <1>1 DEF TorporInv, MarkInv, Dying
<1>7. ResultInv'  BY Zenon, <1>1 DEF TorporInv, Types, ResultInv
<1> QED BY Zenon, <1>2, <1>3, <1>4, <1>5, <1>6, <1>7 DEF TorporInv

\* A call begins.
LEMMA WaitStep ==
    ASSUME TorporInv, NEW t \in Waiters, Wait(t)
    PROVE  TorporInv'
<1>1. /\ pc' = [pc EXCEPT ![t] = "compare"] /\ pc[t] = "user"
      /\ \E a \in Addrs : addr' = [addr EXCEPT ![t] = a]
      /\ awoken' = [awoken EXCEPT ![t] = FALSE] /\ marked' = [marked EXCEPT ![t] = None]
      /\ counted' = [counted EXCEPT ![t] = FALSE]
      /\ UNCHANGED <<rc, bucket, torpor_lock, word, wpc, op, key, wbkt, rest, count, woken, dying>>
  BY Zenon DEF Wait, userVars, procVars, walkVars
<1>2. Types'  BY Zenon, <1>1 DEF TorporInv, Types
<1>3. LockInv'  BY Zenon, <1>1 DEF TorporInv, LockInv, InWalk, Types
<1>4. QueueInv'
  <2>1. \A s \in Waiters : pc'[s] \in Queued <=> pc[s] \in Queued  BY Zenon, <1>1 DEF Queued, TorporInv, Types
  <2>2. pc[t] \notin Queued /\ \A s \in Waiters \ {t} : KeyOf(s)' = KeyOf(s)
    BY Zenon, <1>1 DEF KeyOf, Queued, TorporInv, Types
  <2> QED BY <1>1, <2>1, <2>2 DEF TorporInv, QueueInv
<1>5. WalkInv'
  <2>1. pc[t] \notin Queued /\ pc'[t] \notin Queued
        /\ \A s \in Waiters \ {t} : KeyOf(s)' = KeyOf(s) /\ pc'[s] = pc[s] /\ awoken'[s] = awoken[s]
    BY Zenon, <1>1 DEF KeyOf, Queued, TorporInv, Types
  <2> SUFFICES ASSUME NEW u \in Wakers
               PROVE  /\ wpc[u] = "wakeup" /\ op[u] = "wake" => awoken'[Head(rest[u])]
                      /\ InWalk(u) /\ op[u] = "wake" => \A s \in Waiters :
                            pc'[s] \in Queued /\ KeyOf(s)' = key[u] => awoken'[s] \/ s \in Range(rest[u])
    BY Zenon, <1>1 DEF TorporInv, WalkInv, WalkOf, InWalk
  <2>2. wpc[u] = "wakeup" => Head(rest[u]) \in Waiters \ {t}
    <3> SUFFICES ASSUME wpc[u] = "wakeup" PROVE Head(rest[u]) \in Waiters \ {t}  BY Zenon
    <3>1. rest[u] \in Seq(Waiters) /\ rest[u] # <<>> /\ Range(rest[u]) \subseteq Range(bucket[wbkt[u]]) /\ wbkt[u] \in 1..NBuckets
      BY Zenon DEF TorporInv, Types, WalkInv, WalkOf, InWalk
    <3>2. Head(rest[u]) \in Waiters /\ Head(rest[u]) \in Range(rest[u])  BY Zenon, <3>1, TailSet
    <3> QED BY <2>1, <3>1, <3>2 DEF TorporInv, QueueInv
  <2>3. wpc[u] = "wakeup" /\ op[u] = "wake" => awoken'[Head(rest[u])]  BY Zenon, <2>1, <2>2 DEF TorporInv,
        WalkInv, WalkOf
  <2> QED BY Zenon, <2>1, <2>3 DEF TorporInv, WalkInv, WalkOf, Types
<1>6. MarkInv'
  <2>1. ~awoken'[t] /\ \A s \in Waiters \ {t} : awoken'[s] = awoken[s] /\ marked'[s] = marked[s]
    BY Zenon, <1>1 DEF TorporInv, Types
  <2> QED BY <1>1, <2>1 DEF TorporInv, MarkInv, Dying
<1>7. ResultInv'  BY <1>1 DEF TorporInv, Types, ResultInv
<1> QED BY Zenon, <1>2, <1>3, <1>4, <1>5, <1>6, <1>7 DEF TorporInv


\* The frame is linked at the head of its bucket.
LEMMA LinkStep ==
    ASSUME TorporInv, NEW t \in Waiters, pc[t] = "register", torpor_lock' = None, StepTo(t, "sleep"),
           bucket' = [bucket EXCEPT ![Hash[KeyOf(t)]] = <<t>> \o @]
    PROVE  TorporInv'
<1>1. /\ pc' = [pc EXCEPT ![t] = "sleep"] /\ pc[t] = "register"
      /\ torpor_lock = t /\ torpor_lock' = None
      /\ bucket' = [bucket EXCEPT ![Hash[KeyOf(t)]] = <<t>> \o bucket[Hash[KeyOf(t)]]]
      /\ UNCHANGED <<addr, rc, word, wpc, op, key, wbkt, rest, count, woken, awoken, counted, marked, dying>>
  BY Zenon DEF StepTo, waitVars, userVars, procVars, walkVars, history, TorporInv, LockInv
<1>2. Types'
  <2>1. Hash[KeyOf(t)] \in 1..NBuckets /\ bucket[Hash[KeyOf(t)]] \in Seq(Waiters)  BY Zenon, KeyType DEF
        TorporInv, Types
  <2>2. <<t>> \o bucket[Hash[KeyOf(t)]] \in Seq(Waiters)  BY <2>1
  <2>3. bucket' \in [1..NBuckets -> Seq(Waiters)]  BY <2>1 DEF TorporInv, Types
  <2> QED BY Zenon, <1>1, <2>3 DEF TorporInv, Types
<1>3. LockInv'
  <2>1. \A s \in Waiters : pc'[s] # "register"  BY Zenon, <1>1 DEF TorporInv, Types, LockInv
  <2>2. \A v \in Wakers : ~InWalk(v)' /\ torpor_lock' # v  BY Zenon, <1>1, Apart DEF TorporInv, LockInv, InWalk
  <2> QED BY Zenon, <1>1, <2>1, <2>2, Apart DEF LockInv
<1>4. QueueInv'
  <2>1. /\ pc'[t] \in Queued /\ pc[t] \notin Queued /\ \A s \in Waiters \ {t} : pc'[s] = pc[s]
        /\ \A s \in Waiters : KeyOf(s)' = KeyOf(s)
    BY Zenon, <1>1 DEF TorporInv, Types, KeyOf, Queued
  <2>2. SUFFICES ASSUME NEW b \in 1..NBuckets
                 PROVE  /\ IsInjective(bucket'[b])
                        /\ \A s \in Waiters : s \in Range(bucket'[b]) <=> pc'[s] \in Queued /\ Hash[KeyOf(s)] = b
    BY <2>1 DEF QueueInv
  <2>3. CASE b = Hash[KeyOf(t)]
    <3>1. bucket'[b] = <<t>> \o bucket[b] /\ bucket[b] \in Seq(Waiters) /\ t \notin Range(bucket[b]) /\ IsInjective(bucket[b])
      BY <2>1, <2>3 DEF TorporInv, Types, QueueInv
    <3>2. Range(bucket'[b]) = Range(bucket[b]) \cup {t} /\ IsInjective(bucket'[b])  BY <3>1, PushSet
    <3> QED BY <2>1, <2>3, <3>2 DEF TorporInv, QueueInv
  <2>4. CASE b # Hash[KeyOf(t)]
    <3>1. bucket'[b] = bucket[b]  BY Zenon, <2>4 DEF TorporInv, Types
    <3> QED BY Zenon, <2>1, <2>4, <3>1 DEF TorporInv, QueueInv, Types
  <2> QED BY Zenon, <2>3, <2>4
<1>5. WalkInv'
  <2>1. \A v \in Wakers : ~InWalk(v) /\ wpc[v] # "wakeup"  BY Zenon, Apart DEF TorporInv, LockInv, InWalk
  <2> QED BY Zenon, <1>1, <2>1 DEF TorporInv, WalkInv, WalkOf, InWalk
<1>6. MarkInv'  BY Zenon, <1>1 DEF TorporInv, MarkInv, Dying
<1>7. ResultInv'  BY <1>1 DEF TorporInv, ResultInv
<1> QED BY Zenon, <1>2, <1>3, <1>4, <1>5, <1>6, <1>7 DEF TorporInv

\* The frame is unlinked and the call returns.
LEMMA UnlinkStep ==
    ASSUME TorporInv, NEW t \in Waiters, Unlink(t)
    PROVE  TorporInv'
<1>1. /\ pc' = [pc EXCEPT ![t] = "user"] /\ pc[t] = "unlink" /\ torpor_lock = None
      /\ rc' = [rc EXCEPT ![t] = IF rc[t] = "TIMEDOUT" THEN "ETIMEDOUT" ELSE IF rc[t] = "NOTEINTR" THEN "EINTR" ELSE "OK"]
      /\ bucket' = [bucket EXCEPT ![Hash[KeyOf(t)]] = Without(bucket[Hash[KeyOf(t)]], t)]
      /\ UNCHANGED <<addr, torpor_lock, word, wpc, op, key, wbkt, rest, count, woken, awoken, counted, marked, dying>>
  BY Zenon DEF Unlink, Return, waitVars, userVars, procVars, walkVars, history
<1>2. Types'
  <2>1. Hash[KeyOf(t)] \in 1..NBuckets /\ bucket[Hash[KeyOf(t)]] \in Seq(Waiters)  BY Zenon, KeyType DEF
        TorporInv, Types
  <2>2. Without(bucket[Hash[KeyOf(t)]], t) \in Seq(Waiters)  
    <3>1. IsInjective(bucket[Hash[KeyOf(t)]]) /\ t \in Range(bucket[Hash[KeyOf(t)]])
      BY Zenon, <1>1, <2>1 DEF TorporInv, QueueInv, Queued
    <3> QED BY Zenon, <2>1, <3>1, RemoveSet
  <2>3. bucket' \in [1..NBuckets -> Seq(Waiters)]  BY Zenon, <1>1, <2>1, <2>2 DEF TorporInv, Types
  <2> QED BY Zenon, <1>1, <2>3 DEF TorporInv, Types
<1>3. LockInv'
  <2>1. \A s \in Waiters : pc'[s] = "register" <=> pc[s] = "register"  BY Zenon, <1>1 DEF TorporInv, Types
  <2> QED BY Zenon, <1>1, <2>1 DEF TorporInv, LockInv, InWalk
<1>4. QueueInv'
  <2>1. /\ pc'[t] \notin Queued /\ pc[t] \in Queued /\ \A s \in Waiters \ {t} : pc'[s] = pc[s]
        /\ \A s \in Waiters : KeyOf(s)' = KeyOf(s)
    BY Zenon, <1>1 DEF TorporInv, Types, KeyOf, Queued
  <2>2. SUFFICES ASSUME NEW b \in 1..NBuckets
                 PROVE  /\ IsInjective(bucket'[b])
                        /\ \A s \in Waiters : s \in Range(bucket'[b]) <=> pc'[s] \in Queued /\ Hash[KeyOf(s)] = b
    BY <2>1 DEF QueueInv
  <2>3. CASE b = Hash[KeyOf(t)]
    <3>1. bucket'[b] = Without(bucket[b], t) /\ bucket[b] \in Seq(Waiters) /\ t \in Range(bucket[b]) /\ IsInjective(bucket[b])
      BY <1>1, <2>1, <2>3 DEF TorporInv, Types, QueueInv
    <3>2. Range(bucket'[b]) = Range(bucket[b]) \ {t} /\ IsInjective(bucket'[b])  BY <3>1, RemoveSet
    <3> QED BY <2>1, <2>3, <3>2 DEF TorporInv, QueueInv
  <2>4. CASE b # Hash[KeyOf(t)]
    <3>1. bucket'[b] = bucket[b]  BY Zenon, <1>1, <2>4 DEF TorporInv, Types
    <3> QED BY <2>1, <2>4, <3>1 DEF TorporInv, QueueInv
  <2> QED BY Zenon, <2>3, <2>4
<1>5. WalkInv'
  <2>1. \A v \in Wakers : ~InWalk(v) /\ wpc[v] # "wakeup"  BY Zenon, <1>1, Apart DEF TorporInv, LockInv,
        InWalk
  <2> QED BY Zenon, <1>1, <2>1 DEF TorporInv, WalkInv, WalkOf, InWalk
<1>6. MarkInv'  BY Zenon, <1>1 DEF TorporInv, MarkInv, Dying
<1>7. ResultInv'  BY Zenon, <1>1 DEF TorporInv, Types, ResultInv
<1> QED BY Zenon, <1>2, <1>3, <1>4, <1>5, <1>6, <1>7 DEF TorporInv

\* A producer stores to a word and calls WAKE.
LEMMA StoreStep ==
    ASSUME TorporInv, NEW u \in Wakers, Store(u)
    PROVE  TorporInv'
<1>1. /\ wpc' = [wpc EXCEPT ![u] = "call"] /\ wpc[u] = "idle" /\ u \in Producers /\ woken' = [woken EXCEPT ![u] = 0]
      /\ \E a \in Addrs, v \in {0, 1}, c \in Counts :
            /\ word' = [word EXCEPT ![<<ProcOf[u], a>>] = v] /\ key' = [key EXCEPT ![u] = <<ProcOf[u], a>>]
            /\ count' = [count EXCEPT ![u] = c]
      /\ UNCHANGED <<pc, addr, rc, bucket, torpor_lock, op, wbkt, rest, awoken, counted, marked, dying>>
  BY Zenon DEF Store, waitVars, userVars, procVars, history
<1>2. Types'
  <2> PICK a \in Addrs, v \in {0, 1}, c \in Counts :
          /\ word' = [word EXCEPT ![<<ProcOf[u], a>>] = v] /\ key' = [key EXCEPT ![u] = <<ProcOf[u], a>>]
          /\ count' = [count EXCEPT ![u] = c]
    BY Zenon, <1>1
  <2>1. <<ProcOf[u], a>> \in Keys /\ c \in Nat  BY Zenon, <1>1, TorporAssumption DEF Keys
  <2> QED BY Zenon, <1>1, <2>1 DEF TorporInv, Types
<1>3. LockInv'
  <2>1. \A v \in Wakers : InWalk(v)' <=> InWalk(v)  BY Zenon, <1>1 DEF InWalk, TorporInv, Types
  <2> QED BY Zenon, <1>1, <2>1 DEF TorporInv, LockInv
<1>4. QueueInv'  BY Zenon, <1>1 DEF TorporInv, QueueInv, KeyOf
<1>5. WalkInv'
  <2> SUFFICES ASSUME NEW v \in Wakers PROVE WalkOf(v)'  BY Zenon DEF WalkInv
  <2>1. CASE v # u
    <3>1. /\ wpc'[v] = wpc[v] /\ op'[v] = op[v] /\ key'[v] = key[v] /\ wbkt'[v] = wbkt[v] /\ rest'[v] = rest[v]
          /\ bucket' = bucket /\ addr' = addr /\ dying \subseteq dying'
          /\ \A s \in Waiters : pc'[s] \in Queued => pc[s] \in Queued
          /\ \A s \in Waiters : awoken[s] => awoken'[s]
      BY ZenonT(40), <1>1, <2>1 DEF TorporInv, Types
    <3> QED BY Zenon, <3>1, OtherWalk
  <2>2. CASE v = u
    <3>1. wpc'[u] = "call" /\ op'[u] = "wake" /\ key'[u][1] = ProcOf[u] /\ u # Control
      BY <1>1, Apart DEF TorporInv, Types, WalkInv, WalkOf
    <3> QED BY Zenon, <2>2, <3>1 DEF WalkOf, InWalk
  <2> QED BY Zenon, <2>1, <2>2
<1>6. MarkInv'  BY Zenon, <1>1 DEF TorporInv, MarkInv, Dying
<1>7. ResultInv'  BY Zenon, <1>1 DEF TorporInv, ResultInv
<1> QED BY Zenon, <1>2, <1>3, <1>4, <1>5, <1>6, <1>7 DEF TorporInv

\* A WAKE of nobody returns.
LEMMA WakeNoneStep ==
    ASSUME TorporInv, NEW u \in Wakers, WakeNone(u)
    PROVE  TorporInv'
<1>1. /\ wpc' = [wpc EXCEPT ![u] = "idle"] /\ wpc[u] = "call"
      /\ UNCHANGED <<pc, addr, rc, bucket, torpor_lock, word, op, key, wbkt, rest, count, woken, awoken, counted, marked, dying>>
  BY Zenon DEF WakeNone, waitVars, userVars, procVars, history
<1>2. Types'  BY Zenon, <1>1, Apart DEF TorporInv, Types
<1>3. LockInv'
  <2>1. \A v \in Wakers : InWalk(v)' <=> InWalk(v)  BY Zenon, <1>1 DEF InWalk, TorporInv, Types
  <2> QED BY Zenon, <1>1, <2>1 DEF TorporInv, LockInv
<1>4. QueueInv'  BY Zenon, <1>1 DEF TorporInv, QueueInv, KeyOf
<1>5. WalkInv'
  <2> SUFFICES ASSUME NEW v \in Wakers PROVE WalkOf(v)'  BY Zenon DEF WalkInv
  <2>1. CASE v # u
    <3>1. /\ wpc'[v] = wpc[v] /\ op'[v] = op[v] /\ key'[v] = key[v] /\ wbkt'[v] = wbkt[v] /\ rest'[v] = rest[v]
          /\ bucket' = bucket /\ addr' = addr /\ dying \subseteq dying'
          /\ \A s \in Waiters : pc'[s] \in Queued => pc[s] \in Queued
          /\ \A s \in Waiters : awoken[s] => awoken'[s]
      BY Zenon, <1>1, <2>1 DEF TorporInv, Types
    <3> QED BY Zenon, <3>1, OtherWalk
  <2>2. CASE v = u
    BY Zenon, <1>1, <2>2 DEF TorporInv, WalkInv, WalkOf, InWalk, Types
  <2> QED BY Zenon, <2>1, <2>2
<1>6. MarkInv'  BY Zenon, <1>1 DEF TorporInv, MarkInv, Dying
<1>7. ResultInv'  BY Zenon, <1>1 DEF TorporInv, ResultInv
<1> QED BY Zenon, <1>2, <1>3, <1>4, <1>5, <1>6, <1>7 DEF TorporInv

\* A death or stop walk returns.
LEMMA CascadeEndStep ==
    ASSUME TorporInv, NEW u \in Wakers, CascadeEnd(u)
    PROVE  TorporInv'
<1>1. /\ wpc' = [wpc EXCEPT ![u] = "idle"] /\ wpc[u] = "cascade"
      /\ UNCHANGED <<pc, addr, rc, bucket, torpor_lock, word, op, key, wbkt, rest, count, woken, awoken, counted, marked, dying>>
  BY Zenon DEF CascadeEnd, waitVars, userVars, procVars, history
<1>2. Types'  BY Zenon, <1>1, Apart DEF TorporInv, Types
<1>3. LockInv'
  <2>1. \A v \in Wakers : InWalk(v)' <=> InWalk(v)  BY Zenon, <1>1 DEF InWalk, TorporInv, Types
  <2> QED BY Zenon, <1>1, <2>1 DEF TorporInv, LockInv
<1>4. QueueInv'  BY Zenon, <1>1 DEF TorporInv, QueueInv, KeyOf
<1>5. WalkInv'
  <2> SUFFICES ASSUME NEW v \in Wakers PROVE WalkOf(v)'  BY Zenon DEF WalkInv
  <2>1. CASE v # u
    <3>1. /\ wpc'[v] = wpc[v] /\ op'[v] = op[v] /\ key'[v] = key[v] /\ wbkt'[v] = wbkt[v] /\ rest'[v] = rest[v]
          /\ bucket' = bucket /\ addr' = addr /\ dying \subseteq dying'
          /\ \A s \in Waiters : pc'[s] \in Queued => pc[s] \in Queued
          /\ \A s \in Waiters : awoken[s] => awoken'[s]
      BY Zenon, <1>1, <2>1 DEF TorporInv, Types
    <3> QED BY Zenon, <3>1, OtherWalk
  <2>2. CASE v = u
    BY Zenon, <1>1, <2>2 DEF TorporInv, WalkInv, WalkOf, InWalk, Types
  <2> QED BY Zenon, <2>1, <2>2
<1>6. MarkInv'  BY Zenon, <1>1 DEF TorporInv, MarkInv, Dying
<1>7. ResultInv'  BY Zenon, <1>1 DEF TorporInv, ResultInv
<1> QED BY Zenon, <1>2, <1>3, <1>4, <1>5, <1>6, <1>7 DEF TorporInv

\* A death, a stop or a resume is published.
LEMMA BeginStep ==
    ASSUME TorporInv, NEW what \in {"death", "stop", "resume"}, NEW p \in Procs, Begin(what, p)
    PROVE  TorporInv'
<1>1. /\ wpc[Control] = "idle" /\ wpc' = [wpc EXCEPT ![Control] = IF what = "resume" THEN "idle" ELSE "call"]
      /\ op' = [op EXCEPT ![Control] = what] /\ dying \subseteq dying' /\ (what = "death" => p \in dying')
      /\ key' = [key EXCEPT ![Control] = <<p, CHOOSE a \in Addrs : TRUE>>]
      /\ UNCHANGED <<pc, addr, rc, bucket, torpor_lock, word, wbkt, rest, count, woken, awoken, counted, marked>>
  BY Zenon DEF Begin, waitVars, userVars, history
<1>2. Types'
  <2>1. <<p, CHOOSE a \in Addrs : TRUE>> \in Keys  BY Zenon, TorporAssumption DEF Keys
  <2> QED BY Zenon, <1>1, <2>1, Apart DEF TorporInv, Types
<1>3. LockInv'
  <2>1. \A v \in Wakers : InWalk(v)' <=> InWalk(v)  BY Zenon, <1>1 DEF InWalk, TorporInv, Types
  <2> QED BY Zenon, <1>1, <2>1 DEF TorporInv, LockInv
<1>4. QueueInv'  BY Zenon, <1>1 DEF TorporInv, QueueInv, KeyOf
<1>5. WalkInv'
  <2> SUFFICES ASSUME NEW v \in Wakers PROVE WalkOf(v)'  BY Zenon DEF WalkInv
  <2>1. CASE v # Control
    <3>1. /\ wpc'[v] = wpc[v] /\ op'[v] = op[v] /\ key'[v] = key[v] /\ wbkt'[v] = wbkt[v] /\ rest'[v] = rest[v]
          /\ bucket' = bucket /\ addr' = addr /\ dying \subseteq dying'
          /\ \A s \in Waiters : pc'[s] \in Queued => pc[s] \in Queued
          /\ \A s \in Waiters : awoken[s] => awoken'[s]
      BY Zenon, <1>1, <2>1 DEF TorporInv, Types
    <3> QED BY Zenon, <3>1, OtherWalk
  <2>2. CASE v = Control
    <3>1. /\ wpc'[v] \in {"idle", "call"} /\ (what = "resume" => wpc'[v] = "idle") /\ op'[v] = what /\ key'[v][1] = p
      BY Zenon, <1>1, <2>2 DEF TorporInv, Types
    <3> QED BY Zenon, <1>1, <2>2, <3>1, Apart DEF WalkOf, InWalk
  <2> QED BY Zenon, <2>1, <2>2
<1>6. MarkInv'  BY Zenon, <1>1 DEF TorporInv, MarkInv, Dying
<1>7. ResultInv'  BY Zenon, <1>1 DEF TorporInv, ResultInv
<1> QED BY Zenon, <1>2, <1>3, <1>4, <1>5, <1>6, <1>7 DEF TorporInv

\* A walk takes the lock and reads the head of its bucket.
LEMMA WalkLockStep ==
    ASSUME TorporInv, NEW u \in Wakers, WalkLock(u)
    PROVE  TorporInv'
<1>1. /\ wpc' = [wpc EXCEPT ![u] = "walk"] /\ wpc[u] = "call" /\ torpor_lock = None /\ torpor_lock' = u
      /\ \E b \in 1..NBuckets : /\ (op[u] = "wake" => b = Hash[key[u]])
                              /\ wbkt' = [wbkt EXCEPT ![u] = b] /\ rest' = [rest EXCEPT ![u] = bucket[b]]
      /\ UNCHANGED <<pc, addr, rc, bucket, word, op, key, count, woken, awoken, counted, marked, dying>>
  <2>1. /\ 1 \in 1..NBuckets /\ Hash[key[u]] \in 1..NBuckets  BY KeyType, TorporAssumption DEF
        TorporInv
  <2> QED BY Zenon, <2>1 DEF WalkLock, waitVars, userVars, procVars, history
<1>2. Types'
  <2>1. torpor_lock' \in Waiters \cup Wakers \cup {None} /\ wpc' \in [Wakers -> {"idle", "call", "walk", "wakeup", "cascade"}]
    BY Zenon, <1>1 DEF TorporInv, Types
  <2>2. wbkt' \in [Wakers -> 1..NBuckets] /\ rest' \in [Wakers -> Seq(Waiters)]
    <3> PICK b \in 1..NBuckets : wbkt' = [wbkt EXCEPT ![u] = b] /\ rest' = [rest EXCEPT ![u] = bucket[b]]
      BY Zenon, <1>1
    <3> QED BY Zenon DEF TorporInv, Types
  <2> QED BY Zenon, <1>1, <2>1, <2>2 DEF TorporInv, Types
<1>3. LockInv'
  <2>1. InWalk(u)' /\ \A v \in Wakers \ {u} : InWalk(v)' <=> InWalk(v)  BY Zenon, <1>1 DEF TorporInv,
        Types, InWalk
  <2> QED BY Zenon, <1>1, <2>1, Apart DEF TorporInv, LockInv
<1>4. QueueInv'  BY Zenon, <1>1 DEF TorporInv, QueueInv, KeyOf
<1>5. WalkInv'
  <2> SUFFICES ASSUME NEW v \in Wakers PROVE WalkOf(v)'  BY Zenon DEF WalkInv
  <2>1. CASE v # u
    <3>1. /\ wpc'[v] = wpc[v] /\ op'[v] = op[v] /\ key'[v] = key[v] /\ wbkt'[v] = wbkt[v] /\ rest'[v] = rest[v]
          /\ bucket' = bucket /\ addr' = addr /\ dying \subseteq dying'
          /\ \A s \in Waiters : pc'[s] \in Queued => pc[s] \in Queued
          /\ \A s \in Waiters : awoken[s] => awoken'[s]
      BY Zenon, <1>1, <2>1 DEF TorporInv, Types
    <3> QED BY Zenon, <3>1, OtherWalk
  <2>2. CASE v = u
    <3> PICK b \in 1..NBuckets : /\ (op[u] = "wake" => b = Hash[key[u]])
                                  /\ wbkt' = [wbkt EXCEPT ![u] = b] /\ rest' = [rest EXCEPT ![u] = bucket[b]]
      BY Zenon, <1>1
    <3>1. wpc'[u] = "walk" /\ wbkt'[u] = b /\ rest'[u] = bucket[b] /\ op'[u] = op[u] /\ key'[u] = key[u]
      BY Zenon, <1>1 DEF TorporInv, Types
    <3>2. op[u] = "wake" => \A t \in Waiters : pc[t] \in Queued /\ KeyOf(t) = key[u] => t \in Range(bucket[b])
      BY Zenon DEF TorporInv, QueueInv
    <3>3. /\ WalkOf(u) /\ pc' = pc /\ addr' = addr /\ bucket' = bucket /\ awoken' = awoken /\ dying' = dying
          /\ wpc[u] # "idle"
      BY Zenon, <1>1 DEF TorporInv, WalkInv
    <3> QED BY Zenon, <2>2, <3>1, <3>2, <3>3 DEF WalkOf, KeyOf
  <2> QED BY Zenon, <2>1, <2>2
<1>6. MarkInv'  BY Zenon, <1>1 DEF TorporInv, MarkInv, Dying
<1>7. ResultInv'  BY Zenon, <1>1 DEF TorporInv, ResultInv, Types
<1> QED BY Zenon, <1>2, <1>3, <1>4, <1>5, <1>6, <1>7 DEF TorporInv

\* A walk passes a waiter it is not for.
LEMMA WalkSkipStep ==
    ASSUME TorporInv, NEW u \in Wakers, WalkSkip(u)
    PROVE  TorporInv'
<1>1. /\ wpc[u] = "walk" /\ rest[u] # <<>> /\ ~Matches(u, Head(rest[u])) /\ InWalk(u)
      /\ rest' = [rest EXCEPT ![u] = Tail(rest[u])]
      /\ UNCHANGED <<pc, addr, rc, bucket, torpor_lock, word, wpc, op, key, wbkt, count, woken, awoken, counted, marked, dying>>
  BY Zenon DEF WalkSkip, WalkDone, InWalk, waitVars, userVars, procVars, history
<1>2. Types'  BY Zenon, <1>1, WalkHead DEF TorporInv, Types
<1>3. LockInv'
  <2>1. \A v \in Wakers : InWalk(v)' <=> InWalk(v)  BY Zenon, <1>1 DEF InWalk
  <2> QED BY Zenon, <1>1, <2>1 DEF TorporInv, LockInv
<1>4. QueueInv'  BY Zenon, <1>1 DEF TorporInv, QueueInv, KeyOf
<1>5. WalkInv'
  <2> SUFFICES ASSUME NEW v \in Wakers PROVE WalkOf(v)'  BY Zenon DEF WalkInv
  <2>1. CASE v # u
    <3>1. /\ wpc'[v] = wpc[v] /\ op'[v] = op[v] /\ key'[v] = key[v] /\ wbkt'[v] = wbkt[v] /\ rest'[v] = rest[v]
          /\ bucket' = bucket /\ addr' = addr /\ dying \subseteq dying'
          /\ \A s \in Waiters : pc'[s] \in Queued => pc[s] \in Queued
          /\ \A s \in Waiters : awoken[s] => awoken'[s]
      BY ZenonT(40), <1>1, <2>1 DEF TorporInv, Types
    <3> QED BY Zenon, <3>1, OtherWalk
  <2>2. CASE v = u
    <3>1. rest'[u] = Tail(rest[u])  BY Zenon, <1>1 DEF TorporInv, Types
    <3>2. /\ Head(rest[u]) \in Waiters /\ Range(rest[u]) = Range(Tail(rest[u])) \cup {Head(rest[u])}
      BY Zenon, <1>1, WalkHead
    <3>3. op[u] = "wake" /\ KeyOf(Head(rest[u])) = key[u] => awoken[Head(rest[u])]
      BY Zenon, <1>1, KeyProc DEF Matches
    <3> QED BY ZenonT(40), <1>1, <2>2, <3>1, <3>2, <3>3 DEF TorporInv, WalkInv, WalkOf, KeyOf
  <2> QED BY Zenon, <2>1, <2>2
<1>6. MarkInv'  BY Zenon, <1>1 DEF TorporInv, MarkInv, Dying
<1>7. ResultInv'  BY Zenon, <1>1 DEF TorporInv, ResultInv
<1> QED BY Zenon, <1>2, <1>3, <1>4, <1>5, <1>6, <1>7 DEF TorporInv

\* A walk marks a waiter it is for.
LEMMA WalkMarkStep ==
    ASSUME TorporInv, NEW u \in Wakers, WalkMark(u)
    PROVE  TorporInv'
<1>1. /\ wpc' = [wpc EXCEPT ![u] = "wakeup"] /\ wpc[u] = "walk" /\ rest[u] # <<>> /\ InWalk(u)
      /\ Matches(u, Head(rest[u])) /\ Head(rest[u]) \in Waiters
      /\ awoken' = [awoken EXCEPT ![Head(rest[u])] = op[u] # "stop"]
      /\ marked' = [marked EXCEPT ![Head(rest[u])] = IF op[u] = "wake" THEN u ELSE @]
      /\ UNCHANGED <<pc, addr, rc, bucket, torpor_lock, word, op, key, wbkt, rest, count, woken, counted, dying>>
  <2>1. InWalk(u) /\ rest[u] # <<>>  BY Zenon DEF WalkMark, WalkDone, InWalk
  <2>2. Head(rest[u]) \in Waiters  BY Zenon, <2>1, WalkHead
  <2> QED BY Zenon, <2>1, <2>2 DEF WalkMark, waitVars, userVars, procVars
<1>2. Types'
  <2>1. op[u] = "wake" => u \in Producers  BY Zenon, <1>1, Apart DEF TorporInv, WalkInv, WalkOf
  <2>2. marked' \in [Waiters -> Producers \cup {None}]  BY Zenon, <1>1, <2>1 DEF TorporInv, Types
  <2> QED BY Zenon, <1>1, <2>2 DEF TorporInv, Types
<1>3. LockInv'
  <2>1. \A v \in Wakers : InWalk(v)' <=> InWalk(v)  BY Zenon, <1>1 DEF InWalk, TorporInv, Types
  <2> QED BY Zenon, <1>1, <2>1 DEF TorporInv, LockInv
<1>4. QueueInv'  BY Zenon, <1>1 DEF TorporInv, QueueInv, KeyOf
<1>5. WalkInv'
  <2> SUFFICES ASSUME NEW v \in Wakers PROVE WalkOf(v)'  BY Zenon DEF WalkInv
  <2>1. CASE v # u
    <3>1. /\ wpc'[v] = wpc[v] /\ op'[v] = op[v] /\ key'[v] = key[v] /\ wbkt'[v] = wbkt[v] /\ rest'[v] = rest[v]
          /\ bucket' = bucket /\ addr' = addr /\ dying \subseteq dying'
          /\ \A s \in Waiters : pc'[s] \in Queued => pc[s] \in Queued
          /\ \A s \in Waiters : awoken[s] => awoken'[s]
      BY Zenon, <1>1, <2>1 DEF Matches, TorporInv, Types
    <3> QED BY Zenon, <3>1, OtherWalk
  <2>2. CASE v = u
    <3>1. wpc'[u] = "wakeup" /\ (op[u] = "wake" => awoken'[Head(rest[u])])  BY Zenon, <1>1 DEF TorporInv, Types
    <3>2. \A s \in Waiters : awoken[s] => awoken'[s]  BY Zenon, <1>1 DEF Matches, TorporInv, Types
    <3> QED BY Zenon, <1>1, <2>2, <3>1, <3>2 DEF TorporInv, WalkInv, WalkOf, KeyOf
  <2> QED BY Zenon, <2>1, <2>2
<1>6. MarkInv'
  <2> DEFINE h == Head(rest[u])
  <2> SUFFICES ASSUME NEW s \in Waiters, awoken'[s]
               PROVE  Dying(s) \/ (marked'[s] # None /\ ProcOf[marked'[s]] = ProcOf[s])
    BY Zenon, <1>1 DEF MarkInv, Dying
  <2>1. CASE s # h
    <3>1. awoken[s] /\ marked'[s] = marked[s]  BY Zenon, <1>1, <2>1 DEF TorporInv, Types
    <3> QED BY Zenon, <3>1 DEF TorporInv, MarkInv
  <2>2. CASE s = h
    <3>1. op[u] # "stop" /\ (op[u] = "wake" => marked'[s] = u) /\ ProcOf[s] = key[u][1]
      BY ZenonT(40), <1>1, <2>2 DEF TorporInv, Types, Matches
    <3>2. CASE u \in Producers  BY Zenon, <1>1, <3>1, <3>2, Apart DEF TorporInv, WalkInv, WalkOf
    <3>3. CASE u = Control
      <4>1. op[u] = "death" /\ (op[u] = "death" => key[u][1] \in dying)
        BY Zenon, <1>1, <3>1, <3>3 DEF TorporInv, Types, WalkInv, WalkOf
      <4> QED BY Zenon, <3>1, <4>1 DEF Dying
    <3> QED BY Zenon, <3>2, <3>3, Apart
  <2> QED BY Zenon, <2>1, <2>2
<1>7. ResultInv'
  <2>1. \A s \in Waiters : awoken[s] => awoken'[s]  BY Zenon, <1>1 DEF Matches, TorporInv, Types
  <2> QED BY Zenon, <1>1, <2>1 DEF TorporInv, ResultInv
<1> QED BY Zenon, <1>2, <1>3, <1>4, <1>5, <1>6, <1>7 DEF TorporInv

\* A walk wakes the waiter it has marked.
LEMMA WalkWakeupStep ==
    ASSUME TorporInv, NEW u \in Wakers, WalkWakeup(u), NEW h, h = Head(rest[u])
    PROVE  TorporInv'
<1>1. /\ wpc' = [wpc EXCEPT ![u] = "walk"] /\ wpc[u] = "wakeup" /\ h \in Waiters /\ pc[h] \in Queued
      /\ pc' = (IF pc[h] = "asleep" THEN [pc EXCEPT ![h] = "resume"] ELSE pc)
      /\ woken' = [woken EXCEPT ![u] = IF op[u] = "wake" /\ pc[h] = "asleep" THEN @ + 1 ELSE @]
      /\ counted' = [counted EXCEPT ![h] = @ \/ (op[u] = "wake" /\ pc[h] = "asleep")]
      /\ rest' = [rest EXCEPT ![u] = Tail(rest[u])]
      /\ Tail(rest[u]) \in Seq(Waiters) /\ Range(rest[u]) = Range(Tail(rest[u])) \cup {h}
      /\ UNCHANGED <<addr, rc, bucket, torpor_lock, word, op, key, wbkt, count, awoken, marked, dying>>
  <2>1. InWalk(u) /\ rest[u] # <<>>  BY Zenon DEF WalkWakeup, TorporInv, WalkInv, WalkOf, InWalk
  <2>2. /\ Head(rest[u]) \in Waiters /\ pc[Head(rest[u])] \in Queued /\ Tail(rest[u]) \in Seq(Waiters)
        /\ Range(rest[u]) = Range(Tail(rest[u])) \cup {Head(rest[u])}
    BY Zenon, <2>1, WalkHead
  <2> QED BY Zenon, <2>1, <2>2 DEF WalkWakeup, Wakeup, waitVars, userVars, procVars
<1>2. Types'
  <2>1. woken' \in [Wakers -> Nat] /\ rest' \in [Wakers -> Seq(Waiters)]  BY <1>1 DEF TorporInv,
        Types
  <2>2. counted' \in [Waiters -> BOOLEAN]  BY Zenon, <1>1 DEF TorporInv, Types
  <2>3. pc' \in [Waiters -> {"user", "compare", "lock", "register", "sleep", "asleep", "resume", "park", "unlink"}]
    BY Zenon, <1>1 DEF TorporInv, Types
  <2> QED BY Zenon, <1>1, <2>1, <2>2, <2>3 DEF TorporInv, Types
<1>3. LockInv'
  <2>1. \A v \in Wakers : InWalk(v)' <=> InWalk(v)  BY Zenon, <1>1 DEF InWalk, TorporInv, Types
  <2>2. \A s \in Waiters : pc'[s] = "register" <=> pc[s] = "register"  BY Zenon, <1>1 DEF TorporInv, Types
  <2> QED BY Zenon, <1>1, <2>1, <2>2 DEF TorporInv, LockInv
<1>4. QueueInv'
  <2>1. \A s \in Waiters : pc'[s] \in Queued <=> pc[s] \in Queued  BY Zenon, <1>1 DEF Queued, TorporInv, Types
  <2>2. \A s \in Waiters : KeyOf(s)' = KeyOf(s)  BY Zenon, <1>1 DEF KeyOf
  <2> QED BY <1>1, <2>1, <2>2 DEF TorporInv, QueueInv
<1>5. WalkInv'
  <2> SUFFICES ASSUME NEW v \in Wakers PROVE WalkOf(v)'  BY Zenon DEF WalkInv
  <2>1. CASE v # u
    <3>1. /\ wpc'[v] = wpc[v] /\ op'[v] = op[v] /\ key'[v] = key[v] /\ wbkt'[v] = wbkt[v] /\ rest'[v] = rest[v]
          /\ bucket' = bucket /\ addr' = addr /\ dying \subseteq dying'
          /\ \A s \in Waiters : pc'[s] \in Queued => pc[s] \in Queued
          /\ \A s \in Waiters : awoken[s] => awoken'[s]
      BY Zenon, <1>1, <2>1 DEF TorporInv, Types
    <3> QED BY Zenon, <3>1, OtherWalk
  <2>2. CASE v = u
    <3>1. /\ wpc'[u] = "walk" /\ rest'[u] = Tail(rest[u]) /\ InWalk(u)
          /\ \A s \in Waiters : pc'[s] \in Queued => pc[s] \in Queued
      BY Zenon, <1>1 DEF TorporInv, Types, InWalk
    <3>2. op[u] = "wake" => awoken[h]  BY Zenon, <1>1 DEF TorporInv, WalkInv, WalkOf
    <3>3. Range(rest'[u]) \subseteq Range(bucket[wbkt[u]])  BY Zenon, <1>1, <3>1 DEF TorporInv, WalkInv, WalkOf
    <3>4. op[u] = "wake" => \A s \in Waiters :
            pc[s] \in Queued /\ KeyOf(s) = key[u] => awoken[s] \/ s \in Range(rest'[u])
      BY Zenon, <1>1, <3>1 DEF TorporInv, WalkInv, WalkOf
    <3>5. \A s \in Waiters : KeyOf(s)' = KeyOf(s)  BY Zenon, <1>1 DEF KeyOf
    <3>6. WalkOf(u)  BY Zenon DEF TorporInv, WalkInv
    <3> QED BY Zenon, <1>1, <2>2, <3>1, <3>3, <3>4, <3>5, <3>6 DEF WalkOf
  <2> QED BY Zenon, <2>1, <2>2
<1>6. MarkInv'  BY Zenon, <1>1 DEF TorporInv, MarkInv, Dying
<1>7. ResultInv'
  <2> SUFFICES ASSUME NEW s \in Waiters
               PROVE  /\ pc'[s] = "user" => rc'[s] \in {"OK", "EFAULT", "ETIMEDOUT", "EINTR"}
                      /\ pc'[s] = "unlink" /\ rc'[s] = "AWOKEN" => awoken'[s]
                      /\ counted'[s] => /\ awoken'[s] /\ pc'[s] \in {"resume", "sleep", "unlink", "user"}
                                        /\ pc'[s] = "unlink" => rc'[s] \in {"AWOKEN", "INTR"}
                                        /\ pc'[s] = "user" => rc'[s] = "OK"
    BY Zenon DEF ResultInv
  <2>1. CASE s = h /\ pc[h] = "asleep"
    <3>1. pc'[s] = "resume" /\ ~counted[s] /\ (counted'[s] => op[u] = "wake")
      BY Zenon, <1>1, <2>1 DEF TorporInv, Types, ResultInv
    <3>2. op[u] = "wake" => awoken[h]  BY Zenon, <1>1 DEF TorporInv, WalkInv, WalkOf
    <3> QED BY Zenon, <1>1, <2>1, <3>1, <3>2
  <2>2. CASE ~(s = h /\ pc[h] = "asleep")
    <3>1. pc'[s] = pc[s]  BY Zenon, <1>1, <2>2 DEF TorporInv, Types
    <3>2. counted'[s] => counted[s]  BY Zenon, <1>1, <2>2 DEF TorporInv, Types
    <3> QED BY Zenon, <1>1, <3>1, <3>2 DEF TorporInv, ResultInv
  <2> QED BY Zenon, <2>1, <2>2
<1> QED BY Zenon, <1>2, <1>3, <1>4, <1>5, <1>6, <1>7 DEF TorporInv

\* A death or stop walk goes on to the next bucket.
LEMMA WalkNextStep ==
    ASSUME TorporInv, NEW u \in Wakers, WalkNext(u)
    PROVE  TorporInv'
<1>1. /\ wpc[u] = "walk" /\ op[u] # "wake" /\ wbkt[u] + 1 \in 1..NBuckets
      /\ wbkt' = [wbkt EXCEPT ![u] = wbkt[u] + 1] /\ rest' = [rest EXCEPT ![u] = bucket[wbkt[u] + 1]]
      /\ UNCHANGED <<pc, addr, rc, bucket, torpor_lock, word, wpc, op, key, count, woken, awoken, counted, marked, dying>>
  <2>1. wbkt[u] \in 1..NBuckets /\ NBuckets \in Nat  BY Zenon, TorporAssumption DEF TorporInv, Types
  <2>2. wbkt[u] < NBuckets => wbkt[u] + 1 \in 1..NBuckets  BY <2>1
  <2> QED BY Zenon, <2>2 DEF WalkNext, waitVars, userVars, procVars, history
<1>2. Types'  BY Zenon, <1>1, Apart DEF TorporInv, Types
<1>3. LockInv'
  <2>1. \A v \in Wakers : InWalk(v)' <=> InWalk(v)  BY Zenon, <1>1 DEF InWalk
  <2> QED BY Zenon, <1>1, <2>1 DEF TorporInv, LockInv
<1>4. QueueInv'  BY Zenon, <1>1 DEF TorporInv, QueueInv, KeyOf
<1>5. WalkInv'
  <2> SUFFICES ASSUME NEW v \in Wakers PROVE WalkOf(v)'  BY Zenon DEF WalkInv
  <2>1. CASE v # u
    <3>1. /\ wpc'[v] = wpc[v] /\ op'[v] = op[v] /\ key'[v] = key[v] /\ wbkt'[v] = wbkt[v] /\ rest'[v] = rest[v]
          /\ bucket' = bucket /\ addr' = addr /\ dying \subseteq dying'
          /\ \A s \in Waiters : pc'[s] \in Queued => pc[s] \in Queued
          /\ \A s \in Waiters : awoken[s] => awoken'[s]
      BY ZenonT(40), <1>1, <2>1 DEF TorporInv, Types
    <3> QED BY Zenon, <3>1, OtherWalk
  <2>2. CASE v = u
    <3>1. wbkt'[u] = wbkt[u] + 1 /\ rest'[u] = bucket[wbkt[u] + 1]  BY Zenon, <1>1 DEF TorporInv, Types
    <3> QED BY <1>1, <2>2, <3>1 DEF TorporInv, WalkInv, WalkOf
  <2> QED BY Zenon, <2>1, <2>2
<1>6. MarkInv'  BY Zenon, <1>1 DEF TorporInv, MarkInv, Dying
<1>7. ResultInv'  BY Zenon, <1>1 DEF TorporInv, ResultInv
<1> QED BY Zenon, <1>2, <1>3, <1>4, <1>5, <1>6, <1>7 DEF TorporInv

\* A walk drops the lock.
LEMMA WalkUnlockStep ==
    ASSUME TorporInv, NEW u \in Wakers, WalkUnlock(u)
    PROVE  TorporInv'
<1>1. /\ wpc' = [wpc EXCEPT ![u] = IF op[u] = "wake" THEN "idle" ELSE "cascade"] /\ wpc[u] = "walk"
      /\ torpor_lock = u /\ torpor_lock' = None /\ rest' = [rest EXCEPT ![u] = <<>>]
      /\ UNCHANGED <<pc, addr, rc, bucket, word, op, key, wbkt, count, woken, awoken, counted, marked, dying>>
  BY Zenon DEF WalkUnlock, TorporInv, LockInv, InWalk, waitVars, userVars, procVars, history
<1>2. Types'
  <2>1. torpor_lock' \in Waiters \cup Wakers \cup {None} /\ <<>> \in Seq(Waiters)  BY <1>1
  <2> QED BY Zenon, <1>1, <2>1 DEF TorporInv, Types
<1>3. LockInv'
  <2>1. ~InWalk(u)' /\ \A v \in Wakers \ {u} : InWalk(v)' <=> InWalk(v)  BY Zenon, <1>1 DEF TorporInv,
        Types, InWalk
  <2> QED BY Zenon, <1>1, <2>1, Apart DEF TorporInv, LockInv
<1>4. QueueInv'  BY Zenon, <1>1 DEF TorporInv, QueueInv, KeyOf, Types
<1>5. WalkInv'
  <2> SUFFICES ASSUME NEW v \in Wakers PROVE WalkOf(v)'  BY Zenon DEF WalkInv
  <2>1. CASE v # u
    <3>1. /\ wpc'[v] = wpc[v] /\ op'[v] = op[v] /\ key'[v] = key[v] /\ wbkt'[v] = wbkt[v] /\ rest'[v] = rest[v]
          /\ bucket' = bucket /\ addr' = addr /\ dying \subseteq dying'
          /\ \A s \in Waiters : pc'[s] \in Queued => pc[s] \in Queued
          /\ \A s \in Waiters : awoken[s] => awoken'[s]
      BY Zenon, <1>1, <2>1 DEF TorporInv, Types
    <3> QED BY Zenon, <3>1, OtherWalk
  <2>2. CASE v = u
    <3>1. wpc'[u] \in {"idle", "cascade"} /\ (wpc'[u] = "cascade" => op[u] # "wake")  BY Zenon, <1>1 DEF
        TorporInv, Types
    <3> QED BY Zenon, <1>1, <2>2, <3>1 DEF TorporInv, WalkInv, WalkOf, InWalk
  <2> QED BY Zenon, <2>1, <2>2
<1>6. MarkInv'  BY Zenon, <1>1 DEF TorporInv, MarkInv, Dying
<1>7. ResultInv'  BY Zenon, <1>1 DEF TorporInv, ResultInv
<1> QED BY Zenon, <1>2, <1>3, <1>4, <1>5, <1>6, <1>7 DEF TorporInv


\* wakeup() of whoever it is leaves the queues alone.
LEMMA WakeupStep ==
    ASSUME TorporInv, NEW t \in Waiters, Wakeup(t), UNCHANGED others
    PROVE  TorporInv'
<1>1. CASE pc[t] = "asleep"
  <2>1. pc' = [pc EXCEPT ![t] = "resume"] /\ pc[t] \in Queued  BY Zenon, <1>1 DEF Wakeup, Queued
  <2> QED BY Zenon, <2>1, QueuedStep
<1>2. CASE pc[t] # "asleep"
  <2>1. pc' = pc  BY Zenon, <1>2 DEF Wakeup
  <2> QED BY Zenon, <2>1, StutterStep
<1> QED BY Zenon, <1>1, <1>2

\* A waiter's own steps keep the invariant.
LEMMA WaiterSteps ==
    ASSUME TorporInv, NEW t \in Waiters, WaiterStep(t)
    PROVE  TorporInv'
<1> USE DEF waitVars, userVars, procVars, walkVars, history
<1>1. CASE Compare(t)
  <2>1. \/ \E c \in {"OK", "EFAULT"} : Return(t, c) /\ UNCHANGED <<bucket, torpor_lock>>
        \/ StepTo(t, "lock") /\ UNCHANGED <<bucket, torpor_lock>>
    BY Zenon, <1>1 DEF Compare, Compared
  <2>2. pc[t] = "compare"  BY Zenon, <1>1 DEF Compare
  <2> QED BY Zenon, <2>1, <2>2, BounceStep, ToLockStep
<1>2. CASE CompareLocked(t)
  <2>1. \/ \E c \in {"OK", "EFAULT"} : Return(t, c) /\ UNCHANGED <<bucket, torpor_lock>>
        \/ StepTo(t, "register") /\ torpor_lock' = t /\ UNCHANGED bucket
    BY Zenon, <1>2 DEF CompareLocked, Compared
  <2>2. pc[t] = "lock" /\ torpor_lock = None  BY Zenon, <1>2 DEF CompareLocked
  <2> QED BY Zenon, <2>1, <2>2, BounceStep, ToRegisterStep
<1>3. CASE Register(t)  BY Zenon, <1>3, DyingStep, LinkStep DEF Register
<1>4. CASE Sleep(t)
  <2>1. pc[t] = "sleep" /\ pc[t] \in Queued  BY Zenon, <1>4 DEF Sleep, Queued
  <2>2. CASE Tsleep(t) \in {"asleep", "park"}
    <3>1. ~awoken[t] /\ ~counted[t]  BY Zenon, <2>2 DEF Tsleep, TorporInv, ResultInv
    <3>2. pc' = [pc EXCEPT ![t] = Tsleep(t)] /\ UNCHANGED others  BY Zenon, <1>4, <2>2 DEF Sleep, StepTo,
        others
    <3> QED BY Zenon, <2>1, <2>2, <3>1, <3>2, QueuedStep
  <2>3. CASE Tsleep(t) \notin {"asleep", "park"}
    <3>1. /\ Tsleep(t) \in {"AWOKEN", "TIMEDOUT", "INTR", "NOTEINTR"}
          /\ (Tsleep(t) = "AWOKEN" <=> awoken[t]) /\ (counted[t] => awoken[t])
      BY Zenon, <2>3 DEF Tsleep, TorporInv, ResultInv
    <3>2. Leave(t, Tsleep(t))  BY Zenon, <1>4, <2>3 DEF Sleep
    <3> QED BY Zenon, <2>1, <3>1, <3>2, LeaveStep
  <2> QED BY Zenon, <2>2, <2>3
<1>5. CASE Resume(t)
  <2>1. pc[t] = "resume" /\ pc[t] \in Queued /\ (counted[t] => awoken[t])
    BY Zenon, <1>5 DEF Resume, Queued, TorporInv, ResultInv
  <2>2. \/ Leave(t, "INTR") \/ (~awoken[t] /\ Leave(t, "NOTEINTR"))
        \/ (StepTo(t, "sleep") /\ UNCHANGED <<bucket, torpor_lock>>)
    BY Zenon, <1>5 DEF Resume
  <2>3. CASE Leave(t, "INTR")  BY Zenon, <2>1, <2>3, LeaveStep
  <2>4. CASE ~awoken[t] /\ Leave(t, "NOTEINTR")  BY Zenon, <2>1, <2>4, LeaveStep
  <2>5. CASE StepTo(t, "sleep") /\ UNCHANGED <<bucket, torpor_lock>>
    <3>1. pc' = [pc EXCEPT ![t] = "sleep"] /\ UNCHANGED others  BY Zenon, <2>5 DEF StepTo, others
    <3> QED BY Zenon, <2>1, <3>1, QueuedStep
  <2> QED BY Zenon, <2>2, <2>3, <2>4, <2>5
<1>6. CASE Unpark(t)
  <2>1. pc[t] = "park" /\ pc[t] \in Queued /\ ~counted[t]
    BY Zenon, <1>6 DEF Unpark, Queued, TorporInv, ResultInv
  <2>2. Leave(t, "INTR") \/ (StepTo(t, "sleep") /\ UNCHANGED <<bucket, torpor_lock>>)
    BY Zenon, <1>6 DEF Unpark
  <2>3. CASE Leave(t, "INTR")  BY Zenon, <2>1, <2>3, LeaveStep
  <2>4. CASE StepTo(t, "sleep") /\ UNCHANGED <<bucket, torpor_lock>>
    <3>1. pc' = [pc EXCEPT ![t] = "sleep"] /\ UNCHANGED others  BY Zenon, <2>4 DEF StepTo, others
    <3> QED BY Zenon, <2>1, <3>1, QueuedStep
  <2> QED BY Zenon, <2>2, <2>3, <2>4
<1>7. CASE Unlink(t)  BY Zenon, <1>7, UnlinkStep
<1>8. CASE TimerWake(t)
  <2>1. Wakeup(t) /\ UNCHANGED others  BY Zenon, <1>8 DEF TimerWake, others
  <2> QED BY Zenon, <2>1, WakeupStep
<1> QED BY Zenon, <1>1, <1>2, <1>3, <1>4, <1>5, <1>6, <1>7, <1>8 DEF WaiterStep

\* A walk's steps keep the invariant.
LEMMA WalkSteps ==
    ASSUME TorporInv, NEW u \in Wakers, WalkStep(u)
    PROVE  TorporInv'
<1>1. ASSUME NEW t \in Waiters, Cascade(u, t) PROVE TorporInv'
  <2>1. Wakeup(t) /\ UNCHANGED others
    BY Zenon, <1>1 DEF Cascade, others, waitVars, userVars, procVars, history
  <2> QED BY Zenon, <2>1, WakeupStep
<1> QED BY Zenon, <1>1, WakeNoneStep, WalkLockStep, WalkSkipStep, WalkMarkStep, WalkWakeupStep,
        WalkNextStep, WalkUnlockStep, CascadeEndStep DEF WalkStep

\* The initial states satisfy the invariant.
LEMMA TorporInvInit == Init => TorporInv
<1> SUFFICES ASSUME Init PROVE TorporInv  BY Zenon
<1> USE DEF Init
<1>1. Types
  <2>1. (CHOOSE a \in Addrs : TRUE) \in Addrs  BY Zenon, TorporAssumption
  <2>2. Keys # {}
    <3>1. PICK p \in Procs, a \in Addrs : TRUE  BY Zenon, TorporAssumption
    <3>2. <<p, a>> \in Keys  BY Zenon DEF Keys
    <3> QED BY Zenon, <3>2
  <2>3. (CHOOSE k \in Keys : TRUE) \in Keys  BY Zenon, <2>2
  <2>4. 1 \in 1..NBuckets  BY TorporAssumption
  <2>5. key \in [Wakers -> Keys] /\ wbkt \in [Wakers -> 1..NBuckets]  BY Zenon, <2>3, <2>4
  <2>6. addr \in [Waiters -> Addrs]  BY Zenon, <2>1
  <2> QED BY <2>5, <2>6 DEF Types
<1>2. LockInv  BY Zenon, Apart DEF LockInv, InWalk
<1>3. QueueInv
  <2>1. Range(<<>>) = {} /\ IsInjective(<<>>)  BY DEF Range, IsInjective
  <2> QED BY Zenon, <2>1 DEF QueueInv, Queued
<1>4. WalkInv  BY Zenon DEF WalkInv, WalkOf, InWalk
<1>5. MarkInv /\ ResultInv  BY Zenon DEF MarkInv, ResultInv
<1> QED BY Zenon, <1>1, <1>2, <1>3, <1>4, <1>5 DEF TorporInv

\* Every step keeps the invariant.
LEMMA TorporInvNext == TorporInv /\ [Next]_vars => TorporInv'
<1> SUFFICES ASSUME TorporInv, [Next]_vars PROVE TorporInv'  BY Zenon
<1>1. ASSUME NEW t \in Waiters, Wait(t) \/ Expire(t) \/ PostNote(t) PROVE TorporInv'
  <2>1. CASE Wait(t)  BY Zenon, <2>1, WaitStep
  <2>2. CASE Expire(t)
    <3>1. UNCHANGED <<pc, others>>  BY Zenon, <2>2 DEF Expire, others, waitVars, userVars, procVars,
        walkVars, history
    <3> QED BY Zenon, <3>1, StutterStep
  <2>3. CASE PostNote(t)
    <3>1. Wakeup(t) /\ UNCHANGED others  BY Zenon, <2>3 DEF PostNote, others, waitVars, userVars, procVars,
        walkVars, history
    <3> QED BY Zenon, <3>1, WakeupStep
  <2> QED BY Zenon, <1>1, <2>1, <2>2, <2>3
<1>2. ASSUME NEW k \in Keys, Unmap(k) PROVE TorporInv'
  <2>1. UNCHANGED <<pc, others>>  BY Zenon, <1>2 DEF Unmap, others, waitVars, procVars, walkVars, history
  <2> QED BY Zenon, <2>1, StutterStep
<1>3. CASE UNCHANGED vars
  <2>1. UNCHANGED <<pc, others>>  BY Zenon, <1>3 DEF vars, others, waitVars, userVars, procVars, walkVars,
        history
  <2> QED BY Zenon, <2>1, StutterStep
<1> QED BY Zenon, <1>1, <1>2, <1>3, WaiterSteps, WalkSteps, StoreStep, BeginStep DEF Next

\* The invariant holds of every behaviour.
THEOREM TorporInductive == Spec => []TorporInv
BY TorporInvInit, TorporInvNext, PTL DEF Spec

\* The invariant says that the queues hold exactly the frames of the calls in
\* progress.
THEOREM FramesAreLive == Spec => []FramesLive
<1>1. TorporInv => FramesLive
  <2> SUFFICES ASSUME TorporInv PROVE FramesLive  BY Zenon
  <2>1. TypeOK  BY Zenon DEF TorporInv, Types, ResultInv, TypeOK
  <2>2. \A t \in Waiters : Linked(t) <=> pc[t] \in {"sleep", "asleep", "resume", "park", "unlink"}
    <3>1. \A t \in Waiters : Hash[KeyOf(t)] \in 1..NBuckets  BY Zenon, KeyType DEF TorporInv
    <3> QED BY Zenon, <3>1 DEF TorporInv, QueueInv, Queued, Linked
  <2>3. ASSUME NEW b \in 1..NBuckets
        PROVE  IsInjective(bucket[b]) /\ \A t \in Range(bucket[b]) : Hash[KeyOf(t)] = b
    <3>1. Range(bucket[b]) \subseteq Waiters
      <4>1. bucket[b] \in Seq(Waiters)  BY Zenon DEF TorporInv, Types
      <4> QED BY <4>1 DEF Range
    <3> QED BY Zenon, <3>1 DEF TorporInv, QueueInv
  <2>4. ASSUME NEW u \in Wakers, NEW t \in Waiters, InWalk(u), Ahead(u, t) PROVE Linked(t)
    BY <2>4 DEF TorporInv, Types, WalkInv, WalkOf, Ahead, Linked
  <2> QED BY Zenon, <2>1, <2>2, <2>3, <2>4 DEF FramesLive
<1> QED BY <1>1, TorporInductive, PTL

\* A counted wake is not taken back by a deadline or a note.
THEOREM CountedWakesReturnOk == Spec => []CountedWakeReturnsOk
<1>1. TorporInv => CountedWakeReturnsOk  BY Zenon DEF TorporInv, ResultInv, CountedWakeReturnsOk
<1> QED BY <1>1, TorporInductive, PTL

\* Nobody is told it was woken by anything but a WAKE of its own Proc, or its death.
THEOREM NoWakeForged == Spec => []NoForgedWake
<1>1. TorporInv => NoForgedWake  BY Zenon DEF TorporInv, ResultInv, MarkInv, NoForgedWake
<1> QED BY <1>1, TorporInductive, PTL

\* A WAKE that comes short of its count has left nobody on its word unreleased.
THEOREM ShortWakeExhausts == Spec => WakeExhausts
<1>1. TorporInv /\ TorporInv' /\ [Next]_vars =>
        [\A u \in Producers :
            wpc[u] = "walk" /\ wpc'[u] = "idle" /\ woken[u] < count[u] =>
                \A t \in Waiters : Linked(t) /\ KeyOf(t) = key[u] => awoken[t]]_vars
  <2> SUFFICES ASSUME TorporInv, Next, NEW u \in Producers, NEW t \in Waiters,
                      wpc[u] = "walk", wpc'[u] = "idle", woken[u] < count[u],
                      Linked(t), KeyOf(t) = key[u]
               PROVE  awoken[t]
    BY Zenon
  <2>1. u \in Wakers /\ op[u] = "wake" /\ InWalk(u) /\ pc[t] \in Queued
    BY Zenon, Apart DEF TorporInv, WalkInv, WalkOf, QueueInv, Linked, InWalk
  <2>2. wpc'[u] # wpc[u] /\ wpc' \in [Wakers -> {"idle", "call", "walk", "wakeup", "cascade"}]
    BY Zenon, TorporInvNext DEF TorporInv, Types
  <2>3. WalkDone(u)
    <3>1. ASSUME NEW s \in Waiters, WaiterStep(s) \/ Wait(s) \/ Expire(s) \/ PostNote(s) PROVE wpc' = wpc
      BY Zenon, <3>1 DEF WaiterStep, Compare, CompareLocked, Compared, Register, Sleep, Resume, Unpark, Unlink,
             TimerWake, Return, StepTo, Leave, Wait, Expire, PostNote, walkVars
    <3>2. ASSUME NEW v \in Wakers, Store(v) \/ WakeNone(v) \/ WalkLock(v) \/ WalkSkip(v) \/ WalkMark(v) \/ WalkWakeup(v)
                 \/ WalkNext(v) \/ CascadeEnd(v) \/ \E s \in Waiters : Cascade(v, s)
          PROVE  wpc'[u] # "idle" \/ wpc[u] # "walk"
      BY ZenonT(40), <2>1, <3>2 DEF Store, WakeNone, WalkLock, WalkSkip, WalkMark, WalkWakeup, WalkNext, CascadeEnd, Cascade,
             TorporInv, Types
    <3>3. ASSUME NEW v \in Wakers, WalkUnlock(v) PROVE v = u
      BY <3>3 DEF WalkUnlock
    <3>4. ASSUME NEW what \in {"death", "stop", "resume"}, NEW p \in Procs, Begin(what, p) PROVE wpc'[u] = wpc[u]
      BY <3>4 DEF Begin
    <3>5. ASSUME NEW k \in Keys, Unmap(k) PROVE wpc' = wpc  BY Zenon, <3>5 DEF Unmap, walkVars
    <3>6. WalkUnlock(u)  BY Zenon, <3>1, <3>2, <3>3, <3>4, <3>5 DEF Next, WalkStep
    <3> QED BY Zenon, <3>6 DEF WalkUnlock
  <2>4. rest[u] = <<>>
    <3>1. woken[u] \in Nat /\ count[u] \in Nat  BY Zenon, <2>1 DEF TorporInv, Types
    <3> QED BY <2>3, <3>1 DEF WalkDone
  <2>5. Range(<<>>) = {}  BY DEF Range
  <2> QED BY Zenon, <2>1, <2>4, <2>5 DEF TorporInv, WalkInv, WalkOf
<1> QED BY <1>1, TorporInductive, PTL DEF Spec, WakeExhausts


\* A step of a waiter, or of nobody, overtakes nobody.
LEMMA CastFrame ==
    ASSUME CastInv, UNCHANGED <<wpc, op, key, count, rest, woken>>,
           \A t \in Waiters : Overtaken(t)' => Overtaken(t) /\ KeyOf(t)' = KeyOf(t)
    PROVE  CastInv'
<1>1. \A u \in Producers : CastOf(u)'  BY Zenon DEF CastInv, CastOf, InWalk
<1>2. ASSUME NEW t \in Waiters, Overtaken(t)' PROVE \E u \in Producers : StillToWake(u, t)'
  <2>1. PICK u \in Producers : StillToWake(u, t) /\ KeyOf(t)' = KeyOf(t)  BY Zenon, <1>2 DEF CastInv
  <2>2. StillToWake(u, t)'  BY Zenon, <2>1 DEF StillToWake, InWalk, Ahead
  <2> QED BY Zenon, <2>2
<1> QED BY Zenon, <1>1, <1>2 DEF CastInv

\* What a WAKE has yet to do is not undone by another's walk.
LEMMA OtherCast ==
    ASSUME CastInv, NEW v \in Producers, wpc'[v] = wpc[v], op'[v] = op[v], key'[v] = key[v],
           count'[v] = count[v], rest'[v] = rest[v], woken'[v] = woken[v]
    PROVE  /\ CastOf(v)'
           /\ \A t \in Waiters : addr' = addr /\ StillToWake(v, t) => StillToWake(v, t)'
BY Zenon DEF CastInv, CastOf, StillToWake, InWalk, Ahead, KeyOf

\* The steps of the waiters.
LEMMA WaiterCast ==
    ASSUME TorporInv, CastInv, NEW t \in Waiters,
           WaiterStep(t) \/ Wait(t) \/ Expire(t) \/ PostNote(t)
    PROVE  CastInv'
<1>1. UNCHANGED <<word, wpc, op, key, count, rest, woken>>
  BY Zenon DEF WaiterStep, Compare, CompareLocked, Compared, Register, Sleep, Resume, Unpark, Unlink, TimerWake,
     Return, StepTo, Leave, Wait, Expire, PostNote, walkVars, userVars
<1>2. CASE Wait(t)
  <2>1. /\ pc' = [pc EXCEPT ![t] = "compare"] /\ awoken' = [awoken EXCEPT ![t] = FALSE]
        /\ \E a \in Addrs : addr' = [addr EXCEPT ![t] = a]
        /\ \E e \in Expects : expected' = [expected EXCEPT ![t] = e]
    BY Zenon, <1>2 DEF Wait
  <2>2. pc'[t] = "compare" /\ \A s \in Waiters \ {t} : pc'[s] = pc[s] /\ awoken'[s] = awoken[s] /\ addr'[s] = addr[s]
    BY Zenon, <2>1 DEF TorporInv, Types
  <2>3. \A s \in Waiters \ {t} : expected'[s] = expected[s]  BY <2>1
  <2>4. \A s \in Waiters \ {t} : KeyOf(s)' = KeyOf(s)  BY Zenon, <2>2 DEF KeyOf
  <2>5. \A s \in Waiters : Overtaken(s)' => Overtaken(s) /\ KeyOf(s)' = KeyOf(s)
    BY Zenon, <1>1, <2>2, <2>3, <2>4 DEF Overtaken, Mismatch, Queued
  <2> QED BY Zenon, <1>1, <2>5, CastFrame
<1>3. CASE ~Wait(t)
  <2>1. UNCHANGED <<addr, expected, awoken>>
    BY Zenon, <1>3 DEF WaiterStep, Compare, CompareLocked, Compared, Register, Sleep, Resume, Unpark, Unlink,
       TimerWake, Return, StepTo, Leave, Expire, PostNote, waitVars
  <2>2. \A s \in Waiters \ {t} : pc'[s] = pc[s]
    BY Zenon, <1>3 DEF WaiterStep, Compare, CompareLocked, Compared, Register, Sleep, Resume, Unpark, Unlink,
       TimerWake, Return, StepTo, Leave, Expire, PostNote, Wakeup, TorporInv, Types
  <2>3. \/ pc'[t] \in {"user", "lock"} \/ pc'[t] = pc[t] \/ pc[t] = "register" \/ pc[t] \in Queued
        \/ ~Mismatch(t)
    BY Zenon, <1>3 DEF WaiterStep, Compare, CompareLocked, Compared, Register, Sleep, Resume, Unpark, Unlink,
       TimerWake, Return, StepTo, Leave, Expire, PostNote, Wakeup, TorporInv, Types, Queued
  <2>4. \A s \in Waiters : KeyOf(s)' = KeyOf(s)  BY Zenon, <2>1 DEF KeyOf
  <2>5. \A s \in Waiters : Mismatch(s)' <=> Mismatch(s)  BY Zenon, <1>1, <2>1, <2>4 DEF Mismatch
  <2>6. \A s \in Waiters : Overtaken(s)' => Overtaken(s) /\ KeyOf(s)' = KeyOf(s)
    BY Zenon, <2>1, <2>2, <2>3, <2>4, <2>5 DEF Overtaken, Queued
  <2> QED BY Zenon, <1>1, <2>6, CastFrame
<1> QED BY Zenon, <1>2, <1>3

\* A producer's store overtakes the waiters of the word, and its WAKE is for
\* all of them.
LEMMA StoreCast ==
    ASSUME TorporInv, CastInv, NEW u \in Wakers, Store(u)
    PROVE  CastInv'
<1> PICK a \in Addrs, v \in {0, 1}, c \in Counts :
        /\ word' = [word EXCEPT ![<<ProcOf[u], a>>] = v] /\ key' = [key EXCEPT ![u] = <<ProcOf[u], a>>]
        /\ count' = [count EXCEPT ![u] = c]
  BY Zenon DEF Store
<1>1. /\ u \in Producers /\ wpc[u] = "idle" /\ wpc' = [wpc EXCEPT ![u] = "call"] /\ woken' = [woken EXCEPT ![u] = 0]
      /\ UNCHANGED <<pc, addr, expected, awoken, op, rest>>
  BY Zenon DEF Store, waitVars
<1>2. /\ wpc'[u] = "call" /\ woken'[u] = 0 /\ count'[u] = c /\ key'[u] = <<ProcOf[u], a>>
      /\ \A w \in Wakers \ {u} : wpc'[w] = wpc[w] /\ woken'[w] = woken[w] /\ count'[w] = count[w] /\ key'[w] = key[w]
  BY Zenon, <1>1 DEF TorporInv, Types
<1>3. \A t \in Waiters : KeyOf(t)' = KeyOf(t)  BY Zenon, <1>1 DEF KeyOf
<1>4. ASSUME NEW w \in Producers PROVE CastOf(w)'
  <2>1. CASE w = u  BY Zenon, <1>2, <2>1 DEF CastOf, InWalk
  <2>2. CASE w # u  BY <1>1, <2>2, OtherCast
  <2> QED BY Zenon, <2>1, <2>2
<1>5. ASSUME NEW t \in Waiters, Overtaken(t)' PROVE \E w \in Producers : StillToWake(w, t)'
  <2>1. CASE KeyOf(t) = <<ProcOf[u], a>>
    <3>1. op'[u] = "wake"  BY Zenon, <1>1 DEF TorporInv, WalkInv, WalkOf
    <3>2. StillToWake(u, t)'  BY Zenon, <1>2, <1>3, <2>1, <3>1 DEF StillToWake
    <3> QED BY Zenon, <1>1, <3>2
  <2>2. CASE KeyOf(t) # <<ProcOf[u], a>>
    <3>1. word'[KeyOf(t)] = word[KeyOf(t)]  BY <2>2
    <3>2. Overtaken(t)  BY Zenon, <1>1, <1>3, <1>5, <3>1 DEF Overtaken, Mismatch
    <3>3. PICK w \in Producers : StillToWake(w, t)  BY Zenon, <3>2 DEF CastInv
    <3>4. w # u  BY Zenon, <1>1, <3>3 DEF StillToWake, InWalk
    <3>5. StillToWake(w, t)'  BY <1>1, <3>3, <3>4, OtherCast
    <3> QED BY Zenon, <3>5
  <2> QED BY Zenon, <2>1, <2>2
<1> QED BY Zenon, <1>4, <1>5 DEF CastInv

\* A walk's step that releases nobody unmarked and leaves words and calls
\* alone: what has to be shown of it is about the walk itself.
LEMMA WalkFrame ==
    ASSUME TorporInv, CastInv, NEW u \in Wakers, UNCHANGED <<addr, expected, word, op, key, count>>,
           \A v \in Wakers \ {u} : wpc'[v] = wpc[v] /\ rest'[v] = rest[v] /\ woken'[v] = woken[v],
           \A t \in Waiters : Overtaken(t)' => Overtaken(t),
           u \in Producers => CastOf(u)',
           u \in Producers => \A t \in Waiters : Overtaken(t)' /\ StillToWake(u, t) => StillToWake(u, t)'
    PROVE  CastInv'
<1>1. ASSUME NEW v \in Producers, v # u
      PROVE  CastOf(v)' /\ \A t \in Waiters : StillToWake(v, t) => StillToWake(v, t)'
  BY Zenon, <1>1, OtherCast, Apart
<1>2. \A v \in Producers : CastOf(v)'  BY Zenon, <1>1
<1>3. ASSUME NEW t \in Waiters, Overtaken(t)' PROVE \E v \in Producers : StillToWake(v, t)'
  <2>1. PICK v \in Producers : StillToWake(v, t)  BY Zenon, <1>3 DEF CastInv
  <2> QED BY Zenon, <1>1, <1>3, <2>1
<1> QED BY Zenon, <1>2, <1>3 DEF CastInv

\* The steps of a WAKE, with every WAKE a broadcast, and of the other walks.
LEMMA WalkCast ==
    ASSUME Broadcast, TorporInv, CastInv, NEW u \in Wakers, WalkStep(u)
    PROVE  CastInv'
<1>1. UNCHANGED <<addr, expected, word, op, key, count>>
  BY Zenon DEF WalkStep, WakeNone, WalkLock, WalkSkip, WalkMark, WalkWakeup, WalkNext, WalkUnlock, CascadeEnd, Cascade,
     waitVars, userVars
<1>2. \A v \in Wakers \ {u} : wpc'[v] = wpc[v] /\ rest'[v] = rest[v] /\ woken'[v] = woken[v]
  BY ZenonT(40) DEF WalkStep, WakeNone, WalkLock, WalkSkip, WalkMark, WalkWakeup, WalkNext, WalkUnlock, CascadeEnd, Cascade,
     TorporInv, Types
<1>3. \A t \in Waiters : Mismatch(t)' <=> Mismatch(t)  BY Zenon, <1>1 DEF Mismatch, KeyOf
<1>4. InWalk(u) /\ rest[u] # <<>> => Head(rest[u]) \in Waiters  BY Zenon, WalkHead
<1>5. wpc[u] = "wakeup" => InWalk(u) /\ rest[u] # <<>>  BY Zenon DEF InWalk, TorporInv, WalkInv, WalkOf
<1>6. wpc[u] = "walk" => InWalk(u)  BY Zenon DEF InWalk
<1>7. \A t \in Waiters : Overtaken(t)' => Overtaken(t)
  <2>1. \A t \in Waiters : awoken[t] => awoken'[t]
    BY ZenonT(40), <1>4, <1>6 DEF WalkStep, WakeNone, WalkLock, WalkSkip, WalkMark, WalkWakeup, WalkNext, WalkUnlock, CascadeEnd,
       Cascade, WalkDone, Matches, TorporInv, Types
  <2>2. pc' = pc \/ \E h \in Waiters : Wakeup(h)
    BY Zenon, <1>4, <1>5 DEF WalkStep, WakeNone, WalkLock, WalkSkip, WalkMark, WalkWakeup, WalkNext, WalkUnlock, CascadeEnd,
       Cascade
  <2>3. \A t \in Waiters : pc'[t] = pc[t] \/ (pc[t] = "asleep" /\ pc'[t] = "resume")
    BY Zenon, <2>2 DEF Wakeup, TorporInv, Types
  <2> QED BY Zenon, <1>3, <2>1, <2>3 DEF Overtaken, Queued
<1> DEFINE Own == /\ CastOf(u)'
                  /\ \A t \in Waiters : Overtaken(t)' /\ StillToWake(u, t) => StillToWake(u, t)'
<1>8. SUFFICES ASSUME u \in Producers PROVE Own
  BY Zenon, <1>1, <1>2, <1>7, WalkFrame
<1>9. op[u] = "wake" /\ CastOf(u) /\ op' = op /\ key' = key /\ count' = count
  BY Zenon, <1>1, <1>8 DEF TorporInv, WalkInv, WalkOf, CastInv
<1>10. \A t \in Waiters : KeyOf(t)' = KeyOf(t)  BY Zenon, <1>1 DEF KeyOf
<1>11. Cardinality(Waiters) \in Nat /\ (Waiters # {} => Cardinality(Waiters) > 0)
  BY FS_CardinalityType, FS_EmptySet DEF Broadcast
<1>12. woken[u] \in Nat /\ count[u] \in Nat /\ rest[u] \in Seq(Waiters) /\ Len(rest[u]) \in Nat
  BY DEF TorporInv, Types
<1>13. CASE WakeNone(u)
  <2>1. wpc[u] = "call" /\ count[u] = 0 /\ count[u] \in Counts /\ wpc'[u] = "idle"
    BY ZenonT(40), <1>9, <1>13 DEF WakeNone, CastOf, TorporInv, Types
  <2>2. Waiters = {}  BY <1>11, <2>1 DEF Broadcast
  <2> QED BY Zenon, <2>1, <2>2 DEF CastOf, InWalk
<1>14. CASE WalkLock(u)
  <2>1. /\ wpc[u] = "call" /\ wpc'[u] = "walk" /\ rest'[u] = bucket[Hash[key[u]]] /\ woken' = woken /\ torpor_lock = None
        /\ pc' = pc
    BY Zenon, <1>9, <1>14 DEF WalkLock, TorporInv, Types
  <2>2. Hash[key[u]] \in 1..NBuckets  BY Zenon, KeyType DEF TorporInv
  <2>3. bucket[Hash[key[u]]] \in Seq(Waiters) /\ IsInjective(bucket[Hash[key[u]]])  BY Zenon, <2>2 DEF
        TorporInv, Types, QueueInv
  <2>4. Len(bucket[Hash[key[u]]]) <= Cardinality(Waiters) /\ Len(bucket[Hash[key[u]]]) \in Nat
    <3>1. IsFiniteSet(Waiters)  BY Zenon DEF Broadcast
    <3> QED BY <2>3, <3>1, InjectiveLen
  <2>5. woken'[u] + Len(rest'[u]) <= Cardinality(Waiters)
    <3>1. woken'[u] = 0 /\ Len(rest'[u]) = Len(bucket[Hash[key[u]]])  BY Zenon, <1>9, <2>1 DEF CastOf
    <3> QED BY <1>11, <2>4, <3>1
  <2>6. CastOf(u)'  BY Zenon, <1>9, <2>1, <2>5 DEF CastOf
  <2>7. ASSUME NEW t \in Waiters, Overtaken(t)', StillToWake(u, t) PROVE StillToWake(u, t)'
    <3>1. pc[t] \in Queued  BY Zenon, <2>1, <2>7, Apart DEF Overtaken, TorporInv, LockInv
    <3>2. t \in Range(bucket[Hash[key[u]]])  BY Zenon, <2>2, <2>7, <3>1 DEF StillToWake, TorporInv,
        QueueInv
    <3> QED BY Zenon, <1>9, <1>10, <2>1, <2>7, <3>2 DEF StillToWake, InWalk, Ahead
  <2> QED BY Zenon, <2>6, <2>7
<1>15. CASE WalkSkip(u) \/ WalkWakeup(u)
  <2>1. InWalk(u) /\ rest[u] # <<>>  BY ZenonT(40), <1>5, <1>6, <1>15 DEF WalkSkip, WalkWakeup, WalkDone
  <2>2. /\ wpc'[u] = "walk" /\ rest'[u] = Tail(rest[u]) /\ (woken'[u] = woken[u] \/ woken'[u] = woken[u] + 1)
        /\ (WalkSkip(u) => woken'[u] = woken[u])
    BY <1>15 DEF WalkSkip, WalkWakeup, TorporInv, Types
  <2>3. /\ Len(Tail(rest[u])) = Len(rest[u]) - 1 /\ Range(rest[u]) = Range(Tail(rest[u])) \cup {Head(rest[u])}
    BY Zenon, <1>12, <2>1, TailSet
  <2>4. woken[u] + Len(rest[u]) <= Cardinality(Waiters) /\ count[u] \in Counts
    BY Zenon, <1>9, <2>1 DEF CastOf, InWalk
  <2>5. woken'[u] + Len(rest'[u]) <= Cardinality(Waiters)
    <3>1. Len(rest'[u]) = Len(rest[u]) - 1  BY Zenon, <2>2, <2>3
    <3> QED BY <1>11, <1>12, <2>2, <2>4, <3>1
  <2>6. CastOf(u)'  BY Zenon, <1>9, <2>2, <2>4, <2>5 DEF CastOf
  <2>7. ASSUME NEW t \in Waiters, Overtaken(t)', StillToWake(u, t) PROVE StillToWake(u, t)'
    <3>1. KeyOf(t) = key[u] /\ t \in Range(rest[u]) /\ ~awoken[t] /\ ProcOf[t] = key[u][1]
      BY <1>7, <2>1, <2>7 DEF StillToWake, Overtaken, InWalk, Ahead, KeyOf
    <3>2. t # Head(rest[u])
      BY Zenon, <1>9, <1>15, <3>1 DEF WalkSkip, WalkWakeup, Matches, TorporInv, WalkInv, WalkOf
    <3> QED BY ZenonT(40), <1>9, <1>10, <2>2, <2>3, <3>1, <3>2 DEF StillToWake, InWalk, Ahead
  <2> QED BY Zenon, <2>6, <2>7
<1>16. CASE WalkMark(u)
  <2>1. wpc[u] = "walk" /\ wpc'[u] = "wakeup" /\ rest' = rest /\ woken' = woken
    BY Zenon, <1>16 DEF WalkMark, TorporInv, Types
  <2> QED BY Zenon, <1>9, <1>10, <2>1 DEF CastOf, StillToWake, InWalk, Ahead
<1>17. CASE WalkUnlock(u)
  <2>1. wpc[u] = "walk" /\ InWalk(u) /\ WalkDone(u) /\ wpc'[u] = "idle"
    BY Zenon, <1>6, <1>9, <1>17 DEF WalkUnlock, TorporInv, Types
  <2>2. rest[u] = <<>>
    <3>1. /\ woken[u] + Len(rest[u]) <= Cardinality(Waiters) /\ count[u] >= Cardinality(Waiters)
      BY Zenon, <1>9, <2>1 DEF CastOf, Broadcast
    <3>2. woken[u] >= count[u] => Len(rest[u]) = 0  BY <1>11, <1>12, <3>1
    <3> QED BY <1>12, <2>1, <3>2 DEF WalkDone
  <2>3. Range(<<>>) = {}  BY DEF Range
  <2>4. \A t \in Waiters : ~StillToWake(u, t)  BY Zenon, <2>1, <2>2, <2>3 DEF StillToWake, Ahead
  <2> QED BY Zenon, <2>1, <2>4 DEF CastOf, InWalk
<1>18. CASE WalkNext(u)  BY Zenon, <1>9, <1>18 DEF WalkNext
<1>19. CASE CascadeEnd(u)
  <2>1. wpc[u] = "cascade" /\ wpc'[u] = "idle"  BY Zenon, <1>19 DEF CascadeEnd, TorporInv, Types
  <2> QED BY Zenon, <2>1 DEF CastOf, StillToWake, InWalk
<1>20. CASE \E t \in Waiters : Cascade(u, t)
  <2>1. wpc[u] = "cascade" /\ wpc' = wpc  BY Zenon, <1>20 DEF Cascade
  <2>2. UNCHANGED <<rest, woken>>  BY Zenon, <1>20 DEF Cascade
  <2> QED BY Zenon, <1>9, <1>10, <2>1, <2>2 DEF CastOf, StillToWake, InWalk
<1> QED BY Zenon, <1>13, <1>14, <1>15, <1>16, <1>17, <1>18, <1>19, <1>20 DEF WalkStep

\* With every WAKE a broadcast, whoever has been overtaken has its WAKE coming.
LEMMA CastNext ==
    ASSUME Broadcast
    PROVE  TorporInv /\ CastInv /\ [Next]_vars => CastInv'
<1> SUFFICES ASSUME TorporInv, CastInv, [Next]_vars PROVE CastInv'  BY Zenon
<1>1. ASSUME NEW what \in {"death", "stop", "resume"}, NEW p \in Procs, Begin(what, p) PROVE CastInv'
  <2>1. /\ UNCHANGED <<pc, addr, expected, awoken, word, count, rest, woken>>
        /\ \A v \in Producers : wpc'[v] = wpc[v] /\ op'[v] = op[v] /\ key'[v] = key[v]
    BY Zenon, <1>1, Apart DEF Begin, waitVars, userVars, TorporInv, Types
  <2>2. \A v \in Producers : CastOf(v)' /\ \A t \in Waiters : StillToWake(v, t) => StillToWake(v, t)'
    BY Zenon, <2>1, OtherCast
  <2>3. \A t \in Waiters : Overtaken(t)' => Overtaken(t)  BY Zenon, <2>1 DEF Overtaken, Mismatch, KeyOf
  <2> QED BY Zenon, <2>2, <2>3 DEF CastInv
<1>2. ASSUME UNCHANGED vars \/ \E k \in Keys : Unmap(k) PROVE CastInv'
  <2>1. UNCHANGED <<pc, addr, expected, awoken, word, wpc, op, key, count, rest, woken>>
    BY Zenon, <1>2 DEF vars, Unmap, waitVars, userVars, walkVars
  <2>2. \A t \in Waiters : Overtaken(t)' => Overtaken(t) /\ KeyOf(t)' = KeyOf(t)
    BY Zenon, <2>1 DEF Overtaken, Mismatch, KeyOf
  <2> QED BY Zenon, <2>1, <2>2, CastFrame
<1> QED BY Zenon, <1>1, <1>2, WaiterCast, WalkCast, StoreCast DEF Next

\* A broadcast is never lost: a thread asleep on a word that no longer has the
\* value it waited on has a WAKE on its way.
THEOREM BroadcastsArrive ==
    ASSUME Broadcast
    PROVE  Spec => []NoLostWake
<1>1. Init => CastInv
  BY Apart DEF Init, CastInv, CastOf, Overtaken, Queued, InWalk
<1>2. CastInv => NoLostWake  BY Zenon DEF CastInv, Overtaken, Queued, NoLostWake
<1> QED BY <1>1, <1>2, CastNext, TorporInductive, PTL DEF Spec

=============================================================================
