--------------------------- MODULE P9ClientProofs ---------------------------
(***************************************************************************)
(* The inductive invariant of the 9P client, ClientInv, and what the       *)
(* client's functions do to it, for any threads, asynchronous operations,  *)
(* tags and transport.                                                     *)
(*                                                                         *)
(* The functions of the code are operators on the client's state.  Those   *)
(* that keep the lock are shown to leave the role and the callers alone    *)
(* (Steps), those that run until the lock is dropped to settle the caller  *)
(* that runs them and nobody else (Ends).                                  *)
(***************************************************************************)
EXTENDS P9Client, WellFoundedInduction, TLAPS

WireKinds == {"walk", "read", "clunk", "flush"}
Request == [kind : WireKinds, tag : Tags, op : Ops \cup {None}, old : Tags \cup {None}]
Answer  == [kind : WireKinds, tag : Tags, op : Ops \cup {None}, err : BOOLEAN]
Entry   == [kind : WireKinds \cup {"free"}, op : Ops \cup {None},
            owned : BOOLEAN, awaiting : BOOLEAN, waits : BOOLEAN, abandoned : BOOLEAN,
            old : Tags \cup {None}, slot : BOOLEAN]

Fields == {"tags", "tag", "kindOf", "flags", "reader", "dead", "bound", "closer", "woken", "parked",
           "hooked", "c2s", "out", "spill", "posted", "at", "loop", "why", "ret", "async", "pump"}

Typed(s) ==
    /\ DOMAIN s = Fields
    /\ s.tags \in [Tags -> Entry] /\ s.tag \in [Ops -> Tags] /\ s.kindOf \in [Ops -> Kinds]
    /\ s.flags \in [Threads -> SUBSET Flags]
    /\ s.reader \in BOOLEAN /\ s.dead \in BOOLEAN
    /\ s.parked \in SUBSET Threads
    /\ s.c2s \in Seq(Request) /\ Len(s.c2s) <= RingCap
    /\ s.out \in Request \cup {None} /\ s.spill \in [Threads -> Request \cup {None}]
    /\ s.posted \in [Asyncs -> Nat]
    /\ s.at \in [Threads -> {"user", "recv", "sleep", "park", "stop", "up"}]
    /\ s.loop \in [Threads -> {"wait", "drain", "stage", "send", "fsend"}]
    /\ DOMAIN s.why = Threads /\ DOMAIN s.ret = Threads
    /\ s.async \in [Asyncs -> {"idle", "out", "abandoned", "done"}]

\* A registered request has a tag of its own; a Tflush names a tag; and an
\* asynchronous operation is registered under one tag, while it is out and has
\* not completed.
Tabled(s) ==
    /\ \A g \in Tags :
          /\ s.tags[g].kind = "flush" => s.tags[g].old \in Tags
          /\ s.tags[g].owned => s.tags[g].kind \notin {"free", "flush"} /\ s.tags[g].op \in Ops
          /\ s.tags[g].owned /\ s.tags[g].op \in Asyncs =>
                /\ s.tag[s.tags[g].op] = g
                /\ s.async[s.tags[g].op] = "out" /\ s.posted[s.tags[g].op] = 0
    /\ \A a \in Asyncs : s.posted[a] \in {0, 1} /\ (s.async[a] = "idle" => s.posted[a] = 0)

Client(s) == Typed(s) /\ Tabled(s)

\* From s to d no asynchronous operation completes a second time.
Posts(s, d) ==
    /\ d.async = s.async
    /\ \A a \in Asyncs : d.posted[a] = s.posted[a]
                         \/ (s.posted[a] = 0 /\ d.posted[a] = 1 /\ s.async[a] = "out")

\* From s to d with the lock held: nobody's place in the code changes.
Steps(s, d) ==
    /\ Client(d) /\ Posts(s, d)
    /\ d.reader = s.reader /\ d.pump = s.pump /\ d.kindOf = s.kindOf
    /\ d.at = s.at /\ d.why = s.why /\ d.parked = s.parked /\ d.loop = s.loop /\ d.spill = s.spill

\* The same with t's own loop and spilled frame apart.
Own(s, d, t) ==
    /\ Client(d) /\ Posts(s, d)
    /\ d.reader = s.reader /\ d.pump = s.pump /\ d.kindOf = s.kindOf
    /\ d.at = s.at /\ d.why = s.why /\ d.parked = s.parked
    /\ \A u \in Threads \ {t} : d.loop[u] = s.loop[u] /\ d.spill[u] = s.spill[u]

\* From s to d, where t drops the lock: nobody else's place changes, and a frame
\* that is not sent yet is kept.
Settles(s, d, t) ==
    /\ Client(d) /\ Posts(s, d) /\ d.pump = s.pump /\ d.kindOf = s.kindOf
    /\ \A u \in Threads \ {t} :
          /\ d.at[u] = s.at[u] /\ d.why[u] = s.why[u] /\ d.loop[u] = s.loop[u] /\ d.spill[u] = s.spill[u]
          /\ u \in d.parked <=> u \in s.parked
    /\ d.at[t] \in {"user", "recv", "sleep", "park", "stop"}
    /\ t \in d.parked <=> d.at[t] = "park"
    /\ d.loop[t] \in {"send", "fsend"} => d.spill[t] # None

\* The same for a caller that did not read: it reads next only if nobody does.
Ends(s, d, t) ==
    /\ Settles(s, d, t)
    /\ d.at[t] = "recv" => ~s.reader /\ d.reader
    /\ d.at[t] # "recv" => d.reader = s.reader

\* And for the one that did: it keeps the role, or leaves it.
Yields(s, d, t) == Settles(s, d, t) /\ (d.reader <=> d.at[t] = "recv")

\* As Steps, where the role is given up.
Left(s, d) ==
    /\ Client(d) /\ Posts(s, d)
    /\ ~d.reader /\ d.pump = s.pump /\ d.kindOf = s.kindOf
    /\ d.at = s.at /\ d.why = s.why /\ d.parked = s.parked /\ d.loop = s.loop /\ d.spill = s.spill

\* No thread's place changes, and neither does the role.
Quiet(s, d) ==
    /\ Client(d)
    /\ d.reader = s.reader /\ d.pump = s.pump /\ d.kindOf = s.kindOf
    /\ d.at = s.at /\ d.why = s.why /\ d.parked = s.parked /\ d.loop = s.loop /\ d.spill = s.spill

\* What CompletedOnce says of a step.
Done(s, d) ==
    \A a \in Asyncs : d.posted[a] # s.posted[a] => d.posted[a] = 1 /\ s.async[a] # "abandoned"

\* The reader's role is the thread's that reads, or the pumper's.
RoleInv ==
    /\ \A t, u \in Threads : Reading(t) /\ Reading(u) => t = u
    /\ \A t \in Threads : Reading(t) => c.pump # "pumping"
    /\ c.reader <=> (c.pump = "pumping" \/ \E t \in Threads : Reading(t))

\* Where a thread is when it does not hold the lock.
RestInv ==
    \A t \in Threads :
        /\ c.at[t] = "park" => t \in c.parked
        /\ t \in c.parked => c.at[t] \in {"park", "up"}
        /\ c.at[t] = "up" => c.why[t] \in {"woken", "noteintr", "frame", "eof", "death", "stop", "note"}
        /\ c.at[t] = "up" /\ c.why[t] = "frame" => rx # None
        /\ c.at[t] # "user" => c.kindOf[t] # "none"
        /\ c.at[t] # "user" /\ c.loop[t] \in {"send", "fsend"} => c.spill[t] # None

WireInv ==
    /\ rx \in Answer \cup {None}
    /\ s2c \in Seq(Answer) /\ Len(s2c) <= ReplyCap
    /\ pend \in SUBSET Request /\ IsFiniteSet(pend) /\ Cardinality(pend) <= ServerMax

\* The inductive invariant.
ClientInv == Client(c) /\ RoleInv /\ RestInv /\ WireInv

\* From s to d the table of tags has been edited, and nothing registered.
Edited(s, d) ==
    /\ d.tags \in [Tags -> Entry]
    /\ \A g \in Tags :
          /\ d.tags[g].kind = "flush" => d.tags[g].old \in Tags
          /\ d.tags[g].owned => /\ s.tags[g].owned /\ d.tags[g].op = s.tags[g].op
                                /\ d.tags[g].kind = s.tags[g].kind

\* From e to f an entry keeps what it is for, and is not registered.
Tame(e, f) ==
    /\ f \in Entry /\ f.kind = e.kind /\ f.op = e.op /\ f.old = e.old
    /\ f.owned => e.owned

\* Two steps under the lock are one.
LEMMA StepsTrans ==
    ASSUME NEW s, NEW u, NEW d, Steps(s, u), Steps(u, d)
    PROVE  Steps(s, d)
BY Zenon DEF Steps, Posts

\* What a caller does under the lock before it drops it.
LEMMA StepsEnds ==
    ASSUME NEW s, NEW u, NEW d, NEW t \in Threads, Steps(s, u), Ends(u, d, t)
    PROVE  Ends(s, d, t)
BY DEF Steps, Ends, Settles, Posts

\* The same where it has chosen its loop.
LEMMA OwnEnds ==
    ASSUME NEW s, NEW u, NEW d, NEW t \in Threads, Own(s, u, t), Ends(u, d, t)
    PROVE  Ends(s, d, t)
BY DEF Own, Ends, Settles, Posts

\* A step under the lock, then the choice of a loop.
LEMMA StepsOwn ==
    ASSUME NEW s, NEW u, NEW d, NEW t \in Threads, Steps(s, u), Own(u, d, t)
    PROVE  Own(s, d, t)
BY DEF Own, Steps, Posts

\* The smallest of some natural numbers is one of them.
LEMMA MinIn ==
    ASSUME NEW T, T \subseteq Nat, T # {}
    PROVE  Min(T) \in T
<1> DEFINE R == {ss \in Nat \X Nat : ss[1] < ss[2]}
<1>1. IsWellFoundedOn(R, Nat)  BY Zenon, NatLessThanWellFounded DEF OpToRel
<1> HIDE DEF R
<1>2. \E x \in T : \A y \in T : ~(<<y, x>> \in R)  BY Zenon, <1>1, WFMin
<1>3. \A x, y \in Nat : ~(<<y, x>> \in R) => x <= y  BY DEF R
<1>4. \E x \in T : \A y \in T : x <= y
  BY Zenon, <1>2, <1>3
<1> QED BY Zenon, <1>4 DEF Min

\* While some tag is free, the tag that is taken is one, and free.
LEMMA NewTagIn ==
    ASSUME NEW s, HasFlushTag(s)
    PROVE  NewTag(s) \in Tags /\ s.tags[NewTag(s)].kind = "free"
<1>1. Tags \ Active(s) \subseteq Nat /\ Tags \ Active(s) # {}
  BY DEF HasFlushTag, Active, Tags
<1>2. NewTag(s) \in Tags \ Active(s)  BY Zenon, <1>1, MinIn DEF NewTag
<1> QED BY Zenon, <1>2 DEF Active

\* Setting one flag of an entry keeps what it is for.
LEMMA EntryEdits ==
    ASSUME NEW e \in Entry
    PROVE  /\ \A b \in BOOLEAN : /\ Tame(e, [e EXCEPT !.slot = b]) /\ Tame(e, [e EXCEPT !.awaiting = b])
                                 /\ Tame(e, [e EXCEPT !.waits = b]) /\ Tame(e, [e EXCEPT !.abandoned = b])
                                 /\ (b => e.owned) => Tame(e, [e EXCEPT !.owned = b])
           /\ Tame(e, e)
BY DEF Entry, Tame

\* So does the table with that one entry changed.
LEMMA EditOne ==
    ASSUME NEW s, Client(s), NEW d, NEW g \in Tags, NEW e, Tame(s.tags[g], e), d.tags = [s.tags EXCEPT ![g] = e]
    PROVE  Edited(s, d)
BY DEF Client, Typed, Tabled, Edited, Tame

\* A free entry is an entry, and registers nothing.
LEMMA FreeEntry == Free \in Entry /\ Free.kind = "free" /\ ~Free.owned
BY Zenon DEF Free, Entry

\* A state reached by editing the table, and flags, frames or the ring beside it.
LEMMA StepsIf ==
    ASSUME NEW s, Client(s), NEW d, DOMAIN d = Fields, Edited(s, d), d.flags \in [Threads -> SUBSET Flags],
           d.dead \in BOOLEAN, d.out \in Request \cup {None}, d.c2s \in Seq(Request), Len(d.c2s) <= RingCap,
           d.tag = s.tag, d.kindOf = s.kindOf, d.reader = s.reader, d.parked = s.parked, d.spill = s.spill,
           d.at = s.at, d.loop = s.loop, d.why = s.why, d.ret = s.ret, d.async = s.async, d.pump = s.pump,
           d.posted = s.posted
    PROVE  Steps(s, d)
<1>1. Typed(d)  BY Zenon DEF Client, Typed, Edited
<1>2. Tabled(d)  BY DEF Client, Tabled, Edited
<1> QED BY Zenon, <1>1, <1>2 DEF Steps, Client, Posts

\* A tag is freed.
LEMMA ClearSteps ==
    ASSUME NEW s, Client(s), NEW g \in Tags
    PROVE  Steps(s, Clear(s, g))
<1>1. Edited(s, Clear(s, g))  BY FreeEntry DEF Client, Typed, Tabled, Clear, Fields, Edited
<1> QED BY Zenon, <1>1, StepsIf DEF Client, Typed, Clear, Fields

\* A reserved slot becomes a bound fid (slot_bind).
LEMMA SlotBindSteps ==
    ASSUME NEW s, Client(s), NEW g \in Tags
    PROVE  Steps(s, SlotBind(s, g))
<1>1. SlotBind(s, g).tags = [s.tags EXCEPT ![g] = [s.tags[g] EXCEPT !.slot = FALSE]]  BY Zenon DEF Client, Typed, SlotBind, Fields
<1>2. Edited(s, SlotBind(s, g))
  <2>1. Tame(s.tags[g], [s.tags[g] EXCEPT !.slot = FALSE])  BY Zenon, EntryEdits DEF Client, Typed
  <2> QED BY Zenon, <1>1, <2>1, EditOne
<1> QED BY Zenon, <1>2, StepsIf DEF Client, Typed, SlotBind, Fields

\* A Tflush is staged for tag g (p9_session_send_flush).
LEMMA StageFlushSteps ==
    ASSUME NEW s, Client(s), NEW g \in Tags, HasFlushTag(s)
    PROVE  Steps(s, StageFlush(s, g)) /\ StageFlush(s, g).out \in Request
<1>0. NewTag(s) \in Tags  BY Zenon, NewTagIn
<1> DEFINE new == [Free EXCEPT !.kind = "flush", !.op = s.tags[g].op, !.old = g]
<1>1. new \in Entry /\ new.kind = "flush" /\ new.old = g /\ ~new.owned
  BY Zenon DEF Free, Entry, Client, Typed, WireKinds
<1> DEFINE mid == [s.tags EXCEPT ![NewTag(s)] = new]
<1>2. StageFlush(s, g).tags = [mid EXCEPT ![g] = [mid[g] EXCEPT !.awaiting = TRUE]]  BY Zenon DEF Client, Typed, StageFlush, Fields
<1> HIDE DEF new
<1>3. /\ mid \in [Tags -> Entry] 
      /\ \A h \in Tags : /\ mid[h].kind = "flush" => mid[h].old \in Tags
                         /\ mid[h].owned => mid[h] = s.tags[h]
   BY <1>0, <1>1 DEF Client, Typed, Tabled
<1> HIDE DEF mid
<1>4. Edited(s, StageFlush(s, g))
  <2>1. Tame(mid[g], [mid[g] EXCEPT !.awaiting = TRUE])  BY Zenon, <1>3, EntryEdits
  <2> QED BY <1>2, <1>3, <2>1 DEF Edited, Tame
<1>5. StageFlush(s, g).out \in Request  BY <1>0 DEF Client, Typed, StageFlush, Fields, Request, WireKinds, Entry
<1> QED BY Zenon, <1>4, <1>5, StepsIf DEF Client, Typed, StageFlush, Fields

\* The session dies: every registered asynchronous operation completes, once, and
\* is registered no longer (client_mark_dead_locked).
LEMMA MarkDeadSteps ==
    ASSUME NEW s, Client(s)
    PROVE  Steps(s, MarkDead(s))
<1> DEFINE d == MarkDead(s)
           own == Owners(s)
<1> DEFINE mark(g) == IF s.tags[g].op \in Asyncs THEN [s.tags[g] EXCEPT !.owned = FALSE] ELSE s.tags[g]
<1>1. /\ DOMAIN d = Fields /\ d.dead = TRUE
  BY Zenon DEF Client, Typed, MarkDead, Wake, Fields
<1>1a. d.flags = [t \in Threads |-> IF t \in own THEN s.flags[t] \cup {"dead"} ELSE s.flags[t]]
  BY Zenon DEF Client, Typed, MarkDead, Wake, Fields
<1>1b. d.tags = [g \in Tags |-> mark(g)]
  BY Zenon DEF Client, Typed, MarkDead, Wake, Fields
<1>1c. d.posted = [a \in Asyncs |-> IF a \in own THEN s.posted[a] + 1 ELSE s.posted[a]]
  BY Zenon DEF Client, Typed, MarkDead, Wake, Fields
<1>2. /\ d.tag = s.tag /\ d.kindOf = s.kindOf /\ d.reader = s.reader /\ d.parked = s.parked /\ d.spill = s.spill
      /\ d.at = s.at /\ d.loop = s.loop /\ d.why = s.why /\ d.ret = s.ret /\ d.async = s.async /\ d.pump = s.pump
      /\ d.c2s = s.c2s /\ d.out = s.out
  BY Zenon DEF Client, Typed, MarkDead, Wake, Fields
<1> HIDE DEF d
<1>3. d.flags \in [Threads -> SUBSET Flags]  BY <1>1a DEF Client, Typed, Flags
<1>4. \A g \in Tags : Tame(s.tags[g], mark(g)) /\ (mark(g).owned => s.tags[g].op \notin Asyncs)
  <2> SUFFICES ASSUME NEW g \in Tags
               PROVE  Tame(s.tags[g], mark(g)) /\ (mark(g).owned => s.tags[g].op \notin Asyncs)
    BY Zenon
  <2>1. s.tags[g] \in Entry  BY Zenon DEF Client, Typed
  <2>2. CASE s.tags[g].op \in Asyncs
    <3>1. mark(g) = [s.tags[g] EXCEPT !.owned = FALSE]  BY Zenon, <2>2
    <3>2. mark(g).owned = FALSE  BY Zenon, <2>1, <3>1 DEF Entry
    <3> QED BY Zenon, <2>1, <3>1, <3>2, EntryEdits
  <2>3. CASE s.tags[g].op \notin Asyncs  BY Zenon, <2>1, <2>3, EntryEdits
  <2> QED BY Zenon, <2>2, <2>3
<1>4a. d.tags \in [Tags -> Entry] /\ \A g \in Tags : d.tags[g] = mark(g)  BY Zenon, <1>1b, <1>4 DEF Tame
<1> HIDE DEF mark
<1>5. \A a \in Asyncs : d.posted[a] = s.posted[a]
                         \/ (s.posted[a] = 0 /\ d.posted[a] = 1 /\ s.async[a] = "out")
  BY <1>1c DEF Owners, OpTags, Active, Client, Tabled
<1>7. Tabled(d)
  <2>1. \A a \in Asyncs : d.posted[a] \in {0, 1} /\ (d.async[a] = "idle" => d.posted[a] = 0)
    BY <1>2, <1>5 DEF Client, Tabled
  <2> QED BY <1>4, <1>4a, <2>1 DEF Client, Tabled, Tame
<1>8. d.posted \in [Asyncs -> Nat]  BY <1>1c DEF Client, Typed
<1>9. Typed(d)  BY Zenon, <1>1, <1>2, <1>3, <1>4a, <1>8 DEF Client, Typed
<1>10. Client(d)  BY Zenon, <1>7, <1>9 DEF Client
<1> QED BY Zenon, <1>2, <1>5, <1>10 DEF Steps, Posts, d

\* Doing nothing is a step under the lock.
LEMMA StepsRefl ==
    ASSUME NEW s, Client(s)
    PROVE  Steps(s, s)
BY Zenon DEF Steps, Posts

\* An entry's marks may change.
LEMMA SetSteps ==
    ASSUME NEW s, Client(s), NEW g \in Tags
    PROVE  /\ Steps(s, [s EXCEPT !.tags[g].waits = FALSE]) /\ Steps(s, [s EXCEPT !.tags[g].waits = TRUE])
           /\ Steps(s, [s EXCEPT !.tags[g].abandoned = TRUE]) /\ Steps(s, [s EXCEPT !.tags[g].owned = FALSE])
<1>1. s.tags[g] \in Entry  BY Zenon DEF Client, Typed
<1>2. Steps(s, [s EXCEPT !.tags[g].waits = FALSE])
  <2> DEFINE d == [s EXCEPT !.tags[g].waits = FALSE]
  <2>1. d.tags = [s.tags EXCEPT ![g] = [s.tags[g] EXCEPT !.waits = FALSE]]  BY Zenon DEF Client, Typed, Fields
  <2>2. Tame(s.tags[g], [s.tags[g] EXCEPT !.waits = FALSE])  BY Zenon, <1>1, EntryEdits
  <2>3. Edited(s, d)
    <3> HIDE DEF d
    <3> QED BY Zenon, <2>1, <2>2, EditOne
  <2> QED BY Zenon, <2>3, StepsIf DEF Client, Typed, Fields
<1>3. Steps(s, [s EXCEPT !.tags[g].waits = TRUE])
  <2> DEFINE d == [s EXCEPT !.tags[g].waits = TRUE]
  <2>1. d.tags = [s.tags EXCEPT ![g] = [s.tags[g] EXCEPT !.waits = TRUE]]  BY Zenon DEF Client, Typed, Fields
  <2>2. Tame(s.tags[g], [s.tags[g] EXCEPT !.waits = TRUE])  BY Zenon, <1>1, EntryEdits
  <2>3. Edited(s, d)
    <3> HIDE DEF d
    <3> QED BY Zenon, <2>1, <2>2, EditOne
  <2> QED BY Zenon, <2>3, StepsIf DEF Client, Typed, Fields
<1>4. Steps(s, [s EXCEPT !.tags[g].abandoned = TRUE])
  <2> DEFINE d == [s EXCEPT !.tags[g].abandoned = TRUE]
  <2>1. d.tags = [s.tags EXCEPT ![g] = [s.tags[g] EXCEPT !.abandoned = TRUE]]  BY Zenon DEF Client, Typed, Fields
  <2>2. Tame(s.tags[g], [s.tags[g] EXCEPT !.abandoned = TRUE])  BY Zenon, <1>1, EntryEdits
  <2>3. Edited(s, d)
    <3> HIDE DEF d
    <3> QED BY Zenon, <2>1, <2>2, EditOne
  <2> QED BY Zenon, <2>3, StepsIf DEF Client, Typed, Fields
<1>5. Steps(s, [s EXCEPT !.tags[g].owned = FALSE])
  <2> DEFINE d == [s EXCEPT !.tags[g].owned = FALSE]
  <2>1. d.tags = [s.tags EXCEPT ![g] = [s.tags[g] EXCEPT !.owned = FALSE]]  BY Zenon DEF Client, Typed, Fields
  <2>2. Tame(s.tags[g], [s.tags[g] EXCEPT !.owned = FALSE])  BY Zenon, <1>1, EntryEdits
  <2>3. Edited(s, d)
    <3> HIDE DEF d
    <3> QED BY Zenon, <2>1, <2>2, EditOne
  <2> QED BY Zenon, <2>3, StepsIf DEF Client, Typed, Fields
<1> QED BY Zenon, <1>2, <1>3, <1>4, <1>5

\* An operation gives up its registration.
LEMMA UnregisterSteps ==
    ASSUME NEW s, Client(s), NEW op \in Ops
    PROVE  Steps(s, Unregister(s, op))
<1>1. s.tag[op] \in Tags  BY Zenon DEF Client, Typed
<1> QED BY Zenon, <1>1, SetSteps, StepsRefl DEF Unregister

\* The table left as it is counts as edited.
LEMMA SameTags ==
    ASSUME NEW s, Client(s), NEW d, d.tags = s.tags
    PROVE  Edited(s, d)
BY Zenon DEF Client, Typed, Tabled, Edited

\* Threads are woken.
LEMMA WakeSteps ==
    ASSUME NEW s, Client(s), NEW ts
    PROVE  Steps(s, Wake(s, ts))
<1>1. Wake(s, ts).tags = s.tags  BY Zenon DEF Client, Typed, Wake, Fields
<1>2. Edited(s, Wake(s, ts))  BY Zenon, <1>1, SameTags
<1> QED BY Zenon, <1>2, StepsIf DEF Client, Typed, Wake, Fields

\* The parked senders are woken (client_send_progress_signal).
LEMMA SignalSteps ==
    ASSUME NEW s, Client(s)
    PROVE  Steps(s, Signal(s))
BY Zenon, WakeSteps DEF Signal

\* A flag of a caller is set.
LEMMA RaiseSteps ==
    ASSUME NEW s, Client(s), NEW t \in Threads, NEW flag \in Flags
    PROVE  Steps(s, Raise(s, t, flag))
<1>1. Raise(s, t, flag).tags = s.tags  BY Zenon DEF Client, Typed, Raise, Fields
<1>2. Edited(s, Raise(s, t, flag))  BY Zenon, <1>1, SameTags
<1> QED BY ZenonT(30), <1>2, StepsIf DEF Client, Typed, Raise, Fields

\* A flag of a caller is cleared.
LEMMA LowerSteps ==
    ASSUME NEW s, Client(s), NEW t \in Threads, NEW flag
    PROVE  Steps(s, Lower(s, t, flag))
<1>1. Lower(s, t, flag).tags = s.tags  BY Zenon DEF Client, Typed, Lower, Fields
<1>2. Edited(s, Lower(s, t, flag))  BY Zenon, <1>1, SameTags
<1> QED BY Zenon, <1>2, StepsIf DEF Client, Typed, Lower, Fields

\* A fid goes to the closer.
LEMMA CloserSteps ==
    ASSUME NEW s, Client(s), NEW fs
    PROVE  Steps(s, [s EXCEPT !.closer = fs])
<1> DEFINE d == [s EXCEPT !.closer = fs]
<1>1. d.tags = s.tags  BY Zenon DEF Client, Typed, Fields
<1>2. Edited(s, d)  BY Zenon, <1>1, SameTags
<1> QED BY Zenon, <1>2, StepsIf DEF Client, Typed, Fields

\* The role is offered to a waiter, which does not hold it yet
\* (client_handoff_reader_locked).
LEMMA HandoffSteps ==
    ASSUME NEW s, Client(s), NEW me
    PROVE  Steps(s, Handoff(s, me))
<1> DEFINE able == {g \in OpTags(s) :
                    /\ s.tags[g].owned
                    /\ s.tags[g].op \in Threads \ {me}
                    /\ ~Has(s, s.tags[g].op, {"done", "dead", "be_reader", "sending", "stop_parked"})}
           next == s.tags[Min(able)].op
<1>1. CASE able # {}
  <2>1. able \subseteq Nat  BY DEF OpTags, Active, Tags
  <2>2. Min(able) \in able  BY Zenon, <1>1, <2>1, MinIn
  <2>3. next \in Threads  BY Zenon, <2>2
  <2>4. Steps(s, Raise(s, next, "be_reader"))  BY Zenon, <2>3, RaiseSteps DEF Flags
  <2>5. Client(Raise(s, next, "be_reader"))  BY Zenon, <2>4 DEF Steps
  <2>6. Steps(s, Wake(Raise(s, next, "be_reader"), {next}))  BY Zenon, <2>4, <2>5, WakeSteps, StepsTrans
  <2> QED BY Zenon, <1>1, <2>6 DEF Handoff
<1>2. CASE able = {} /\ ~s.reader
  <2>1. Handoff(s, me) = Wake(s, s.hooked)  BY Zenon, <1>2 DEF Handoff
  <2> QED BY Zenon, <2>1, WakeSteps
<1>3. CASE able = {} /\ s.reader
  <2>1. Handoff(s, me) = s  BY Zenon, <1>3 DEF Handoff
  <2> QED BY Zenon, <2>1, StepsRefl
<1> QED BY Zenon, <1>1, <1>2, <1>3

\* A designated reader hands the offer on.
LEMMA PassOnSteps ==
    ASSUME NEW s, Client(s), NEW t \in Threads
    PROVE  Steps(s, PassOn(s, t))
<1>1. Steps(s, Lower(s, t, "be_reader"))  BY Zenon, LowerSteps
<1>2. Client(Lower(s, t, "be_reader"))  BY Zenon, <1>1 DEF Steps
<1> QED BY Zenon, <1>1, <1>2, HandoffSteps, StepsTrans, StepsRefl DEF PassOn

\* A Tflush that was not sent is taken back (flush_unstage).
LEMMA FlushRetractSteps ==
    ASSUME NEW s, Client(s), NEW g \in Tags
    PROVE  Steps(s, FlushRetract(s, g))
<1>1. CASE ~s.tags[g].awaiting  BY Zenon, <1>1, StepsRefl DEF FlushRetract
<1>2. CASE s.tags[g].awaiting
  <2> DEFINE mid == [h \in Tags |-> IF h \in FlushesOf(s, g) THEN Free ELSE s.tags[h]]
             e == [mid[g] EXCEPT !.awaiting = FALSE]
             f == [e EXCEPT !.waits = FALSE]
             d == FlushRetract(s, g)
  <2>1. d.tags = [[mid EXCEPT ![g] = e] EXCEPT ![g] = f]
    BY Zenon, <1>2 DEF Client, Typed, FlushRetract, Fields
  <2>2. /\ mid \in [Tags -> Entry]
        /\ \A h \in Tags : /\ mid[h].kind = "flush" => mid[h].old \in Tags
                           /\ mid[h].owned => mid[h] = s.tags[h]
    BY FreeEntry DEF Client, Typed, Tabled
  <2> HIDE DEF mid
  <2>3. Tame(mid[g], e)  BY Zenon, <2>2, EntryEdits
  <2>4. Tame(e, f)  BY Zenon, <2>3, EntryEdits DEF Tame
  <2> HIDE DEF e, f
  <2>5. Edited(s, d)
    <3>1. d.tags = [mid EXCEPT ![g] = f]  BY Zenon, <2>1, <2>2
    <3> QED BY <2>2, <2>3, <2>4, <3>1 DEF Edited, Tame
  <2> QED BY Zenon, <1>2, <2>5, StepsIf DEF Client, Typed, FlushRetract, Fields
<1> QED BY Zenon, <1>1, <1>2

\* The same for a request whose caller has left.
LEMMA FlushRollbackSteps ==
    ASSUME NEW s, Client(s), NEW g \in Tags
    PROVE  Steps(s, FlushRollback(s, g))
<1> DEFINE r == FlushRetract(s, g)
<1>1. Steps(s, r) /\ Client(r)  BY Zenon, FlushRetractSteps DEF Steps
<1> HIDE DEF r
<1>2. Steps(s, [r EXCEPT !.tags[g].abandoned = TRUE])  BY Zenon, <1>1, SetSteps, StepsTrans
<1> QED BY Zenon, <1>2 DEF FlushRollback, r

\* The effect of a reply on the table (apply_rmsg).
LEMMA ApplyRmsgSteps ==
    ASSUME NEW s, Client(s), NEW f \in Answer, Fits(s, f)
    PROVE  Steps(s, ApplyRmsg(s, f))
<1>1. f.tag \in Tags  BY Zenon DEF Answer
<1>2. CASE f.kind = "walk" /\ ~f.err
  <2>1. ApplyRmsg(s, f) = SlotBind(s, f.tag)  BY Zenon, <1>2 DEF ApplyRmsg
  <2> QED BY Zenon, <1>1, <2>1, SlotBindSteps
<1>3. CASE f.kind = "flush" /\ s.tags[s.tags[f.tag].old].awaiting
  <2>1. ApplyRmsg(s, f) = Clear(s, s.tags[f.tag].old)  BY Zenon, <1>3 DEF ApplyRmsg
  <2>2. s.tags[f.tag].old \in Tags  BY ZenonT(40), <1>1, <1>3 DEF Fits, Client, Tabled
  <2> QED BY Zenon, <2>1, <2>2, ClearSteps
<1>4. CASE ~(f.kind = "walk" /\ ~f.err) /\ ~(f.kind = "flush" /\ s.tags[s.tags[f.tag].old].awaiting)
  <2>1. ApplyRmsg(s, f) = s  BY Zenon, <1>4 DEF ApplyRmsg
  <2> QED BY Zenon, <2>1, StepsRefl
<1> QED BY Zenon, <1>2, <1>3, <1>4

\* A reply is dispatched (p9_session_dispatch_rmsg).
LEMMA DispatchSteps ==
    ASSUME NEW s, Client(s), NEW f \in Answer, Fits(s, f)
    PROVE  Steps(s, Dispatch(s, f))
<1>1. f.tag \in Tags  BY Zenon DEF Answer
<1>2. Steps(s, ApplyRmsg(s, f)) /\ Client(ApplyRmsg(s, f))  BY Zenon, ApplyRmsgSteps DEF Steps
<1>3. Steps(s, Clear(ApplyRmsg(s, f), f.tag))  BY Zenon, <1>1, <1>2, ClearSteps, StepsTrans
<1> QED BY Zenon, <1>1, <1>3, SlotBindSteps, StepsRefl DEF Dispatch

\* The same for a reply nobody waits for.
LEMMA DispatchLateSteps ==
    ASSUME NEW s, Client(s), NEW f \in Answer, Fits(s, f)
    PROVE  Steps(s, DispatchLate(s, f))
<1> DEFINE d == Dispatch(s, f)
<1>1. Steps(s, d) /\ Client(d)  BY Zenon, DispatchSteps DEF Steps
<1>2. DispatchLate(s, f) = [d EXCEPT !.closer = d.closer \cup (d.bound \ s.bound)]  BY Zenon DEF DispatchLate
<1> HIDE DEF d
<1> QED BY Zenon, <1>1, <1>2, CloserSteps, StepsTrans

\* The reply to t's request (client_apply_reply_locked).
LEMMA ApplyReplySteps ==
    ASSUME NEW s, Client(s), NEW f \in Answer, NEW t \in Threads
    PROVE  Steps(s, ApplyReply(s, f, t))
<1> DEFINE u == Unregister(s, t)
           r == IF Has(s, t, {"noted"}) THEN FlushRetract(u, f.tag) ELSE u
<1>1. f.tag \in Tags /\ t \in Ops  BY Zenon DEF Answer, Ops
<1>2. Steps(s, u) /\ Client(u)  BY Zenon, <1>1, UnregisterSteps DEF Steps
<1> HIDE DEF u
<1>3. Steps(s, r) /\ Client(r)  BY <1>1, <1>2, FlushRetractSteps, StepsTrans DEF Steps
<1> HIDE DEF r
<1>4. CASE Has(s, t, {"flushing"}) /\ Fits(u, f)
  <2> DEFINE a == ApplyRmsg(u, f)
  <2>1. Steps(s, a) /\ Client(a)  BY <1>2, <1>4, ApplyRmsgSteps, StepsTrans DEF Steps
  <2>2. ApplyReply(s, f, t) = [a EXCEPT !.tags[f.tag].waits = FALSE]  BY Zenon, <1>4 DEF ApplyReply, u
  <2> HIDE DEF a
  <2> QED BY Zenon, <1>1, <2>1, <2>2, SetSteps, StepsTrans
<1>5. CASE Has(s, t, {"flushing"}) /\ ~Fits(u, f)
  <2>1. ApplyReply(s, f, t) = MarkDead(u)  BY Zenon, <1>5 DEF ApplyReply, u
  <2> QED BY Zenon, <1>2, <2>1, MarkDeadSteps, StepsTrans
<1>6. CASE ~Has(s, t, {"flushing"}) /\ Fits(r, f)
  <2>1. ApplyReply(s, f, t) = Signal(Dispatch(r, f))  BY Zenon, <1>6 DEF ApplyReply, u, r
  <2>2. Steps(s, Dispatch(r, f)) /\ Client(Dispatch(r, f))  BY <1>3, <1>6, DispatchSteps, StepsTrans DEF Steps
  <2> QED BY Zenon, <2>1, <2>2, SignalSteps, StepsTrans
<1>7. CASE ~Has(s, t, {"flushing"}) /\ ~Fits(r, f)
  <2>1. ApplyReply(s, f, t) = Signal(MarkDead(r))  BY Zenon, <1>7 DEF ApplyReply, u, r
  <2>2. Steps(s, MarkDead(r)) /\ Client(MarkDead(r))  BY <1>3, MarkDeadSteps, StepsTrans DEF Steps
  <2> QED BY Zenon, <2>1, <2>2, SignalSteps, StepsTrans
<1> QED BY Zenon, <1>4, <1>5, <1>6, <1>7

\* An Rflush.
LEMMA DemuxFlushSteps ==
    ASSUME NEW s, Client(s), NEW f \in Answer, Fits(s, f), s.tags[f.tag].kind = "flush"
    PROVE  Steps(s, DemuxFlush(s, f))
<1> DEFINE old == s.tags[f.tag].old
           op  == s.tags[old].op
           d   == Dispatch(s, f)
<1>1. old \in Tags  BY Zenon DEF Answer, Client, Tabled
<1>2. Steps(s, d) /\ Client(d)  BY Zenon, DispatchSteps DEF Steps
<1>3. CASE ~s.tags[old].owned  BY Zenon, <1>2, <1>3 DEF DemuxFlush
<1>4. CASE s.tags[old].owned /\ (op \in Asyncs \/ ~Has(s, op, {"flushing"}))
  BY Zenon, <1>4, MarkDeadSteps DEF DemuxFlush
<1>5. CASE s.tags[old].owned /\ ~(op \in Asyncs \/ ~Has(s, op, {"flushing"}))
  <2>1. op \in Threads  BY Zenon, <1>1, <1>5 DEF Client, Tabled, Ops
  <2>2. DemuxFlush(s, f) = Wake(Raise(d, op, "flushed"), {op})  BY Zenon, <1>5 DEF DemuxFlush
  <2> HIDE DEF d, op
  <2>3. Steps(s, Raise(d, op, "flushed")) /\ Client(Raise(d, op, "flushed"))
    BY <1>2, <2>1, RaiseSteps, StepsTrans DEF Flags, Steps
  <2> QED BY Zenon, <2>2, <2>3, WakeSteps, StepsTrans
<1> QED BY Zenon, <1>3, <1>4, <1>5

\* Any frame (demux_frame_locked): an asynchronous operation that it completes was
\* registered, so it had not completed.
LEMMA DemuxSteps ==
    ASSUME NEW s, Client(s), NEW f \in Answer
    PROVE  Steps(s, Demux(s, f))
<1> DEFINE e == s.tags[f.tag]
<1>1. f.tag \in Tags /\ e \in Entry /\ (e.owned => e.op \in Ops)  BY DEF Answer, Client, Typed, Tabled
<1>2. CASE e.owned /\ e.op \in Asyncs
  <2> DEFINE u == [s EXCEPT !.tags[f.tag].owned = FALSE, !.posted[e.op] = @ + 1]
  <2>1. Steps(s, u) /\ Client(u)
    <3>1. /\ u.tags = [s.tags EXCEPT ![f.tag] = [e EXCEPT !.owned = FALSE]]
          /\ u.posted = [s.posted EXCEPT ![e.op] = s.posted[e.op] + 1] /\ DOMAIN u = Fields
      BY Zenon DEF Client, Typed, Fields
    <3>2. /\ u.tag = s.tag /\ u.kindOf = s.kindOf /\ u.reader = s.reader /\ u.parked = s.parked
          /\ u.spill = s.spill /\ u.at = s.at /\ u.loop = s.loop /\ u.why = s.why /\ u.ret = s.ret
          /\ u.async = s.async /\ u.pump = s.pump /\ u.c2s = s.c2s /\ u.out = s.out /\ u.flags = s.flags
          /\ u.dead = s.dead
      BY Zenon DEF Client, Typed, Fields
    <3>3. Tame(e, [e EXCEPT !.owned = FALSE]) /\ [e EXCEPT !.owned = FALSE].owned = FALSE
      BY Zenon, <1>1, EntryEdits DEF Entry
    <3> HIDE DEF u
    <3>4. Edited(s, u)
      <4> DEFINE ne == [e EXCEPT !.owned = FALSE]
      <4>1. Tame(s.tags[f.tag], ne) /\ u.tags = [s.tags EXCEPT ![f.tag] = ne]  BY Zenon, <3>1, <3>3
      <4> HIDE DEF ne
      <4> QED BY Zenon, <1>1, <4>1, EditOne
    <3>4a. ~u.tags[f.tag].owned  BY ZenonT(40), <1>1, <3>1, <3>3 DEF Client, Typed
    <3>5. /\ s.tag[e.op] = f.tag /\ s.posted[e.op] = 0 /\ s.async[e.op] = "out" /\ s.posted[e.op] + 1 = 1
      BY <1>1, <1>2 DEF Client, Tabled
    <3> DEFINE o == e.op
    <3>6. u.posted[o] = 1 /\ \A a \in Asyncs \ {o} : u.posted[a] = s.posted[a]
      <4>1. u.posted = [s.posted EXCEPT ![o] = 1] /\ o \in Asyncs  BY ZenonT(40), <1>2, <3>1, <3>5
      <4> HIDE DEF o
      <4> QED BY Zenon, <4>1 DEF Client, Typed
    <3>7. u.posted \in [Asyncs -> Nat]  BY <1>2, <3>1, <3>5 DEF Client, Typed
    <3>8. Typed(u)  BY Zenon, <3>1, <3>2, <3>4, <3>7 DEF Client, Typed, Edited
    <3>9. Tabled(u)
      <4>1. \A a \in Asyncs : u.posted[a] \in {0, 1} /\ (u.async[a] = "idle" => u.posted[a] = 0)
        <5>1. \A a \in Asyncs : s.posted[a] \in {0, 1} /\ (s.async[a] = "idle" => s.posted[a] = 0)
          BY Zenon DEF Client, Tabled
        <5> QED BY ZenonT(40), <3>2, <3>5, <3>6, <5>1
      <4>2. ASSUME NEW g \in Tags, u.tags[g].owned
            PROVE  /\ u.tags[g].kind \notin {"free", "flush"} /\ u.tags[g].op \in Ops
                   /\ u.tags[g].op \in Asyncs => /\ u.tag[u.tags[g].op] = g /\ u.tags[g].op # o
                                                 /\ u.async[u.tags[g].op] = "out" /\ s.posted[u.tags[g].op] = 0
        BY <1>1, <3>2, <3>4, <3>4a, <3>5, <4>2 DEF Client, Tabled, Edited
      <4>3. \A g \in Tags : u.tags[g].kind = "flush" => u.tags[g].old \in Tags  BY Zenon, <3>4 DEF Edited
      <4>4. \A g \in Tags : u.tags[g].owned /\ u.tags[g].op \in Asyncs => u.posted[u.tags[g].op] = 0
        BY ZenonT(40), <3>6, <4>2
      <4> QED BY Zenon, <4>1, <4>2, <4>3, <4>4 DEF Tabled
    <3>10. Client(u)  BY Zenon, <3>8, <3>9 DEF Client
    <3> QED BY Zenon, <3>2, <3>5, <3>6, <3>10 DEF Steps, Posts
  <2> HIDE DEF u
  <2>2. Demux(s, f) = IF Fits(u, f) THEN Dispatch(u, f) ELSE MarkDead(u)  BY Zenon, <1>2 DEF Demux, u
  <2> QED BY Zenon, <2>1, <2>2, DispatchSteps, MarkDeadSteps, StepsTrans
<1>3. CASE e.owned /\ e.op \notin Asyncs
  <2>1. e.op \in Threads  BY Zenon, <1>1, <1>3 DEF Ops
  <2> DEFINE r == ApplyReply(s, f, e.op)
  <2>2. Steps(s, r) /\ Client(r)  BY Zenon, <2>1, ApplyReplySteps DEF Steps
  <2>3. Demux(s, f) = Wake(Raise(r, e.op, "done"), {e.op})  BY Zenon, <1>3 DEF Demux
  <2> HIDE DEF r, e
  <2>4. Steps(r, Raise(r, e.op, "done"))  BY Zenon, <2>1, <2>2, RaiseSteps DEF Flags
  <2>5. Steps(s, Raise(r, e.op, "done")) /\ Client(Raise(r, e.op, "done"))
    BY Zenon, <2>2, <2>4, StepsTrans DEF Steps
  <2> QED BY Zenon, <2>3, <2>5, WakeSteps, StepsTrans
<1>4. CASE ~e.owned /\ ~Fits(s, f)
  BY Zenon, <1>4, MarkDeadSteps, StepsRefl DEF Demux
<1>5. CASE ~e.owned /\ Fits(s, f)
  BY Zenon, <1>5, DemuxFlushSteps, DispatchLateSteps, DispatchSteps DEF Demux
<1> QED BY Zenon, <1>2, <1>3, <1>4, <1>5

\* There is a tag.
LEMMA ZeroTag == 0 \in Tags /\ TagLimit \in Nat
BY ConstantsAssumption DEF Tags

\* The return from a call.
LEMMA ReturnEnds ==
    ASSUME NEW s, Client(s), NEW t \in Threads, NEW v
    PROVE  Ends(s, Return(s, t, v), t)
<1> DEFINE d == Return(s, t, v)
<1>1. /\ DOMAIN d = Fields /\ d.tags = s.tags /\ d.kindOf = s.kindOf /\ d.reader = s.reader /\ d.dead = s.dead
      /\ d.c2s = s.c2s /\ d.out = s.out /\ d.posted = s.posted /\ d.async = s.async /\ d.pump = s.pump
  BY ZenonT(40) DEF Client, Typed, Return, Fields
<1>2. /\ d.at = [s.at EXCEPT ![t] = "user"] /\ d.flags = [s.flags EXCEPT ![t] = {}] /\ d.spill = [s.spill EXCEPT ![t] = None]
      /\ d.loop = [s.loop EXCEPT ![t] = "wait"] /\ d.why = [s.why EXCEPT ![t] = None] /\ d.tag = [s.tag EXCEPT ![t] = 0]
      /\ d.parked = s.parked \ {t} /\ d.ret = [s.ret EXCEPT ![t] = v]
  BY Zenon DEF Client, Typed, Return, Fields
<1> HIDE DEF d
<1>3. Typed(d)  BY <1>1, <1>2, ZeroTag DEF Client, Typed, Flags, Ops
<1>4. Tabled(d)
  <2>1. \A a \in Asyncs : d.tag[a] = s.tag[a]  BY <1>2, ConstantsAssumption DEF Client, Typed, Ops
  <2> QED BY <1>1, <2>1 DEF Client, Tabled
<1>5. Client(d) /\ Posts(s, d)  BY ZenonT(40), <1>1, <1>3, <1>4 DEF Client, Posts
<1>6. Ends(s, d, t)  BY <1>1, <1>2, <1>5 DEF Client, Typed, Ends, Settles
<1> QED BY Zenon, <1>6 DEF d

\* The lock is dropped for a recv, a sleep or a park.
LEMMA DropSettles ==
    ASSUME NEW s, Client(s), NEW t \in Threads, NEW loop \in {"wait", "drain", "stage", "send", "fsend"},
           NEW at \in {"recv", "sleep", "park", "stop"}, loop \in {"send", "fsend"} => s.spill[t] # None
    PROVE  /\ Settles(s, Drop(s, t, loop, at), t)
           /\ Drop(s, t, loop, at).at[t] = at
           /\ at = "recv" => Drop(s, t, loop, at).reader
           /\ at # "recv" => Drop(s, t, loop, at).reader = s.reader
<1> DEFINE d == Drop(s, t, loop, at)
<1>1. /\ DOMAIN d = Fields /\ d.tags = s.tags /\ d.kindOf = s.kindOf /\ d.dead = s.dead
      /\ d.c2s = s.c2s /\ d.out = s.out /\ d.posted = s.posted /\ d.async = s.async /\ d.pump = s.pump
      /\ d.tag = s.tag /\ d.ret = s.ret /\ d.spill = s.spill
  BY Zenon DEF Client, Typed, Drop, Fields
<1>2. /\ d.at = [s.at EXCEPT ![t] = at] /\ d.loop = [s.loop EXCEPT ![t] = loop] /\ d.why = [s.why EXCEPT ![t] = None]
      /\ d.flags = [s.flags EXCEPT ![t] = IF at = "stop" THEN @ \cup {"stop_parked"} ELSE @ \ {"stop_parked"}]
      /\ d.parked = IF at = "park" THEN s.parked \cup {t} ELSE s.parked \ {t}
  BY Zenon DEF Client, Typed, Drop, Fields
<1>3. d.reader \in BOOLEAN /\ (at = "recv" => d.reader)
  BY Zenon DEF Client, Typed, Drop, Fields
<1>3a. at # "recv" => d.reader = s.reader
  BY Zenon DEF Client, Typed, Drop, Fields
<1> HIDE DEF d
<1>4. Typed(d)
  <2>1. d.flags \in [Threads -> SUBSET Flags]  BY <1>2 DEF Client, Typed, Flags
  <2> QED BY <1>1, <1>2, <1>3, <2>1 DEF Client, Typed
<1>5. Client(d) /\ Posts(s, d)  BY <1>1, <1>4 DEF Client, Tabled, Posts
<1>6. Settles(s, d, t) /\ d.at[t] = at  BY <1>1, <1>2, <1>5 DEF Client, Typed, Settles
<1> QED BY Zenon, <1>3, <1>3a, <1>6 DEF d

\* The same for a caller that reads next only if nobody does.
LEMMA DropEnds ==
    ASSUME NEW s, Client(s), NEW t \in Threads, NEW loop \in {"wait", "drain", "stage", "send", "fsend"},
           NEW at \in {"recv", "sleep", "park", "stop"}, at = "recv" => ~s.reader,
           loop \in {"send", "fsend"} => s.spill[t] # None
    PROVE  Ends(s, Drop(s, t, loop, at), t)
BY DropSettles DEF Ends

\* client_pump_or_park_locked looks at the role under the lock that it takes it with.
LEMMA PumpOrParkEnds ==
    ASSUME NEW s, Client(s), NEW t \in Threads, NEW loop \in {"drain", "stage", "send", "fsend"},
           loop \in {"send", "fsend"} => s.spill[t] # None
    PROVE  Ends(s, PumpOrPark(s, t, loop), t)
<1> DEFINE l == Lower(s, t, "be_reader")
<1>1. Steps(s, l) /\ Client(l) /\ l.reader = s.reader /\ l.spill = s.spill  BY LowerSteps DEF Steps
<1>2. CASE s.reader
  <2>1. Ends(s, Drop(s, t, loop, "park"), t)  BY Zenon, DropEnds
  <2> QED BY Zenon, <1>2, <2>1 DEF PumpOrPark
<1>3. CASE ~s.reader
  <2> HIDE DEF l
  <2>1. Ends(l, Drop(l, t, loop, "recv"), t)  BY Zenon, <1>1, <1>3, DropEnds
  <2>2. Ends(s, Drop(l, t, loop, "recv"), t)  BY Zenon, <1>1, <2>1, StepsEnds
  <2> QED BY Zenon, <1>3, <2>2 DEF PumpOrPark, l
<1> QED BY Zenon, <1>2, <1>3

\* So does the election of client_wait.
LEMMA ElectEnds ==
    ASSUME NEW s, Client(s), NEW t \in Threads
    PROVE  Ends(s, Elect(s, t), t)
<1> DEFINE l == Lower(s, t, "be_reader")
<1>1. Steps(s, l) /\ Client(l) /\ l.reader = s.reader  BY LowerSteps DEF Steps
<1>2. Elect(s, t) = Drop(l, t, "wait", IF s.reader THEN "sleep" ELSE "recv")  BY Zenon DEF Elect
<1> HIDE DEF l
<1>3. Ends(l, Drop(l, t, "wait", IF s.reader THEN "sleep" ELSE "recv"), t)  BY Zenon, <1>1, DropEnds
<1> QED BY Zenon, <1>1, <1>2, <1>3, StepsEnds

\* A request that was not sent is taken back.
LEMMA TakeBackEnds ==
    ASSUME NEW s, Client(s), NEW t \in Threads
    PROVE  Ends(s, TakeBack(s, t), t)
<1> DEFINE g == s.tag[t]
           u == Unregister(s, t)
           b == SlotBind(u, g)
           w == [b EXCEPT !.closer = b.closer \cup {FidOf[t]}]
<1>1. g \in Tags /\ t \in Ops  BY Zenon DEF Client, Typed, Ops
<1>2. Steps(s, u) /\ Client(u)  BY Zenon, <1>1, UnregisterSteps DEF Steps
<1> HIDE DEF g, u
<1>3. Steps(s, b) /\ Client(b)  BY <1>1, <1>2, SlotBindSteps, StepsTrans DEF Steps
<1> HIDE DEF b
<1>4a. Steps(b, w)  BY Zenon, <1>3, CloserSteps
<1> HIDE DEF w
<1>4. Steps(s, w) /\ Client(w)  BY Zenon, <1>3, <1>4a, StepsTrans DEF Steps
<1>5. ASSUME NEW x, Steps(s, x), Client(x), NEW v PROVE Ends(s, Return(Signal(Clear(x, g)), t, v), t)
  <2>1. Steps(s, Clear(x, g)) /\ Client(Clear(x, g))  BY <1>1, <1>5, ClearSteps, StepsTrans DEF Steps
  <2>2. Steps(s, Signal(Clear(x, g))) /\ Client(Signal(Clear(x, g)))  BY ZenonT(40), <2>1, SignalSteps, StepsTrans DEF Steps
  <2> QED BY Zenon, <2>2, ReturnEnds, StepsEnds
<1>6. Ends(s, Return(Signal(Clear(w, g)), t, "again"), t)  BY Zenon, <1>4, <1>5
<1>7. Ends(s, Return(Signal(Clear(u, g)), t, "err"), t)  BY Zenon, <1>2, <1>5
<1> QED BY Zenon, <1>6, <1>7 DEF TakeBack, w, b, u, g

\* A staged frame is put on the ring.
LEMMA SendSteps ==
    ASSUME NEW s, Client(s), s.out \in Request, Len(s.c2s) # RingCap
    PROVE  Steps(s, [s EXCEPT !.c2s = Append(@, s.out)])
<1> DEFINE d == [s EXCEPT !.c2s = Append(@, s.out)]
<1>1. d.tags = s.tags /\ d.c2s = Append(s.c2s, s.out)  BY Zenon DEF Client, Typed, Fields
<1>2. d.c2s \in Seq(Request) /\ Len(d.c2s) <= RingCap
  <2>1. s.c2s \in Seq(Request) /\ Len(s.c2s) \in Nat /\ Len(s.c2s) <= RingCap /\ RingCap \in Nat
    BY ConstantsAssumption DEF Client, Typed
  <2>2. Append(s.c2s, s.out) \in Seq(Request) /\ Len(Append(s.c2s, s.out)) = Len(s.c2s) + 1
    BY <2>1
  <2>3. Len(s.c2s) + 1 <= RingCap  BY <2>1
  <2> HIDE DEF d
  <2> QED BY Zenon, <1>1, <2>2, <2>3
<1>3. Edited(s, d)  BY Zenon, <1>1, SameTags
<1> QED BY Zenon, <1>2, <1>3, StepsIf DEF Client, Typed, Fields

\* A request is left behind.
LEMMA AbandonEnds ==
    ASSUME NEW s, Client(s), NEW t \in Threads
    PROVE  Ends(s, Abandon(s, t), t)
<1> DEFINE g == s.tag[t]
           u == Unregister(s, t)
           f == StageFlush(u, g)
<1>1. g \in Tags /\ t \in Ops  BY Zenon DEF Client, Typed, Ops
<1>2. Steps(s, u) /\ Client(u)  BY Zenon, <1>1, UnregisterSteps DEF Steps
<1> HIDE DEF g, u
<1>3. ASSUME NEW x, Steps(s, x), NEW v PROVE Ends(s, Return(x, t, v), t)
  BY Zenon, <1>3, ReturnEnds, StepsEnds DEF Steps
<1>4. Steps(s, [u EXCEPT !.tags[g].waits = FALSE]) /\ Steps(s, [u EXCEPT !.tags[g].abandoned = TRUE])
  BY Zenon, <1>1, <1>2, SetSteps, StepsTrans
<1>5. ASSUME HasFlushTag(u)
      PROVE  /\ Steps(s, MarkDead(f)) /\ Steps(s, Signal(FlushRollback(f, g)))
             /\ Len(f.c2s) # RingCap => Steps(s, [f EXCEPT !.c2s = Append(@, f.out)])
  <2>1. Steps(s, f) /\ Client(f) /\ f.out \in Request  BY <1>1, <1>2, <1>5, StageFlushSteps, StepsTrans DEF Steps
  <2> HIDE DEF f
  <2>2. Steps(s, MarkDead(f))  BY Zenon, <2>1, MarkDeadSteps, StepsTrans
  <2>3. Steps(s, FlushRollback(f, g)) /\ Client(FlushRollback(f, g))
    BY <1>1, <2>1, FlushRollbackSteps, StepsTrans DEF Steps
  <2>4. Steps(s, Signal(FlushRollback(f, g)))  BY Zenon, <2>3, SignalSteps, StepsTrans
  <2>5. Len(f.c2s) # RingCap => Steps(s, [f EXCEPT !.c2s = Append(@, f.out)])  BY Zenon, <2>1, SendSteps, StepsTrans
  <2> QED BY Zenon, <2>2, <2>4, <2>5
<1> DEFINE x == IF ~HasFlushTag(u) THEN [u EXCEPT !.tags[g].abandoned = TRUE]
                ELSE IF gone THEN MarkDead(f)
                ELSE IF Len(f.c2s) = RingCap THEN Signal(FlushRollback(f, g))
                ELSE [f EXCEPT !.c2s = Append(@, f.out)]
<1>6. Steps(s, x)  BY Zenon, <1>4, <1>5
<1>7. Abandon(s, t) = IF WireKind(t) = "clunk" THEN Return(u, t, "ok")
                      ELSE IF Has(s, t, {"flushing"}) THEN Return([u EXCEPT !.tags[g].waits = FALSE], t, "err")
                      ELSE Return(x, t, "err")
  BY Zenon DEF Abandon, u, g
<1> HIDE DEF x
<1>8. Ends(s, Return(x, t, "err"), t) /\ Ends(s, Return(u, t, "ok"), t)  BY Zenon, <1>2, <1>3, <1>6
<1>9. Ends(s, Return([u EXCEPT !.tags[g].waits = FALSE], t, "err"), t)  BY Zenon, <1>3, <1>4
<1> QED BY Zenon, <1>7, <1>8, <1>9

\* The top of client_wait's loop.
LEMMA WaitTopEnds ==
    ASSUME NEW s0, Client(s0), NEW t \in Threads
    PROVE  Ends(s0, WaitTop(s0, t), t)
<1> DEFINE s == Lower(s0, t, "sending")
           u == Unregister(s, t)
           p == PassOn(s, t)
<1>1. Steps(s0, s) /\ Client(s) /\ t \in Ops  BY LowerSteps DEF Steps, Ops
<1> HIDE DEF s
<1>2. Client(u) /\ Steps(s, u) /\ Client(p) /\ Steps(s, p)  BY <1>1, UnregisterSteps, PassOnSteps DEF Steps
<1> HIDE DEF u, p
<1>3. Ends(s, Return(s, t, "ok"), t) /\ Ends(s, Return(s, t, "intr"), t)  BY Zenon, <1>1, ReturnEnds
<1>4. Ends(s, Return(u, t, "err"), t)  BY Zenon, <1>2, ReturnEnds, StepsEnds
<1>5. Ends(s, Abandon(p, t), t)  BY Zenon, <1>2, AbandonEnds, StepsEnds
<1>6a. Ends(p, Drop(p, t, "wait", "stop"), t)  BY Zenon, <1>2, DropEnds
<1>6. Ends(s, Drop(p, t, "wait", "stop"), t)  BY Zenon, <1>2, <1>6a, StepsEnds
<1>7. Ends(s, Elect(s, t), t)  BY Zenon, <1>1, ElectEnds
<1>8. Ends(s, WaitTop(s0, t), t)  BY Zenon, <1>3, <1>4, <1>5, <1>6, <1>7 DEF WaitTop, s, u, p
<1> QED BY Zenon, <1>1, <1>8, StepsEnds

\* The request or its Tflush is on the ring.
LEMMA SentEnds ==
    ASSUME NEW s, Client(s), NEW t \in Threads
    PROVE  Ends(s, Sent(s, t), t)
<1>1. Ends(s, WaitTop(s, t), t) /\ Ends(s, Return(s, t, "ok"), t)  BY Zenon, WaitTopEnds, ReturnEnds
<1>2. "flushing" \in Flags  BY Zenon DEF Flags
<1>3. Steps(s, Raise(s, t, "flushing")) /\ Client(Raise(s, t, "flushing"))  BY Zenon, <1>2, RaiseSteps DEF Steps
<1>4. Ends(s, WaitTop(Raise(s, t, "flushing"), t), t)  BY Zenon, <1>3, WaitTopEnds, StepsEnds
<1> QED BY Zenon, <1>1, <1>4 DEF Sent

\* It is not sent at all.
LEMMA SendNeverEnds ==
    ASSUME NEW s, Client(s), NEW t \in Threads
    PROVE  Ends(s, SendNever(s, t), t)
<1> DEFINE r == FlushRetract(s, s.tag[t])
           g == Signal(r)
<1>1. s.tag[t] \in Tags  BY Zenon DEF Client, Typed, Ops
<1>2. Steps(s, r) /\ Client(r)  BY Zenon, <1>1, FlushRetractSteps DEF Steps
<1> HIDE DEF r
<1>3. Steps(s, g) /\ Client(g)  BY <1>2, SignalSteps, StepsTrans DEF Steps
<1> HIDE DEF g
<1>4. Ends(s, WaitTop(g, t), t)  BY Zenon, <1>3, WaitTopEnds, StepsEnds
<1>5. Ends(s, WaitTop(s, t), t) /\ Ends(s, TakeBack(s, t), t)  BY Zenon, WaitTopEnds, TakeBackEnds
<1> QED BY Zenon, <1>4, <1>5 DEF SendNever, g, r

\* The transport is broken.
LEMMA SendBrokenEnds ==
    ASSUME NEW s, Client(s), NEW t \in Threads
    PROVE  Ends(s, SendBroken(s, t), t)
<1> DEFINE m == MarkDead(s)
           u == Unregister(s, t)
           n == MarkDead(u)
<1>1. Steps(s, m) /\ Client(m)  BY Zenon, MarkDeadSteps DEF Steps
<1>2. Steps(s, u) /\ Client(u)  BY Zenon, UnregisterSteps DEF Steps, Ops
<1> HIDE DEF m, u
<1>3. Steps(s, n) /\ Client(n)  BY <1>2, MarkDeadSteps, StepsTrans DEF Steps
<1> HIDE DEF n
<1>4. Ends(s, WaitTop(m, t), t)  BY Zenon, <1>1, WaitTopEnds, StepsEnds
<1>5. Ends(s, Return(n, t, "err"), t)  BY Zenon, <1>3, ReturnEnds, StepsEnds
<1> QED BY Zenon, <1>4, <1>5 DEF SendBroken, m, n, u

\* A frame a caller has to send is a request.
LEMMA FrameIn ==
    ASSUME NEW s, Client(s), NEW t \in Threads, FrameOf(s, t) # None
    PROVE  FrameOf(s, t) \in Request
BY ZenonT(40) DEF Client, Typed, FrameOf

\* A step that leaves the client's table alone and may change t's loop and spilled frame.
LEMMA OwnIf ==
    ASSUME NEW s, Client(s), NEW t \in Threads, NEW d, DOMAIN d = Fields, d.tags = s.tags, d.c2s \in Seq(Request),
           Len(d.c2s) <= RingCap, d.spill \in [Threads -> Request \cup {None}],
           d.loop \in [Threads -> {"wait", "drain", "stage", "send", "fsend"}],
           \A u \in Threads \ {t} : d.loop[u] = s.loop[u] /\ d.spill[u] = s.spill[u],
           d.flags \in [Threads -> SUBSET Flags], d.dead = s.dead, d.out = s.out,
           d.tag = s.tag, d.kindOf = s.kindOf, d.reader = s.reader, d.parked = s.parked, 
           d.at = s.at, d.why = s.why, d.ret = s.ret, d.async = s.async, d.pump = s.pump,
           d.posted = s.posted
    PROVE  Own(s, d, t)
<1>1. Typed(d)  BY ZenonT(40) DEF Client, Typed
<1>2. Tabled(d)  BY DEF Client, Tabled
<1> QED BY Zenon, <1>1, <1>2 DEF Own, Client, Posts

\* The frame is copied out of out_buf, and is then there to send.
LEMMA SpillOwn ==
    ASSUME NEW s, Client(s), NEW t \in Threads, FrameOf(s, t) # None
    PROVE  /\ Own(s, Spill(s, t), t) /\ Spill(s, t).spill[t] # None
           /\ Spill(s, t).reader = s.reader /\ Spill(s, t).loop = s.loop
<1>1. CASE s.spill[t] = None
  <2> DEFINE d == [s EXCEPT !.spill[t] = s.out]
  <2>1. s.out # None /\ s.out \in Request  BY Zenon, <1>1, FrameIn DEF FrameOf
  <2>2. /\ DOMAIN d = Fields /\ d.spill = [s.spill EXCEPT ![t] = s.out] /\ d.loop = s.loop /\ d.tags = s.tags
        /\ d.c2s = s.c2s /\ d.flags = s.flags /\ d.dead = s.dead /\ d.out = s.out /\ d.tag = s.tag
        /\ d.kindOf = s.kindOf /\ d.reader = s.reader /\ d.parked = s.parked /\ d.at = s.at /\ d.why = s.why
        /\ d.ret = s.ret /\ d.async = s.async /\ d.pump = s.pump /\ d.posted = s.posted
    BY Zenon DEF Client, Typed, Fields
  <2> HIDE DEF d
  <2>3. /\ d.spill \in [Threads -> Request \cup {None}] /\ d.spill[t] # None
        /\ \A u \in Threads \ {t} : d.loop[u] = s.loop[u] /\ d.spill[u] = s.spill[u]
    BY <2>1, <2>2 DEF Client, Typed
  <2>4. Own(s, d, t)  BY Zenon, <2>2, <2>3, OwnIf DEF Client, Typed
  <2> QED BY Zenon, <1>1, <2>2, <2>3, <2>4 DEF Spill, d
<1>2. CASE s.spill[t] # None
  BY Zenon, <1>2 DEF Spill, Own, Posts
<1> QED BY Zenon, <1>1, <1>2

\* client_send_flow, from the top of its loop.
LEMMA SendTopEnds ==
    ASSUME NEW s, Client(s), NEW t \in Threads, s.loop[t] \in {"send", "fsend"}, FrameOf(s, t) # None
    PROVE  Ends(s, SendTop(s, t), t)
<1> DEFINE p == Spill(s, t)
           d == [s EXCEPT !.c2s = Append(@, FrameOf(s, t)), !.spill[t] = None]
<1>1. Ends(s, SendNever(s, t), t) /\ Ends(s, SendBroken(s, t), t)  BY Zenon, SendNeverEnds, SendBrokenEnds
<1>2. Own(s, p, t) /\ Client(p) /\ p.spill[t] # None /\ p.loop = s.loop /\ p.reader = s.reader
  BY SpillOwn DEF Own
<1> HIDE DEF p
<1>3a. Ends(p, Drop(p, t, s.loop[t], "stop"), t) /\ Ends(p, PumpOrPark(p, t, s.loop[t]), t)
  BY Zenon, <1>2, DropEnds, PumpOrParkEnds
<1>3. Ends(s, Drop(p, t, s.loop[t], "stop"), t) /\ Ends(s, PumpOrPark(p, t, s.loop[t]), t)
  BY Zenon, <1>2, <1>3a, OwnEnds
<1>4. ASSUME Len(s.c2s) < RingCap PROVE Ends(s, Sent(d, t), t)
  <2>1. /\ DOMAIN d = Fields /\ d.spill = [s.spill EXCEPT ![t] = None] /\ d.loop = s.loop /\ d.tags = s.tags
        /\ d.c2s = Append(s.c2s, FrameOf(s, t)) /\ d.flags = s.flags /\ d.dead = s.dead /\ d.out = s.out
        /\ d.tag = s.tag
        /\ d.kindOf = s.kindOf /\ d.reader = s.reader /\ d.parked = s.parked /\ d.at = s.at /\ d.why = s.why
        /\ d.ret = s.ret /\ d.async = s.async /\ d.pump = s.pump /\ d.posted = s.posted
    BY Zenon DEF Client, Typed, Fields
  <2> HIDE DEF d
  <2>2. s.c2s \in Seq(Request) /\ Len(s.c2s) \in Nat /\ RingCap \in Nat /\ FrameOf(s, t) \in Request
    BY FrameIn, ConstantsAssumption DEF Client, Typed
  <2>3. d.c2s \in Seq(Request) /\ Len(d.c2s) = Len(s.c2s) + 1
    BY <2>1, <2>2
  <2>4. Len(d.c2s) <= RingCap  BY <1>4, <2>2, <2>3
  <2>5. d.spill \in [Threads -> Request \cup {None}] /\ \A u \in Threads \ {t} : d.spill[u] = s.spill[u]
    BY <2>1 DEF Client, Typed
  <2>6. Own(s, d, t)  BY Zenon, <2>1, <2>3, <2>4, <2>5, OwnIf DEF Client, Typed
  <2>7. Ends(d, Sent(d, t), t)  BY Zenon, <2>6, SentEnds DEF Own
  <2> QED BY Zenon, <2>6, <2>7, OwnEnds
<1> QED BY Zenon, <1>1, <1>3, <1>4 DEF SendTop, p

\* client_flush_wait.
LEMMA StageTopEnds ==
    ASSUME NEW s0, Client(s0), NEW t \in Threads
    PROVE  Ends(s0, StageTop(s0, t), t)
<1> DEFINE s == [s0 EXCEPT !.flags[t] = @ \cup {"noted", "sending"}]
           g == s.tag[t]
           u == Unregister(s, t)
           f == StageFlush(s, g)
           w == [f EXCEPT !.tags[g].waits = TRUE]
           x == [w EXCEPT !.loop[t] = "fsend"]
           y == [f EXCEPT !.tags[g].waits = TRUE, !.loop[t] = "fsend"]
<1>1. Steps(s0, s) /\ Client(s)
  <2>1. s.tags = s0.tags  BY Zenon DEF Client, Typed, Fields
  <2>2. Edited(s0, s)  BY Zenon, <2>1, SameTags
  <2>3. s.flags \in [Threads -> SUBSET Flags]  BY ZenonT(40) DEF Client, Typed, Fields, Flags
  <2>4. Steps(s0, s)  BY Zenon, <2>2, <2>3, StepsIf DEF Client, Typed, Fields
  <2> QED BY Zenon, <2>4 DEF Steps
<1> HIDE DEF s
<1>2. g \in Tags /\ t \in Ops  BY Zenon, <1>1 DEF Client, Typed, Ops
<1>3. Steps(s, u) /\ Client(u)  BY Zenon, <1>1, <1>2, UnregisterSteps DEF Steps
<1> HIDE DEF u, g
<1>4. Ends(s, Return(s, t, "ok"), t) /\ Ends(s, Return(u, t, "err"), t) /\ Ends(s, Abandon(s, t), t)
  BY Zenon, <1>1, <1>3, ReturnEnds, AbandonEnds, StepsEnds
<1>5. Ends(s, Drop(s, t, "stage", "stop"), t) /\ Ends(s, PumpOrPark(s, t, "stage"), t)
  BY Zenon, <1>1, DropEnds, PumpOrParkEnds
<1>6. ASSUME HasFlushTag(s) PROVE Ends(s, SendTop(y, t), t)
  <2>1. Steps(s, f) /\ Client(f) /\ f.out \in Request  BY Zenon, <1>1, <1>2, <1>6, StageFlushSteps DEF Steps
  <2> HIDE DEF f
  <2>2a. Steps(f, w)  BY Zenon, <1>2, <2>1, SetSteps
  <2>3. w.out = f.out  BY Zenon, <2>1 DEF Client, Typed, Fields
  <2>4. y = x
    BY Zenon, <2>1, <1>2 DEF Client, Typed, Fields
  <2> HIDE DEF w, y
  <2>2. Steps(s, w) /\ Client(w)  BY Zenon, <2>1, <2>2a, StepsTrans DEF Steps
  <2>5. /\ DOMAIN x = Fields /\ x.spill = w.spill /\ x.loop = [w.loop EXCEPT ![t] = "fsend"] /\ x.tags = w.tags
        /\ x.c2s = w.c2s /\ x.flags = w.flags /\ x.dead = w.dead /\ x.out = w.out /\ x.tag = w.tag
        /\ x.kindOf = w.kindOf /\ x.reader = w.reader /\ x.parked = w.parked /\ x.at = w.at /\ x.why = w.why
        /\ x.ret = w.ret /\ x.async = w.async /\ x.pump = w.pump /\ x.posted = w.posted
    BY ZenonT(40), <2>2 DEF Client, Typed, Fields
  <2> HIDE DEF x
  <2>5a. /\ x.loop \in [Threads -> {"wait", "drain", "stage", "send", "fsend"}]
         /\ \A v \in Threads \ {t} : x.loop[v] = w.loop[v] /\ x.spill[v] = w.spill[v]
    BY <2>2, <2>5 DEF Client, Typed
  <2>6. Own(w, x, t)  BY Zenon, <2>2, <2>5, <2>5a, OwnIf DEF Client, Typed
  <2>7. FrameOf(x, t) # None
    BY ZenonT(40), <2>1, <2>3, <2>5, ConstantsAssumption DEF FrameOf, Request, WireKinds
  <2>8. Client(x) /\ x.loop[t] = "fsend"  BY <2>2, <2>5, <2>6 DEF Own, Client, Typed
  <2>9. Ends(x, SendTop(x, t), t)  BY Zenon, <2>7, <2>8, SendTopEnds
  <2>10. Own(s, x, t)  BY Zenon, <2>2, <2>6, StepsOwn
  <2> QED BY Zenon, <2>4, <2>9, <2>10, OwnEnds
<1> HIDE DEF y
<1>7. Ends(s, StageTop(s0, t), t)
  BY Zenon, <1>4, <1>5, <1>6 DEF StageTop, s, u, y, f, g
<1> QED BY Zenon, <1>1, <1>7, StepsEnds

\* A caught note ended the wait.
LEMMA NoteIntrEnds ==
    ASSUME NEW s, Client(s), NEW t \in Threads
    PROVE  Ends(s, NoteIntr(s, t), t)
BY Zenon, AbandonEnds, StageTopEnds DEF NoteIntr

\* No request was built.
LEMMA RefuseEnds ==
    ASSUME NEW s, Client(s), NEW t \in Threads
    PROVE  Ends(s, Refuse(s, t), t)
<1> DEFINE w == [s EXCEPT !.closer = s.closer \cup {FidOf[t]}]
<1>1. Steps(s, w) /\ Client(w)  BY Zenon, CloserSteps DEF Steps
<1> HIDE DEF w
<1>2. Ends(s, Return(w, t, "again"), t)  BY Zenon, <1>1, ReturnEnds, StepsEnds
<1>3. Ends(s, Return(s, t, "err"), t)  BY Zenon, ReturnEnds
<1> QED BY Zenon, <1>2, <1>3 DEF Refuse, w

\* A tag is taken for a request of t, which is registered under it.
LEMMA BuildSteps ==
    ASSUME NEW s, Client(s), NEW t \in Threads, HasFlushTag(s), KindOf[t] \in Kinds \ {"none"}
    PROVE  Steps(s, Build(s, t)) /\ Build(s, t).out \in Request
<1> DEFINE d == Build(s, t)
           g == NewTag(s)
           e == [Free EXCEPT !.kind = WireKind(t), !.op = t, !.slot = WireKind(t) # "read", !.owned = KindOf[t] # "aclunk"]
           r == [kind |-> WireKind(t), tag |-> g, op |-> t, old |-> None]
<1>1. g \in Tags /\ t \in Ops /\ t \notin Asyncs /\ WireKind(t) \in {"walk", "read", "clunk"}
  BY Zenon, NewTagIn, ConstantsAssumption DEF Ops, Kinds, WireKind
<1>2. e \in Entry /\ e.kind = WireKind(t) /\ e.op = t
  BY Zenon, <1>1 DEF Free, Entry, WireKinds
<1>3. r \in Request  BY Zenon, <1>1 DEF Request, WireKinds
<1>4. /\ DOMAIN d = Fields /\ d.tags = [s.tags EXCEPT ![g] = e] /\ d.tag = [s.tag EXCEPT ![t] = g] /\ d.out = r
      /\ d.flags = s.flags /\ d.dead = s.dead /\ d.c2s = s.c2s /\ d.kindOf = s.kindOf /\ d.reader = s.reader
      /\ d.parked = s.parked /\ d.spill = s.spill /\ d.at = s.at /\ d.loop = s.loop /\ d.why = s.why
      /\ d.ret = s.ret /\ d.async = s.async /\ d.pump = s.pump /\ d.posted = s.posted
  BY ZenonT(40) DEF Client, Typed, Fields, Build
<1> HIDE DEF d, e, r, g
<1>5. Typed(d)
  <2>0. s.tags \in [Tags -> Entry] /\ s.tag \in [Ops -> Tags]  BY Zenon DEF Client, Typed
  <2>1. d.tags \in [Tags -> Entry] /\ d.tag \in [Ops -> Tags]  BY ZenonT(40), <1>1, <1>2, <1>4, <2>0
  <2> QED BY Zenon, <1>3, <1>4, <2>1 DEF Client, Typed
<1>6. Tabled(d)  BY <1>1, <1>2, <1>4 DEF Client, Typed, Tabled
<1>7. Steps(s, d) /\ d.out \in Request  BY Zenon, <1>3, <1>4, <1>5, <1>6 DEF Client, Steps, Posts
<1> QED BY Zenon, <1>7 DEF d

\* The build, the registration and the first attempt to send.
LEMMA SubmitEnds ==
    ASSUME NEW s, Client(s), NEW t \in Threads, HasFlushTag(s), KindOf[t] \in Kinds \ {"none"}
    PROVE  Ends(s, Submit(s, t), t)
<1> DEFINE b == Build(s, t)
           x == [b EXCEPT !.flags[t] = {"sending"}, !.loop[t] = "send"]
<1>1. Steps(s, b) /\ Client(b) /\ b.out \in Request  BY Zenon, BuildSteps DEF Steps
<1> HIDE DEF b
<1>2. /\ DOMAIN x = Fields /\ x.spill = b.spill /\ x.loop = [b.loop EXCEPT ![t] = "send"] /\ x.tags = b.tags
      /\ x.c2s = b.c2s /\ x.flags = [b.flags EXCEPT ![t] = {"sending"}] /\ x.dead = b.dead /\ x.out = b.out
      /\ x.tag = b.tag /\ x.kindOf = b.kindOf /\ x.reader = b.reader /\ x.parked = b.parked /\ x.at = b.at
      /\ x.why = b.why /\ x.ret = b.ret /\ x.async = b.async /\ x.pump = b.pump /\ x.posted = b.posted
  BY Zenon, <1>1 DEF Client, Typed, Fields
<1> HIDE DEF x
<1>3. /\ x.loop \in [Threads -> {"wait", "drain", "stage", "send", "fsend"}] /\ x.loop[t] = "send"
      /\ x.flags \in [Threads -> SUBSET Flags]
      /\ \A v \in Threads \ {t} : x.loop[v] = b.loop[v] /\ x.spill[v] = b.spill[v]
  BY <1>1, <1>2 DEF Client, Typed, Flags
<1>4. Own(b, x, t)  BY Zenon, <1>1, <1>2, <1>3, OwnIf DEF Client, Typed
<1>5. FrameOf(x, t) # None
  BY Zenon, <1>1, <1>2, ConstantsAssumption DEF FrameOf, Request, WireKinds
<1>6. Ends(x, SendTop(x, t), t)  BY Zenon, <1>3, <1>4, <1>5, SendTopEnds DEF Own
<1>7. Own(s, x, t)  BY Zenon, <1>1, <1>4, StepsOwn
<1>8. Ends(s, SendTop(x, t), t)  BY Zenon, <1>6, <1>7, OwnEnds
<1>9. Ends(s, Return(s, t, "err"), t)  BY Zenon, ReturnEnds
<1> QED BY Zenon, <1>8, <1>9 DEF Submit, x, b

\* client_drain_until_free_tag.
LEMMA DrainTopEnds ==
    ASSUME NEW s, Client(s), NEW t \in Threads, KindOf[t] \in Kinds \ {"none"}
    PROVE  Ends(s, DrainTop(s, t), t)
<1>1. Ends(s, Return(s, t, "err"), t) /\ Ends(s, Refuse(s, t), t)  BY Zenon, ReturnEnds, RefuseEnds
<1>2. HasFreeTag(s) => Ends(s, Submit(s, t), t)  BY Zenon, SubmitEnds DEF HasFreeTag
<1>3. Ends(s, Drop(s, t, "drain", "stop"), t) /\ Ends(s, PumpOrPark(s, t, "drain"), t)
  BY Zenon, DropEnds, PumpOrParkEnds
<1> QED BY Zenon, <1>1, <1>2, <1>3 DEF DrainTop

\* The loop a thread goes back to.
LEMMA LoopTopEnds ==
    ASSUME NEW s, Client(s), NEW t \in Threads, KindOf[t] \in Kinds \ {"none"},
           s.loop[t] \in {"send", "fsend"} => s.spill[t] # None
    PROVE  Ends(s, LoopTop(s, t), t)
<1>1. Ends(s, DrainTop(s, t), t) /\ Ends(s, StageTop(s, t), t) /\ Ends(s, WaitTop(s, t), t)
  BY Zenon, DrainTopEnds, StageTopEnds, WaitTopEnds
<1>2. s.loop[t] \in {"send", "fsend"} => Ends(s, SendTop(s, t), t)  BY Zenon, SendTopEnds DEF FrameOf
<1> QED BY Zenon, <1>1, <1>2 DEF LoopTop

\* A sleeper has the lock again.
LEMMA SleeperBackEnds ==
    ASSUME NEW s, Client(s), NEW t \in Threads
    PROVE  Ends(s, SleeperBack(s, t), t)
<1> DEFINE p == PassOn(s, t)
<1>1. Steps(s, p) /\ Client(p)  BY Zenon, PassOnSteps DEF Steps
<1> HIDE DEF p
<1>2. Ends(s, NoteIntr(p, t), t)  BY Zenon, <1>1, NoteIntrEnds, StepsEnds
<1>3. Ends(s, WaitTop(s, t), t)  BY Zenon, WaitTopEnds
<1> QED BY Zenon, <1>2, <1>3 DEF SleeperBack, p

\* The reader gives the role up.
LEMMA DepartLeft ==
    ASSUME NEW s, Client(s), NEW me
    PROVE  Left(s, Depart(s, me))
<1> DEFINE r == [s EXCEPT !.reader = FALSE]
           g == Signal(r)
           d == Handoff(g, me)
<1>1. /\ DOMAIN r = Fields /\ r.tags = s.tags /\ r.tag = s.tag /\ r.out = s.out
      /\ r.flags = s.flags /\ r.dead = s.dead /\ r.c2s = s.c2s /\ r.kindOf = s.kindOf /\ r.reader = FALSE
      /\ r.parked = s.parked /\ r.spill = s.spill /\ r.at = s.at /\ r.loop = s.loop /\ r.why = s.why
      /\ r.ret = s.ret /\ r.async = s.async /\ r.pump = s.pump /\ r.posted = s.posted
  BY Zenon DEF Client, Typed, Fields
<1> HIDE DEF r
<1>2. Client(r)
  <2>1. Typed(r)  BY ZenonT(40), <1>1 DEF Client, Typed
  <2>2. Tabled(r)  BY <1>1 DEF Client, Tabled
  <2> QED BY Zenon, <2>1, <2>2 DEF Client
<1>3. Steps(r, g) /\ Client(g)  BY Zenon, <1>2, SignalSteps DEF Steps
<1> HIDE DEF g
<1>4. Steps(g, d)  BY Zenon, <1>3, HandoffSteps
<1>5. Steps(r, d)  BY Zenon, <1>3, <1>4, StepsTrans
<1> HIDE DEF d
<1>6. Left(s, d)  BY Zenon, <1>1, <1>5 DEF Left, Steps, Posts
<1> QED BY Zenon, <1>6 DEF Depart, d, g, r

\* A step under the lock before the role is given up.
LEMMA StepsLeft ==
    ASSUME NEW s, NEW u, NEW d, Steps(s, u), Left(u, d)
    PROVE  Left(s, d)
BY Zenon DEF Steps, Left, Posts

\* Once it is given up, the caller goes on as one that did not read.
LEMMA LeftYields ==
    ASSUME NEW s, NEW u, NEW d, NEW t \in Threads, Left(s, u), Ends(u, d, t)
    PROVE  Yields(s, d, t)
<1>1. d.reader \in BOOLEAN  BY Zenon DEF Ends, Settles, Client, Typed
<1>2. Settles(s, d, t)  BY DEF Left, Ends, Settles, Posts
<1> QED BY Zenon, <1>1, <1>2 DEF Left, Ends, Yields

\* A step under the lock before the reader settles.
LEMMA StepsYields ==
    ASSUME NEW s, NEW u, NEW d, NEW t \in Threads, Steps(s, u), Yields(u, d, t)
    PROVE  Yields(s, d, t)
BY DEF Steps, Yields, Settles, Posts

\* The elected reader is back from its recv.
LEMMA ReaderBackYields ==
    ASSUME NEW s, Client(s), NEW t \in Threads, s.why[t] = "frame" => rx \in Answer
    PROVE  Yields(s, ReaderBack(s, t), t)
<1> DEFINE x == Demux(s, rx)
           d == Signal(x)
           m == MarkDead(s)
           l == Depart(s, t)
           u == Unregister(l, t)
<1>1. ASSUME NEW y, Client(y), Steps(s, y) PROVE Yields(s, WaitTop(Depart(y, t), t), t)
  <2> DEFINE z == Depart(y, t)
  <2>1. Left(y, z) /\ Client(z)  BY Zenon, <1>1, DepartLeft DEF Left
  <2> HIDE DEF z
  <2>2. Yields(y, WaitTop(z, t), t)  BY Zenon, <2>1, WaitTopEnds, LeftYields
  <2>3. Yields(s, WaitTop(z, t), t)  BY Zenon, <1>1, <2>2, StepsYields
  <2> QED BY Zenon, <2>3 DEF z
<1>2. ASSUME s.why[t] = "frame"
      PROVE  Yields(s, WaitTop(Depart(d, t), t), t) /\ Yields(s, Drop(d, t, "wait", "recv"), t)
  <2>1. Steps(s, x) /\ Client(x)  BY Zenon, <1>2, DemuxSteps DEF Steps
  <2> HIDE DEF x
  <2>2. Steps(s, d) /\ Client(d)  BY ZenonT(40), <2>1, SignalSteps, StepsTrans DEF Steps
  <2> HIDE DEF d
  <2>3a. LET r == Drop(d, t, "wait", "recv") IN Settles(d, r, t) /\ r.at[t] = "recv" /\ r.reader
    BY <2>2, DropSettles
  <2>3. Yields(d, Drop(d, t, "wait", "recv"), t)  BY Zenon, <2>3a DEF Yields
  <2>4. Yields(s, Drop(d, t, "wait", "recv"), t)  BY Zenon, <2>2, <2>3, StepsYields
  <2> QED BY Zenon, <1>1, <2>2, <2>4
<1>3. Left(s, l) /\ Client(l)  BY Zenon, DepartLeft DEF Left
<1>4. Steps(s, m) /\ Client(m)  BY Zenon, MarkDeadSteps DEF Steps
<1>5. Steps(s, s)  BY Zenon, StepsRefl
<1> HIDE DEF l, m, d, x
<1>6. Yields(s, WaitTop(Depart(m, t), t), t)  BY Zenon, <1>1, <1>4
<1>7. Yields(s, WaitTop(l, t), t)  BY Zenon, <1>3, WaitTopEnds, LeftYields
<1>8a. Ends(l, Drop(l, t, "wait", "stop"), t)  BY Zenon, <1>3, DropEnds
<1>8. Yields(s, Drop(l, t, "wait", "stop"), t)  BY ZenonT(40), <1>3, <1>8a, LeftYields
<1>9. Yields(s, NoteIntr(l, t), t)  BY Zenon, <1>3, NoteIntrEnds, LeftYields
<1>10. Yields(s, Return(u, t, "err"), t)
  <2>1. Steps(l, u) /\ Client(u)  BY Zenon, <1>3, UnregisterSteps DEF Steps, Ops
  <2> HIDE DEF u
  <2>2. Ends(l, Return(u, t, "err"), t)  BY Zenon, <2>1, ReturnEnds, StepsEnds
  <2> QED BY Zenon, <1>3, <2>2, LeftYields
<1> HIDE DEF u
<1> QED BY Zenon, <1>2, <1>6, <1>7, <1>8, <1>9, <1>10 DEF ReaderBack, x, d, m, l, u

\* A sender or a tag drain is back from the one frame it reads.
LEMMA PumpBackYields ==
    ASSUME NEW s, Client(s), NEW t \in Threads, s.why[t] = "frame" => rx \in Answer,
           KindOf[t] \in Kinds \ {"none"}, s.loop[t] \in {"send", "fsend"} => s.spill[t] # None
    PROVE  Yields(s, PumpBack(s, t), t)
<1> DEFINE y == CASE s.why[t] = "frame" -> Demux(s, rx)
                  [] s.why[t] # "frame" /\ (Dying(t) \/ StopUnwound(s, t)) -> s
                  [] OTHER -> MarkDead(s)
           z == Depart(y, t)
<1>1. s.why[t] = "frame" => Steps(s, Demux(s, rx))  BY Zenon, DemuxSteps
<1>2. Steps(s, s) /\ Steps(s, MarkDead(s))  BY Zenon, StepsRefl, MarkDeadSteps
<1>3. Steps(s, y)  BY Zenon, <1>1, <1>2
<1> HIDE DEF y
<1>4. Left(y, z)  BY Zenon, <1>3, DepartLeft DEF Steps
<1> HIDE DEF z
<1>5. Left(s, z) /\ Client(z)  BY <1>3, <1>4, StepsLeft DEF Left
<1>6. Ends(z, LoopTop(z, t), t)  BY Zenon, <1>5, LoopTopEnds DEF Left
<1>7. Yields(s, LoopTop(z, t), t)  BY Zenon, <1>5, <1>6, LeftYields
<1> QED BY Zenon, <1>7 DEF PumpBack, z, y

=============================================================================
