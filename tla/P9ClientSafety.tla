--------------------------- MODULE P9ClientSafety ---------------------------
(***************************************************************************)
(* The steps of the client, of the pumper and of the server keep the       *)
(* invariant of P9ClientProofs.  From it follow the two promises: the      *)
(* stream has one reader at a time, and an asynchronous operation          *)
(* completes once and never after it was abandoned.                        *)
(***************************************************************************)
EXTENDS P9ClientProofs, FiniteSetTheorems

\* The steps of the specification.  A thread that did not read drops the lock.
LEMMA EndsInv ==
    ASSUME ClientInv, NEW t \in Threads, ~Reading(t), Ends(c, c', t), c.kindOf[t] # "none",
           rx' = rx, UNCHANGED <<s2c, pend>>
    PROVE  ClientInv' /\ Done(c, c')
<1>1. Client(c') /\ Done(c, c')  BY Zenon DEF Ends, Settles, Posts, Done
<1>2. \A u \in Threads \ {t} : Reading(u)' <=> Reading(u)  BY Zenon DEF Ends, Settles, Reading
<1>3. Reading(t)' <=> c'.at[t] = "recv"  BY Zenon DEF Ends, Settles, Reading
<1>4. RoleInv'
  <2>1. CASE c'.at[t] = "recv"
    <3>1. ~c.reader /\ c'.reader /\ c'.pump = c.pump  BY Zenon, <2>1 DEF Ends, Settles
    <3>2. c.pump # "pumping" /\ \A u \in Threads : ~Reading(u)  BY Zenon, <3>1 DEF ClientInv, RoleInv
    <3> QED BY Zenon, <1>2, <1>3, <2>1, <3>1, <3>2 DEF RoleInv
  <2>2. CASE c'.at[t] # "recv"
    <3>1. c'.reader = c.reader /\ c'.pump = c.pump  BY Zenon, <2>2 DEF Ends, Settles
    <3> QED BY Zenon, <1>2, <1>3, <2>2, <3>1 DEF ClientInv, RoleInv
  <2> QED BY Zenon, <2>1, <2>2
<1>5. RestInv'  BY DEF ClientInv, RestInv, Ends, Settles
<1>6. WireInv'  BY Zenon DEF ClientInv, WireInv
<1> QED BY Zenon, <1>1, <1>4, <1>5, <1>6 DEF ClientInv

\* The reader does.
LEMMA YieldsInv ==
    ASSUME ClientInv, NEW t \in Threads, Reading(t), Yields(c, c', t), c.kindOf[t] # "none",
           rx' \in {rx, None}, UNCHANGED <<s2c, pend>>
    PROVE  ClientInv' /\ Done(c, c')
<1>1. Client(c') /\ Done(c, c')  BY Zenon DEF Yields, Settles, Posts, Done
<1>2. \A u \in Threads \ {t} : ~Reading(u)  BY Zenon DEF ClientInv, RoleInv
<1>3. \A u \in Threads \ {t} : ~Reading(u)'  BY Zenon, <1>2 DEF Yields, Settles, Reading
<1>4. Reading(t)' <=> c'.at[t] = "recv"  BY Zenon DEF Yields, Settles, Reading
<1>5. c'.pump # "pumping" /\ (c'.reader <=> c'.at[t] = "recv")  BY Zenon DEF Yields, Settles, ClientInv, RoleInv
<1>6. RoleInv'  BY Zenon, <1>3, <1>4, <1>5 DEF RoleInv
<1>7. RestInv'
  <2>1. \A u \in Threads \ {t} : ~(c'.at[u] = "up" /\ c'.why[u] = "frame")  BY Zenon, <1>3 DEF Reading
  <2> QED BY <2>1 DEF ClientInv, RestInv, Yields, Settles
<1>8. WireInv'  BY Zenon DEF ClientInv, WireInv
<1> QED BY Zenon, <1>1, <1>6, <1>7, <1>8 DEF ClientInv

\* A step that moves no thread.
LEMMA QuietInv ==
    ASSUME ClientInv, Quiet(c, c'), rx' = rx, WireInv'
    PROVE  ClientInv'
<1>1. \A u \in Threads : Reading(u)' <=> Reading(u)  BY Zenon DEF Quiet, Reading
<1>2. RoleInv'  BY Zenon, <1>1 DEF ClientInv, RoleInv, Quiet
<1>3. RestInv'  BY DEF ClientInv, RestInv, Quiet
<1> QED BY Zenon, <1>2, <1>3 DEF ClientInv, Quiet

\* A state that differs in nothing the table of tags depends on.
LEMMA ClientIf ==
    ASSUME NEW s, Client(s), NEW d, DOMAIN d = Fields, d.tags = s.tags, d.tag = s.tag, d.kindOf = s.kindOf,
           d.flags = s.flags, d.reader \in BOOLEAN, d.dead = s.dead, d.parked = s.parked, d.c2s \in Seq(Request),
           Len(d.c2s) <= RingCap, d.out = s.out, d.spill = s.spill, d.posted = s.posted,
           d.at \in [Threads -> {"user", "recv", "sleep", "park", "stop", "up"}], d.loop = s.loop,
           DOMAIN d.why = Threads, d.ret = s.ret, d.async = s.async
    PROVE  Client(d)
<1>1. Typed(d)  BY ZenonT(40) DEF Client, Typed
<1>2. Tabled(d)  BY DEF Client, Tabled
<1> QED BY Zenon, <1>1, <1>2 DEF Client

\* What ClientIf asks of the fields a step leaves alone.
LEMMA ClientTypes ==
    ASSUME NEW s, Client(s)
    PROVE  /\ s.reader \in BOOLEAN /\ s.c2s \in Seq(Request) /\ Len(s.c2s) <= RingCap
           /\ s.at \in [Threads -> {"user", "recv", "sleep", "park", "stop", "up"}] /\ DOMAIN s.why = Threads
BY Zenon DEF Client, Typed

\* A thread is about to take the lock again.
LEMMA UpInv ==
    ASSUME ClientInv, NEW t \in Threads, 
           NEW w \in {"woken", "noteintr", "frame", "eof", "death", "stop", "note"}, Up(t, w),
           c.at[t] \in {"recv", "sleep", "park", "stop"}, c.at[t] = "recv" <=> w \notin {"woken", "noteintr"},
           w = "frame" => rx # None, rx' = rx, UNCHANGED <<s2c, pend>>
    PROVE  ClientInv' /\ Done(c, c')
<1> DEFINE d == [c EXCEPT !.at[t] = "up", !.why[t] = w]
<1>0. c' = d  BY Zenon DEF Up
<1>1. /\ DOMAIN d = Fields /\ d.tags = c.tags /\ d.tag = c.tag /\ d.kindOf = c.kindOf /\ d.flags = c.flags
      /\ d.reader = c.reader /\ d.dead = c.dead /\ d.parked = c.parked /\ d.c2s = c.c2s /\ d.out = c.out
      /\ d.spill = c.spill /\ d.posted = c.posted /\ d.at = [c.at EXCEPT ![t] = "up"] /\ d.loop = c.loop
      /\ d.why = [c.why EXCEPT ![t] = w] /\ d.ret = c.ret /\ d.async = c.async /\ d.pump = c.pump
  BY Zenon DEF ClientInv, Client, Typed, Fields
<1> HIDE DEF d
<1>2. DOMAIN d.why = Threads /\ d.at \in [Threads -> {"user", "recv", "sleep", "park", "stop", "up"}]
  BY <1>1 DEF ClientInv, Client, Typed
<1>3. Client(d)  BY ZenonT(40), <1>1, <1>2, ClientIf DEF ClientInv, Client, Typed
<1>4. /\ d.at[t] = "up" /\ d.why[t] = w
      /\ \A u \in Threads \ {t} : d.at[u] = c.at[u] /\ d.why[u] = c.why[u]
  BY Zenon, <1>1 DEF ClientInv, Client, Typed
<1>5. \A u \in Threads : Reading(u)' <=> Reading(u)  BY Zenon, <1>0, <1>4 DEF Reading
<1>6. RoleInv'  BY Zenon, <1>0, <1>1, <1>5 DEF ClientInv, RoleInv
<1>7. RestInv'  BY <1>0, <1>1, <1>4 DEF ClientInv, RestInv
<1>8. WireInv'  BY Zenon DEF ClientInv, WireInv
<1>9. Done(c, c')  BY Zenon, <1>0, <1>1 DEF Done
<1> QED BY Zenon, <1>0, <1>3, <1>6, <1>7, <1>8, <1>9 DEF ClientInv

\* An operation that takes part has a kind.
LEMMA KindIn ==
    ASSUME ClientInv, NEW o \in Ops, KindOf[o] # "none"
    PROVE  KindOf[o] \in Kinds \ {"none"}
BY Zenon DEF ClientInv, Client, Typed, KindOf

\* A call begins.
LEMMA CallInv ==
    ASSUME ClientInv, NEW t \in Threads, Call(t)
    PROVE  ClientInv' /\ Done(c, c')
<1>1. Client(c) /\ KindOf[t] \in Kinds \ {"none"} /\ ~Reading(t) /\ c.kindOf[t] # "none"
  BY Zenon, KindIn DEF ClientInv, Call, Reading, KindOf, Ops
<1>2. Ends(c, Return(c, t, "err"), t) /\ Ends(c, DrainTop(c, t), t)  BY Zenon, <1>1, ReturnEnds, DrainTopEnds
<1>3. HasFreeTag(c) => Ends(c, Submit(c, t), t)  BY Zenon, <1>1, SubmitEnds DEF HasFreeTag
<1>4. Ends(c, c', t)  BY Zenon, <1>2, <1>3 DEF Call
<1>5. rx' = rx /\ UNCHANGED <<s2c, pend>>  BY Zenon DEF Call, server
<1> QED BY Zenon, <1>1, <1>4, <1>5, EndsInv

\* A thread that was away has the lock again: one that slept or was parked, or the
\* reader.
LEMMA RelockInv ==
    ASSUME ClientInv, NEW t \in Threads, Relock(t)
    PROVE  ClientInv' /\ Done(c, c')
<1> DEFINE s == Lower(c, t, "stop_parked")
<1>1. /\ Client(c) /\ KindOf[t] \in Kinds \ {"none"} /\ c.kindOf[t] # "none"
      /\ c.loop[t] \in {"send", "fsend"} => c.spill[t] # None
      /\ c.why[t] = "frame" => rx \in Answer
      /\ c.why[t] \in {"woken", "noteintr", "frame", "eof", "death", "stop", "note"}
      /\ Reading(t) <=> c.why[t] \notin {"woken", "noteintr"}
  BY Zenon, KindIn DEF ClientInv, RestInv, WireInv, Relock, KindOf, Ops, Reading
<1>2. Steps(c, s)  BY Zenon, <1>1, LowerSteps
<1> HIDE DEF s
<1>3. Client(s) /\ s.why = c.why /\ s.loop = c.loop /\ s.spill = c.spill  BY Zenon, <1>2 DEF Steps
<1>4. rx' \in {rx, None} /\ (c.why[t] # "frame" => rx' = rx) /\ UNCHANGED <<s2c, pend>>
  BY Zenon DEF Relock, server
<1>5. CASE c.why[t] = "woken"
  <2>1. c' = LoopTop(s, t)  BY Zenon, <1>5 DEF Relock, s
  <2>2. Ends(s, LoopTop(s, t), t)  BY Zenon, <1>1, <1>3, LoopTopEnds
  <2>3. Ends(c, c', t)  BY Zenon, <1>2, <2>1, <2>2, StepsEnds
  <2> QED BY Zenon, <1>1, <1>4, <1>5, <2>3, EndsInv
<1>6. CASE c.why[t] = "noteintr"
  <2>1. c' = SleeperBack(s, t)  BY Zenon, <1>6 DEF Relock, s
  <2>2. Ends(c, c', t)  BY Zenon, <1>2, <1>3, <2>1, SleeperBackEnds, StepsEnds
  <2> QED BY Zenon, <1>1, <1>4, <1>6, <2>2, EndsInv
<1>7. CASE c.why[t] \notin {"woken", "noteintr"}
  <2>1. c' = IF c.loop[t] = "wait" THEN ReaderBack(s, t) ELSE PumpBack(s, t)  BY Zenon, <1>7 DEF Relock, s
  <2>2. Yields(s, ReaderBack(s, t), t) /\ Yields(s, PumpBack(s, t), t)
    BY Zenon, <1>1, <1>3, ReaderBackYields, PumpBackYields
  <2>3. Yields(c, c', t)  BY Zenon, <1>2, <2>1, <2>2, StepsYields
  <2> QED BY Zenon, <1>1, <1>4, <1>7, <2>3, YieldsInv
<1> QED BY Zenon, <1>5, <1>6, <1>7

\* Any step of a thread.
LEMMA ThreadInv ==
    ASSUME ClientInv, NEW t \in Threads, ThreadStep(t)
    PROVE  ClientInv' /\ Done(c, c')
<1>1. CASE RecvHeader(t)
  <2>1. s2c \in Seq(Answer) /\ s2c # <<>> /\ Len(s2c) <= ReplyCap /\ ReplyCap \in Nat
    BY Zenon, <1>1, ConstantsAssumption DEF RecvHeader, ClientInv, WireInv
  <2>2. rx' \in Answer /\ s2c' \in Seq(Answer) /\ Len(s2c') <= ReplyCap /\ c' = c /\ rx = None /\ pend' = pend
    BY <1>1, <2>1 DEF RecvHeader
  <2>3. WireInv'  BY Zenon, <2>2 DEF ClientInv, WireInv
  <2>4. RestInv'  BY Zenon, <2>2 DEF ClientInv, RestInv
  <2>5. RoleInv' /\ Client(c') /\ Done(c, c')  BY ZenonT(40), <2>2 DEF ClientInv, RoleInv, Reading, Done
  <2> QED BY Zenon, <2>3, <2>4, <2>5 DEF ClientInv
<1>2. CASE RecvBody(t)  BY Zenon, <1>2, UpInv DEF RecvBody, server
<1>3. CASE RecvEnds(t)
  <2>1. \E w \in {"eof", "death", "stop", "note"} : Up(t, w)  BY Zenon, <1>3 DEF RecvEnds
  <2> QED BY Zenon, <1>3, <2>1, UpInv DEF RecvEnds, server
<1>4. CASE Wakes(t)
  <2>1. c.at[t] \in {"sleep", "park", "stop"}  BY Zenon, <1>4 DEF Wakes, WakeDue
  <2> QED BY Zenon, <1>4, <2>1, UpInv DEF Wakes, server
<1>5. CASE NoteWakes(t)  BY Zenon, <1>5, UpInv DEF NoteWakes, server
<1>6. CASE Relock(t)  BY Zenon, <1>6, RelockInv
<1> QED BY Zenon, <1>1, <1>2, <1>3, <1>4, <1>5, <1>6 DEF ThreadStep

\* Asynchronous operation a is registered under no tag.
LEMMA PostSteps ==
    ASSUME NEW s, Client(s), NEW a \in Asyncs, s.async[a] = "out", s.posted[a] = 0,
           \A g \in Tags : ~(s.tags[g].owned /\ s.tags[g].op = a)
    PROVE  Steps(s, Post(s, a))
<1> DEFINE d == Post(s, a)
<1>1. /\ DOMAIN d = Fields /\ d.tags = s.tags /\ d.tag = s.tag /\ d.out = s.out
      /\ d.flags = s.flags /\ d.dead = s.dead /\ d.c2s = s.c2s /\ d.kindOf = s.kindOf /\ d.reader = s.reader
      /\ d.parked = s.parked /\ d.spill = s.spill /\ d.at = s.at /\ d.loop = s.loop /\ d.why = s.why
      /\ d.ret = s.ret /\ d.async = s.async /\ d.pump = s.pump
      /\ d.posted = [s.posted EXCEPT ![a] = s.posted[a] + 1]
  BY Zenon DEF Client, Typed, Fields, Post
<1> HIDE DEF d
<1>2. d.posted \in [Asyncs -> Nat] /\ d.posted[a] = 1 /\ \A b \in Asyncs \ {a} : d.posted[b] = s.posted[b]
  BY <1>1 DEF Client, Typed
<1>3. Typed(d)  BY ZenonT(40), <1>1, <1>2 DEF Client, Typed
<1>4. Tabled(d)  BY <1>1, <1>2 DEF Client, Tabled
<1>5. Steps(s, d)  BY Zenon, <1>1, <1>2, <1>3, <1>4 DEF Client, Steps, Posts
<1> QED BY Zenon, <1>5 DEF d

\* Where it is registered under no tag it may be taken up, or let go.
LEMMA AsyncQuiet ==
    ASSUME NEW s, Client(s), NEW a \in Asyncs, NEW v \in {"out", "abandoned", "done"},
           \A g \in Tags : ~(s.tags[g].owned /\ s.tags[g].op = a)
    PROVE  LET d == [s EXCEPT !.async[a] = v]
           IN  /\ Quiet(s, d) /\ d.posted = s.posted /\ d.tags = s.tags /\ d.async = [s.async EXCEPT ![a] = v]
<1> DEFINE d == [s EXCEPT !.async[a] = v]
<1>1. /\ DOMAIN d = Fields /\ d.tags = s.tags /\ d.tag = s.tag /\ d.out = s.out
      /\ d.flags = s.flags /\ d.dead = s.dead /\ d.c2s = s.c2s /\ d.kindOf = s.kindOf /\ d.reader = s.reader
      /\ d.parked = s.parked /\ d.spill = s.spill /\ d.at = s.at /\ d.loop = s.loop /\ d.why = s.why
      /\ d.ret = s.ret /\ d.posted = s.posted /\ d.pump = s.pump
      /\ d.async = [s.async EXCEPT ![a] = v]
  BY Zenon DEF Client, Typed, Fields
<1> HIDE DEF d
<1>2. Typed(d)
  <2>1. d.async \in [Asyncs -> {"idle", "out", "abandoned", "done"}]  BY ZenonT(40), <1>1 DEF Client, Typed
  <2> QED BY Zenon, <1>1, <2>1 DEF Client, Typed
<1>3. Tabled(d)
  <2>1. \A b \in Asyncs \ {a} : d.async[b] = s.async[b]  BY Zenon, <1>1 DEF Client, Typed
  <2>2. d.async[a] # "idle"  BY Zenon, <1>1 DEF Client, Typed
  <2>3. \A b \in Asyncs : d.async[b] = "idle" => s.async[b] = "idle"  BY Zenon, <2>1, <2>2
  <2>4. \A g \in Tags : s.tags[g].owned /\ s.tags[g].op \in Asyncs => d.async[s.tags[g].op] = s.async[s.tags[g].op]
    BY Zenon, <2>1
  <2> QED BY <1>1, <2>3, <2>4 DEF Client, Tabled
<1>4. Quiet(s, d)  BY Zenon, <1>1, <1>2, <1>3 DEF Client, Quiet
<1> QED BY Zenon, <1>1, <1>4 DEF d

\* The build for an asynchronous operation registers it.
LEMMA BuildAsync ==
    ASSUME NEW s, Client(s), NEW a \in Asyncs, HasFlushTag(s), KindOf[a] \in Kinds \ {"none"},
           s.async[a] = "out", s.posted[a] = 0, \A g \in Tags : ~(s.tags[g].owned /\ s.tags[g].op = a)
    PROVE  /\ Steps(s, Build(s, a)) /\ Build(s, a).out \in Request
           /\ Build(s, a).posted = s.posted /\ Build(s, a).tag[a] \in Tags
<1> DEFINE d == Build(s, a)
           g == NewTag(s)
           e == [Free EXCEPT !.kind = WireKind(a), !.op = a, !.slot = WireKind(a) # "read", !.owned = KindOf[a] # "aclunk"]
           r == [kind |-> WireKind(a), tag |-> g, op |-> a, old |-> None]
<1>1. g \in Tags /\ a \in Ops /\ WireKind(a) \in {"walk", "read", "clunk"}
  BY Zenon, NewTagIn DEF Ops, Kinds, WireKind
<1>2. e \in Entry /\ e.kind = WireKind(a) /\ e.op = a
  BY Zenon, <1>1 DEF Free, Entry, WireKinds
<1>3. r \in Request  BY Zenon, <1>1 DEF Request, WireKinds
<1>4. /\ DOMAIN d = Fields /\ d.tags = [s.tags EXCEPT ![g] = e] /\ d.tag = [s.tag EXCEPT ![a] = g] /\ d.out = r
      /\ d.flags = s.flags /\ d.dead = s.dead /\ d.c2s = s.c2s /\ d.kindOf = s.kindOf /\ d.reader = s.reader
      /\ d.parked = s.parked /\ d.spill = s.spill /\ d.at = s.at /\ d.loop = s.loop /\ d.why = s.why
      /\ d.ret = s.ret /\ d.async = s.async /\ d.pump = s.pump /\ d.posted = s.posted
  BY ZenonT(40) DEF Client, Typed, Fields, Build
<1> HIDE DEF d, e, r, g
<1>5. Typed(d)
  <2>1. d.tags \in [Tags -> Entry] /\ d.tag \in [Ops -> Tags]  BY <1>1, <1>2, <1>4 DEF Client, Typed
  <2> QED BY ZenonT(40), <1>3, <1>4, <2>1 DEF Client, Typed
<1>6. d.tag[a] = g /\ \A b \in Asyncs \ {a} : d.tag[b] = s.tag[b]  BY Zenon, <1>1, <1>4 DEF Client, Typed, Ops
<1>7. \A h \in Tags : d.tags[h] = IF h = g THEN e ELSE s.tags[h]  BY ZenonT(40), <1>1, <1>4 DEF Client, Typed
<1>8. Tabled(d)  BY <1>1, <1>2, <1>4, <1>6, <1>7 DEF Client, Tabled
<1>9. Steps(s, d)  BY Zenon, <1>4, <1>5, <1>8 DEF Client, Steps, Posts
<1> QED BY Zenon, <1>1, <1>3, <1>4, <1>6, <1>9 DEF d

\* A step that moves no thread, then one under the lock.
LEMMA StepsQuiet ==
    ASSUME NEW s, NEW u, NEW d, Quiet(s, u), Steps(u, d)
    PROVE  Quiet(s, d)
BY Zenon DEF Quiet, Steps

\* p9_client_submit_async: a refusal, a broken transport and a full ring complete the
\* operation, and it is registered no more then.
LEMMA SubmitAsyncInv ==
    ASSUME ClientInv, NEW a \in Asyncs, SubmitAsync(a)
    PROVE  ClientInv' /\ Done(c, c')
<1> DEFINE s == [c EXCEPT !.async[a] = "out"]
           b == Build(s, a)
           k == Clear(b, b.tag[a])
           g == Signal(k)
<1>1. /\ Client(c) /\ KindOf[a] \in Kinds \ {"none"} /\ c.async[a] = "idle"
      /\ \A h \in Tags : ~(c.tags[h].owned /\ c.tags[h].op = a)
      /\ c.posted[a] = 0
  BY Zenon, KindIn DEF ClientInv, SubmitAsync, Client, Tabled, Ops
<1>2. Quiet(c, s) /\ s.posted = c.posted /\ s.tags = c.tags /\ s.async = [c.async EXCEPT ![a] = "out"]
  BY Zenon, <1>1, AsyncQuiet
<1>3. c' = IF s.dead \/ ~AsyncRoom(s) \/ ~HasFreeTag(s) \/ ~CanBuild(s, a) THEN Post(s, a)
           ELSE IF gone THEN MarkDead(b)
           ELSE IF Len(b.c2s) = RingCap THEN Post(g, a)
           ELSE [b EXCEPT !.c2s = Append(@, b.out)]
  BY Zenon DEF SubmitAsync
<1> HIDE DEF s
<1>4. Client(s) /\ s.async[a] = "out" /\ s.posted[a] = 0 /\ \A x \in Asyncs \ {a} : s.async[x] = c.async[x]
  BY <1>1, <1>2 DEF Quiet, Client, Typed
<1>5. Steps(s, Post(s, a))  BY ZenonT(40), <1>1, <1>2, <1>4, PostSteps
<1>6. ASSUME HasFreeTag(s)
      PROVE  /\ Steps(s, MarkDead(b)) /\ Steps(s, Post(g, a))
             /\ Len(b.c2s) # RingCap => Steps(s, [b EXCEPT !.c2s = Append(@, b.out)])
  <2>1. /\ Steps(s, b) /\ Client(b) /\ b.out \in Request /\ b.posted = s.posted /\ b.tag[a] \in Tags
        /\ b.async = s.async
    BY <1>1, <1>2, <1>4, <1>6, BuildAsync DEF HasFreeTag, Steps, Posts
  <2> HIDE DEF b
  <2>2. Steps(s, MarkDead(b))  BY Zenon, <2>1, MarkDeadSteps, StepsTrans
  <2>3. Len(b.c2s) # RingCap => Steps(s, [b EXCEPT !.c2s = Append(@, b.out)])  BY Zenon, <2>1, SendSteps, StepsTrans
  <2>4. /\ k.tags = [b.tags EXCEPT ![b.tag[a]] = Free] /\ k.posted = b.posted /\ k.async = b.async
        /\ DOMAIN k = Fields
    BY Zenon, <2>1 DEF Clear, Client, Typed, Fields
  <2>5a. Steps(b, k)  BY Zenon, <2>1, ClearSteps
  <2>5. Steps(s, k) /\ Client(k)  BY ZenonT(40), <2>1, <2>5a, StepsTrans DEF Steps
  <2> HIDE DEF k
  <2>6. \A h \in Tags : ~(k.tags[h].owned /\ k.tags[h].op = a)
    BY <2>1, <2>4, FreeEntry DEF Client, Typed, Tabled
  <2>7. g.tags = k.tags /\ g.posted = k.posted /\ g.async = k.async
    BY Zenon, <2>4 DEF Signal, Wake, Fields
  <2>8a. Steps(k, g)  BY Zenon, <2>5, SignalSteps
  <2>8. Steps(s, g) /\ Client(g)  BY ZenonT(40), <2>5, <2>8a, StepsTrans DEF Steps
  <2> HIDE DEF g
  <2>9. Steps(g, Post(g, a))  BY ZenonT(40), <1>4, <2>1, <2>4, <2>6, <2>7, <2>8, PostSteps
  <2> QED BY Zenon, <2>2, <2>3, <2>8, <2>9, StepsTrans
<1> HIDE DEF b, g
<1>7. Steps(s, c')  BY Zenon, <1>3, <1>5, <1>6
<1>8. Quiet(c, c')  BY Zenon, <1>2, <1>7, StepsQuiet
<1>9. Done(c, c')  BY Zenon, <1>1, <1>2, <1>4, <1>7 DEF Steps, Posts, Done
<1>10. WireInv' /\ rx' = rx  BY Zenon DEF SubmitAsync, server, ClientInv, WireInv
<1> QED BY ZenonT(40), <1>8, <1>9, <1>10, QuietInv

\* p9_client_abandon_async: it is not registered after, so nothing completes it.
LEMMA AbandonAsyncInv ==
    ASSUME ClientInv, NEW a \in Asyncs, AbandonAsync(a)
    PROVE  ClientInv' /\ Done(c, c')
<1> DEFINE s == [c EXCEPT !.async[a] = "abandoned"]
           g == c.tag[a]
           u == Unregister(s, a)
           x == Unregister(c, a)
           y == [x EXCEPT !.async[a] = "abandoned"]
           f == StageFlush(u, g)
<1>1. Client(c) /\ a \in Ops /\ g \in Tags  BY Zenon DEF ClientInv, Client, Typed, Ops
<1>2. /\ DOMAIN s = Fields /\ s.tag = c.tag /\ s.tags = c.tags /\ s.dead = c.dead
  BY ZenonT(40), <1>1 DEF Client, Typed, Fields
<1>3. c' = IF ~(c.tags[g].op = a /\ c.tags[g].owned) THEN s
           ELSE IF s.dead THEN u
           ELSE IF ~HasFlushTag(u) THEN [u EXCEPT !.tags[g].abandoned = TRUE]
           ELSE IF gone THEN MarkDead(f)
           ELSE IF Len(f.c2s) = RingCap THEN Signal(FlushRollback(f, g))
           ELSE [f EXCEPT !.c2s = Append(@, f.out)]
  BY <1>2 DEF AbandonAsync
<1>4. WireInv' /\ rx' = rx  BY Zenon DEF AbandonAsync, server, ClientInv, WireInv
<1>5. CASE ~(c.tags[g].op = a /\ c.tags[g].owned)
  <2>1. \A h \in Tags : ~(c.tags[h].owned /\ c.tags[h].op = a)  BY <1>1, <1>5 DEF Client, Tabled
  <2>2. Quiet(c, s) /\ s.posted = c.posted  BY Zenon, <1>1, <2>1, AsyncQuiet
  <2>3. Quiet(c, c') /\ Done(c, c')  BY Zenon, <1>3, <1>5, <2>2 DEF Done
  <2> QED BY ZenonT(40), <1>4, <2>3, QuietInv
<1>6. CASE c.tags[g].op = a /\ c.tags[g].owned
  <2>1. c.tags[g].kind # "flush"  BY Zenon, <1>1, <1>6 DEF Client, Tabled
  <2>2. x = [c EXCEPT !.tags[g].owned = FALSE] /\ u = [s EXCEPT !.tags[g].owned = FALSE]
    BY Zenon, <1>2, <1>6, <2>1 DEF Unregister
  <2>3. u = y
    BY Zenon, <1>1, <2>2 DEF Client, Typed, Fields
  <2>4. x.tags = [c.tags EXCEPT ![g] = [c.tags[g] EXCEPT !.owned = FALSE]] /\ x.posted = c.posted /\ x.async = c.async
    BY ZenonT(40), <1>1, <2>2 DEF Client, Typed, Fields
  <2>5. ~x.tags[g].owned /\ \A h \in Tags \ {g} : x.tags[h] = c.tags[h]
    BY <1>1, <2>4 DEF Client, Typed, Entry
  <2>6. Steps(c, x) /\ Client(x)  BY Zenon, <1>1, UnregisterSteps DEF Steps
  <2>7. \A h \in Tags : ~(x.tags[h].owned /\ x.tags[h].op = a)  BY <1>1, <2>5 DEF Client, Tabled
  <2> HIDE DEF x, u
  <2>8. Quiet(x, y) /\ y.posted = x.posted /\ y.async = [x.async EXCEPT ![a] = "abandoned"]
    BY ZenonT(40), <2>6, <2>7, AsyncQuiet
  <2> HIDE DEF y
  <2>9. /\ Quiet(c, u) /\ Client(u) /\ u.posted = c.posted /\ u.async[a] = "abandoned"
        /\ \A b \in Asyncs \ {a} : u.async[b] = c.async[b]
    <3>1. c.async \in [Asyncs -> {"idle", "out", "abandoned", "done"}] /\ y.async = [c.async EXCEPT ![a] = "abandoned"]
      BY Zenon, <1>1, <2>4, <2>8 DEF Client, Typed
    <3>2. y.async[a] = "abandoned" /\ \A b \in Asyncs \ {a} : y.async[b] = c.async[b]  BY Zenon, <3>1
    <3> QED BY ZenonT(40), <2>3, <2>4, <2>6, <2>8, <3>2 DEF Quiet, Steps
  <2>10. Steps(u, u) /\ Steps(u, [u EXCEPT !.tags[g].abandoned = TRUE])  BY Zenon, <1>1, <2>9, StepsRefl, SetSteps
  <2>11. ASSUME HasFlushTag(u)
         PROVE  /\ Steps(u, MarkDead(f)) /\ Steps(u, Signal(FlushRollback(f, g)))
                /\ Len(f.c2s) # RingCap => Steps(u, [f EXCEPT !.c2s = Append(@, f.out)])
    <3>1. Steps(u, f) /\ Client(f) /\ f.out \in Request  BY ZenonT(40), <1>1, <2>9, <2>11, StageFlushSteps DEF Steps
    <3> HIDE DEF f
    <3>2. Steps(u, MarkDead(f))  BY ZenonT(40), <3>1, MarkDeadSteps, StepsTrans
    <3>3. Steps(u, FlushRollback(f, g)) /\ Client(FlushRollback(f, g))
      BY <1>1, <3>1, FlushRollbackSteps, StepsTrans DEF Steps
    <3>4. Steps(u, Signal(FlushRollback(f, g)))  BY Zenon, <3>3, SignalSteps, StepsTrans
    <3>5. Len(f.c2s) # RingCap => Steps(u, [f EXCEPT !.c2s = Append(@, f.out)])  BY Zenon, <3>1, SendSteps, StepsTrans
    <3> QED BY Zenon, <3>2, <3>4, <3>5
  <2> HIDE DEF f, s
  <2>12. Steps(u, c')  BY Zenon, <1>3, <1>6, <2>10, <2>11
  <2>13. Quiet(c, c')  BY Zenon, <2>9, <2>12, StepsQuiet
  <2>14. Done(c, c')  BY Zenon, <2>9, <2>12 DEF Steps, Posts, Done
  <2> QED BY Zenon, <1>4, <2>13, <2>14, QuietInv
<1> QED BY Zenon, <1>5, <1>6

\* The owner sees the completion.
LEMMA ReapInv ==
    ASSUME ClientInv, NEW a \in Asyncs, Reap(a)
    PROVE  ClientInv' /\ Done(c, c')
<1>1. Client(c) /\ \A h \in Tags : ~(c.tags[h].owned /\ c.tags[h].op = a)
  BY DEF ClientInv, Client, Typed, Tabled, Reap
<1>2. Quiet(c, c') /\ c'.posted = c.posted  BY Zenon, <1>1, AsyncQuiet DEF Reap
<1>3. WireInv' /\ rx' = rx  BY Zenon DEF Reap, server, ClientInv, WireInv
<1> QED BY ZenonT(40), <1>2, <1>3, QuietInv DEF Done

\* The pumper's place changes.
LEMMA PumpSet ==
    ASSUME NEW s, Client(s), NEW v, NEW d, d = [s EXCEPT !.pump = v]
    PROVE  /\ Client(d) /\ d.pump = v /\ d.reader = s.reader /\ d.kindOf = s.kindOf /\ d.at = s.at /\ d.why = s.why
           /\ d.parked = s.parked /\ d.loop = s.loop /\ d.spill = s.spill /\ d.posted = s.posted /\ d.async = s.async
<1>1. /\ DOMAIN d = Fields /\ d.tags = s.tags /\ d.tag = s.tag /\ d.kindOf = s.kindOf /\ d.flags = s.flags
      /\ d.reader = s.reader /\ d.dead = s.dead /\ d.parked = s.parked /\ d.c2s = s.c2s /\ d.out = s.out
      /\ d.spill = s.spill /\ d.posted = s.posted /\ d.at = s.at /\ d.loop = s.loop
      /\ d.why = s.why /\ d.ret = s.ret /\ d.async = s.async /\ d.pump = v
  BY Zenon DEF Client, Typed, Fields
<1>2. Client(d)  BY Zenon, <1>1, ClientTypes, ClientIf
<1> QED BY Zenon, <1>1, <1>2

\* It gives the role up after some frame, or the end of the stream.
LEMMA PumpLeaves ==
    ASSUME ClientInv, c.pump = "pumping", NEW y, Steps(c, y), NEW v \in {"top", "hook"},
           c' = Depart([y EXCEPT !.pump = v], None), WireInv'
    PROVE  ClientInv' /\ Done(c, c')
<1> DEFINE z == [y EXCEPT !.pump = v]
<1>1. /\ Client(z) /\ z.pump = v /\ z.kindOf = c.kindOf /\ z.at = c.at /\ z.why = c.why
      /\ z.parked = c.parked /\ z.loop = c.loop /\ z.spill = c.spill /\ z.posted = y.posted /\ z.async = y.async
  BY PumpSet DEF Steps
<1> HIDE DEF z
<1>2. Left(z, c')  BY Zenon, <1>1, DepartLeft DEF z
<1>3. Client(c') /\ c'.at = c.at /\ c'.why = c.why /\ ~c'.reader /\ c'.pump = v
  BY Zenon, <1>1, <1>2 DEF Left
<1>4. \A t \in Threads : ~Reading(t)  BY Zenon DEF ClientInv, RoleInv
<1>5. \A t \in Threads : ~Reading(t)'  BY Zenon, <1>3, <1>4 DEF Reading
<1>6. RoleInv'  BY Zenon, <1>3, <1>5 DEF RoleInv
<1>7. RestInv'
  <2>1. \A t \in Threads : ~(c.at[t] = "up" /\ c.why[t] = "frame")  BY Zenon, <1>4 DEF Reading
  <2>2. c'.kindOf = c.kindOf /\ c'.parked = c.parked /\ c'.loop = c.loop /\ c'.spill = c.spill
    BY Zenon, <1>1, <1>2 DEF Left
  <2> QED BY <1>3, <2>1, <2>2 DEF ClientInv, RestInv
<1>8. Done(c, c')
  <2>1. Posts(c, y) /\ Posts(z, c')  BY Zenon, <1>2 DEF Steps, Left
  <2> QED BY <1>1, <2>1 DEF Posts, Done
<1> QED BY ZenonT(40), <1>3, <1>6, <1>7, <1>8 DEF ClientInv

\* The pumper does not read, before or after.
LEMMA PumpIdles ==
    ASSUME ClientInv, c.pump # "pumping", Client(c'), c'.pump # "pumping", c'.reader = c.reader, c'.kindOf = c.kindOf,
           c'.at = c.at, c'.why = c.why, c'.parked = c.parked, c'.loop = c.loop, c'.spill = c.spill,
           c'.posted = c.posted, rx' = rx, UNCHANGED <<s2c, pend>>
    PROVE  ClientInv' /\ Done(c, c')
<1>1. \A t \in Threads : Reading(t)' <=> Reading(t)  BY Zenon DEF Reading
<1>2. RoleInv'  BY Zenon, <1>1 DEF ClientInv, RoleInv
<1>3. RestInv' /\ WireInv' /\ Done(c, c')  BY ZenonT(40) DEF ClientInv, RestInv, WireInv, Done
<1> QED BY Zenon, <1>2, <1>3 DEF ClientInv

\* Any step of the pumper.
LEMMA PumpInv ==
    ASSUME ClientInv, PumpStep
    PROVE  ClientInv' /\ Done(c, c')
<1>0. Client(c)  BY Zenon DEF ClientInv
<1>1. CASE PumpReady
  <2>0. c.pump = "top" /\ rx' = rx /\ UNCHANGED <<s2c, pend>>  BY Zenon, <1>1 DEF PumpReady, server
  <2>1. CASE c.dead \/ c.reader \/ ~Readable
    <3>1. c' = [c EXCEPT !.pump = "hook"]  BY Zenon, <1>1, <2>1 DEF PumpReady
    <3>2. /\ Client(c') /\ c'.pump = "hook" /\ c'.reader = c.reader /\ c'.kindOf = c.kindOf /\ c'.at = c.at
          /\ c'.why = c.why /\ c'.parked = c.parked /\ c'.loop = c.loop /\ c'.spill = c.spill /\ c'.posted = c.posted
      BY <1>0, <3>1, PumpSet
    <3> QED BY ZenonT(40), <2>0, <3>2, PumpIdles
  <2>2. CASE ~(c.dead \/ c.reader \/ ~Readable)
    <3> DEFINE d == [c EXCEPT !.pump = "pumping", !.reader = TRUE]
    <3>1. c' = d /\ ~c.reader  BY Zenon, <1>1, <2>2 DEF PumpReady
    <3>2. /\ DOMAIN d = Fields /\ d.tags = c.tags /\ d.tag = c.tag /\ d.kindOf = c.kindOf /\ d.flags = c.flags
          /\ d.reader = TRUE /\ d.dead = c.dead /\ d.parked = c.parked /\ d.c2s = c.c2s /\ d.out = c.out
          /\ d.spill = c.spill /\ d.posted = c.posted /\ d.at = c.at /\ d.loop = c.loop
          /\ d.why = c.why /\ d.ret = c.ret /\ d.async = c.async /\ d.pump = "pumping"
      BY Zenon, <1>0 DEF Client, Typed, Fields
    <3> HIDE DEF d
    <3>3. Client(d)  BY ZenonT(40), <1>0, <3>2, ClientTypes, ClientIf
    <3>4. \A t \in Threads : ~Reading(t)  BY Zenon, <3>1 DEF ClientInv, RoleInv
    <3>5. \A t \in Threads : ~Reading(t)'  BY Zenon, <3>1, <3>2, <3>4 DEF Reading
    <3>6. RoleInv'  BY ZenonT(40), <3>1, <3>2, <3>5 DEF RoleInv
    <3>7. RestInv' /\ WireInv' /\ Done(c, c')  BY <2>0, <3>1, <3>2 DEF ClientInv, RestInv, WireInv, Done
    <3> QED BY Zenon, <3>1, <3>3, <3>6, <3>7 DEF ClientInv
  <2> QED BY Zenon, <2>1, <2>2
<1>2. CASE PumpNow
  <2>0. c.pump = "pumping" /\ pend' = pend  BY Zenon, <1>2 DEF PumpNow
  <2>1. s2c \in Seq(Answer) /\ Len(s2c) <= ReplyCap /\ ReplyCap \in Nat /\ rx \in Answer \cup {None}
    BY Zenon, ConstantsAssumption DEF ClientInv, WireInv
  <2>2. s2c # <<>> => Head(s2c) \in Answer /\ Tail(s2c) \in Seq(Answer) /\ Len(Tail(s2c)) <= ReplyCap
    BY <2>1
  <2>3. Steps(c, c) /\ Steps(c, MarkDead(c))  BY ZenonT(40), <1>0, StepsRefl, MarkDeadSteps
  <2>4. \A f \in Answer : Steps(c, Demux(c, f))  BY ZenonT(40), <1>0, DemuxSteps
  <2>5. CASE rx # None /\ c' = Depart([Demux(c, rx) EXCEPT !.pump = "top"], None) /\ rx' = None /\ s2c' = s2c
    <3>1. Steps(c, Demux(c, rx)) /\ WireInv'  BY ZenonT(40), <2>0, <2>1, <2>4, <2>5 DEF ClientInv, WireInv
    <3> QED BY ZenonT(40), <2>0, <2>5, <3>1, PumpLeaves
  <2>6. CASE /\ s2c # <<>> /\ c' = Depart([Demux(c, Head(s2c)) EXCEPT !.pump = "top"], None)
             /\ s2c' = Tail(s2c) /\ rx' = rx
    <3>1. Steps(c, Demux(c, Head(s2c))) /\ WireInv'  BY ZenonT(40), <2>0, <2>2, <2>4, <2>6 DEF ClientInv, WireInv
    <3> QED BY ZenonT(40), <2>0, <2>6, <3>1, PumpLeaves
  <2>7. CASE /\ s2c # <<>> /\ c' = Depart([c EXCEPT !.pump = "hook"], None)
             /\ rx' = Head(s2c) /\ s2c' = Tail(s2c)
    <3>1. WireInv'  BY ZenonT(40), <2>0, <2>2, <2>7 DEF ClientInv, WireInv
    <3> QED BY ZenonT(40), <2>0, <2>3, <2>7, <3>1, PumpLeaves
  <2>8. CASE c' = Depart([MarkDead(c) EXCEPT !.pump = "hook"], None) /\ rx' = rx /\ s2c' = s2c
    <3>1. WireInv'  BY ZenonT(40), <2>0, <2>8 DEF ClientInv, WireInv
    <3> QED BY ZenonT(40), <2>0, <2>3, <2>8, <3>1, PumpLeaves
  <2> QED BY ZenonT(40), <1>2, <2>5, <2>6, <2>7, <2>8 DEF PumpNow
<1>3. CASE PumpHook
  <2>0. c.pump = "hook" /\ rx' = rx /\ UNCHANGED <<s2c, pend>>  BY Zenon, <1>3 DEF PumpHook, server
  <2>1. CASE c' = [c EXCEPT !.pump = "role", !.hooked = {Pumper}]
    <3> DEFINE d == [c EXCEPT !.pump = "role", !.hooked = {Pumper}]
    <3>2. /\ DOMAIN d = Fields /\ d.tags = c.tags /\ d.tag = c.tag /\ d.kindOf = c.kindOf /\ d.flags = c.flags
          /\ d.reader = c.reader /\ d.dead = c.dead /\ d.parked = c.parked /\ d.c2s = c.c2s /\ d.out = c.out
          /\ d.spill = c.spill /\ d.posted = c.posted /\ d.at = c.at /\ d.loop = c.loop
          /\ d.why = c.why /\ d.ret = c.ret /\ d.async = c.async /\ d.pump = "role"
      BY Zenon, <1>0 DEF Client, Typed, Fields
    <3> HIDE DEF d
    <3>3. Client(d)  BY <1>0, <3>2, ClientTypes, ClientIf
    <3>4. c' = d  BY Zenon, <2>1 DEF d
    <3> QED BY ZenonT(40), <2>0, <3>2, <3>3, <3>4, PumpIdles
  <2>2. CASE c' = [c EXCEPT !.pump = "top"] \/ c' = [c EXCEPT !.pump = "ready"]
    <3>1. PICK v \in {"top", "ready"} : c' = [c EXCEPT !.pump = v]  BY Zenon, <2>2
    <3>2. /\ Client(c') /\ c'.pump = v /\ c'.reader = c.reader /\ c'.kindOf = c.kindOf /\ c'.at = c.at
          /\ c'.why = c.why /\ c'.parked = c.parked /\ c'.loop = c.loop /\ c'.spill = c.spill
          /\ c'.posted = c.posted
      BY <1>0, <3>1, PumpSet
    <3> QED BY ZenonT(40), <2>0, <3>2, PumpIdles
  <2> QED BY ZenonT(40), <1>3, <2>1, <2>2 DEF PumpHook
<1>4. CASE PumpWakes
  <2>0. c.pump \in {"role", "ready"} /\ rx' = rx /\ UNCHANGED <<s2c, pend>>
    BY Zenon, <1>4 DEF PumpWakes, PumpWakeDue, server
  <2> DEFINE d == [c EXCEPT !.pump = "top", !.hooked = {}, !.woken = @ \ {Pumper}]
  <2>1. /\ DOMAIN d = Fields /\ d.tags = c.tags /\ d.tag = c.tag /\ d.kindOf = c.kindOf /\ d.flags = c.flags
        /\ d.reader = c.reader /\ d.dead = c.dead /\ d.parked = c.parked /\ d.c2s = c.c2s /\ d.out = c.out
        /\ d.spill = c.spill /\ d.posted = c.posted /\ d.at = c.at /\ d.loop = c.loop
        /\ d.why = c.why /\ d.ret = c.ret /\ d.async = c.async /\ d.pump = "top"
    BY Zenon, <1>0 DEF Client, Typed, Fields
  <2>2. c' = d  BY Zenon, <1>4 DEF PumpWakes
  <2> HIDE DEF d
  <2>3. Client(d)  BY ZenonT(40), <1>0, <2>1, ClientTypes, ClientIf
  <2> QED BY ZenonT(40), <2>0, <2>1, <2>2, <2>3, PumpIdles
<1> QED BY Zenon, <1>1, <1>2, <1>3, <1>4 DEF PumpStep

\* The server takes a request, answers one, or goes away.
LEMMA ServerInv ==
    ASSUME ClientInv, ServerStep \/ ServerLeaves
    PROVE  ClientInv' /\ Done(c, c')
<1>0. Client(c) /\ Quiet(c, c)  BY Zenon DEF ClientInv, Quiet
<1>1. CASE ServerTakes
  <2> DEFINE d == [c EXCEPT !.c2s = Tail(@)]
             q == Head(c.c2s)
  <2>1. /\ DOMAIN d = Fields /\ d.tags = c.tags /\ d.tag = c.tag /\ d.kindOf = c.kindOf /\ d.flags = c.flags
        /\ d.reader = c.reader /\ d.dead = c.dead /\ d.parked = c.parked /\ d.c2s = Tail(c.c2s) /\ d.out = c.out
        /\ d.spill = c.spill /\ d.posted = c.posted /\ d.at = c.at /\ d.loop = c.loop
        /\ d.why = c.why /\ d.ret = c.ret /\ d.async = c.async /\ d.pump = c.pump
    BY Zenon, <1>0 DEF Client, Typed, Fields
  <2>2. c' = d /\ c.c2s # <<>> /\ Cardinality(pend) < ServerMax /\ pend' = pend \cup {q} /\ rx' = rx /\ s2c' = s2c
    BY Zenon, <1>1 DEF ServerTakes
  <2>3. c.c2s \in Seq(Request) /\ Len(c.c2s) <= RingCap /\ RingCap \in Nat /\ ServerMax \in Nat
    BY ZenonT(40), <1>0, ConstantsAssumption DEF Client, Typed
  <2>4. q \in Request /\ Tail(c.c2s) \in Seq(Request) /\ Len(Tail(c.c2s)) <= RingCap
    BY <2>2, <2>3
  <2> HIDE DEF d, q
  <2>5. Client(d)  BY ZenonT(40), <1>0, <2>1, <2>4, ClientTypes, ClientIf
  <2>6. Quiet(c, c') /\ Done(c, c')  BY ZenonT(40), <2>1, <2>2, <2>5 DEF Quiet, Done
  <2>7. IsFiniteSet(pend) /\ Cardinality(pend) \in Nat  BY ZenonT(40), FS_CardinalityType DEF ClientInv, WireInv
  <2>8. IsFiniteSet(pend') /\ Cardinality(pend') <= Cardinality(pend) + 1
    <3>1. /\ IsFiniteSet(pend \cup {q})
          /\ Cardinality(pend \cup {q}) = IF q \in pend THEN Cardinality(pend) ELSE Cardinality(pend) + 1
      BY Zenon, <2>7, FS_AddElement
    <3>2. \A k \in Nat : k <= k /\ k <= k + 1  OBVIOUS
    <3> QED BY <2>2, <2>7, <3>1, <3>2
  <2>9. Cardinality(pend') \in Nat  BY Zenon, <2>8, FS_CardinalityType
  <2>10. Cardinality(pend') <= ServerMax
    <3>1. \A k, l, m \in Nat : k < m /\ l <= k + 1 => l <= m  OBVIOUS
    <3> QED BY Zenon, <2>2, <2>3, <2>7, <2>8, <2>9, <3>1
  <2>11. WireInv'  BY Zenon, <2>2, <2>4, <2>8, <2>10 DEF ClientInv, WireInv
  <2> QED BY ZenonT(40), <2>2, <2>6, <2>11, QuietInv
<1>2. ASSUME NEW q \in pend, ServerAnswers(q) PROVE ClientInv' /\ Done(c, c')
  <2>1. q \in Request /\ s2c \in Seq(Answer) /\ Len(s2c) < ReplyCap /\ ReplyCap \in Nat /\ IsFiniteSet(pend)
    BY Zenon, <1>2, ConstantsAssumption DEF ClientInv, WireInv, ServerAnswers
  <2>2. \A b \in BOOLEAN : Reply(q, b) \in Answer  BY Zenon, <2>1 DEF Request, Answer, Reply
  <2>3. \E b \in BOOLEAN : s2c' = Append(s2c, Reply(q, b))  BY Zenon, <1>2 DEF ServerAnswers
  <2>4. PICK b \in BOOLEAN : s2c' = Append(s2c, Reply(q, b))  BY Zenon, <2>3
  <2>5. s2c' \in Seq(Answer) /\ Len(s2c') = Len(s2c) + 1  BY <2>1, <2>2, <2>4
  <2>6. Len(s2c') <= ReplyCap  BY <2>1, <2>5
  <2>7. pend' \subseteq pend /\ c' = c /\ rx' = rx  BY Zenon, <1>2 DEF ServerAnswers
  <2>8. IsFiniteSet(pend') /\ Cardinality(pend') <= Cardinality(pend)  BY ZenonT(40), <2>1, <2>7, FS_Subset
  <2>9. Cardinality(pend') \in Nat /\ Cardinality(pend) \in Nat /\ ServerMax \in Nat /\ Cardinality(pend) <= ServerMax
    BY ZenonT(40), <2>1, <2>8, FS_CardinalityType, ConstantsAssumption DEF ClientInv, WireInv
  <2>10. Cardinality(pend') <= ServerMax  BY <2>8, <2>9
  <2>11. WireInv'  BY ZenonT(40), <2>5, <2>6, <2>7, <2>8, <2>10 DEF ClientInv, WireInv
  <2>12. Quiet(c, c') /\ Done(c, c')  BY ZenonT(40), <1>0, <2>7 DEF Done
  <2> QED BY ZenonT(40), <2>7, <2>11, <2>12, QuietInv
<1>3. CASE ServerLeaves
  <2>1. c' = c /\ rx' = rx /\ s2c' = s2c /\ pend' = {}  BY Zenon, <1>3 DEF ServerLeaves
  <2>2. IsFiniteSet(pend') /\ Cardinality(pend') = 0  BY Zenon, <2>1, FS_EmptySet
  <2>3. ServerMax \in Nat  BY Zenon, ConstantsAssumption
  <2>4. WireInv'  BY <2>1, <2>2, <2>3 DEF ClientInv, WireInv
  <2>5. Quiet(c, c') /\ Done(c, c')  BY ZenonT(40), <1>0, <2>1 DEF Done
  <2> QED BY ZenonT(40), <2>1, <2>4, <2>5, QuietInv
<1> QED BY ZenonT(40), <1>1, <1>2, <1>3 DEF ServerStep

\* Every step, a latch and a stutter included, keeps the invariant.
LEMMA StepInv ==
    ASSUME ClientInv, [Next \/ LatchStep]_vars
    PROVE  ClientInv' /\ Done(c, c')
<1>1. CASE UNCHANGED <<c, rx, s2c, pend>>
  <2>1. ClientInv'  BY <1>1 DEF ClientInv, RoleInv, RestInv, WireInv, Reading
  <2> QED BY ZenonT(40), <1>1, <2>1 DEF Done
<1>2. CASE SignalStep \/ LatchStep \/ UNCHANGED vars
  BY Zenon, <1>1, <1>2 DEF SignalStep, LatchStep, vars, server
<1>3. ASSUME NEW t \in Threads, Call(t) \/ ThreadStep(t) PROVE ClientInv' /\ Done(c, c')
  BY ZenonT(40), <1>3, CallInv, ThreadInv
<1>4. ASSUME NEW a \in Asyncs, SubmitAsync(a) \/ AbandonAsync(a) \/ Reap(a) PROVE ClientInv' /\ Done(c, c')
  BY ZenonT(40), <1>4, SubmitAsyncInv, AbandonAsyncInv, ReapInv
<1> QED BY ZenonT(40), <1>2, <1>3, <1>4, PumpInv, ServerInv DEF Next

\* A new client has no request out, and nobody reads.
LEMMA InitInv ==
    ASSUME Init
    PROVE  ClientInv
<1>1. PICK mix \in Mixes :
        /\ c = [tags |-> [g \in Tags |-> Free], tag |-> [o \in Ops |-> 0], kindOf |-> mix,
                flags |-> [t \in Threads |-> {}], reader |-> FALSE, dead |-> FALSE,
                bound |-> {FidOf[o] : o \in {p \in Ops : mix[p] \notin {"walk", "none"}}},
                closer |-> {}, woken |-> {}, parked |-> {}, hooked |-> {},
                c2s |-> <<>>, out |-> None, spill |-> [t \in Threads |-> None],
                posted |-> [a \in Asyncs |-> 0], at |-> [t \in Threads |-> "user"],
                loop |-> [t \in Threads |-> "wait"], why |-> [t \in Threads |-> None],
                ret |-> [t \in Threads |-> None], async |-> [a \in Asyncs |-> "idle"], pump |-> "top"]
  BY Zenon DEF Init
<1>2. /\ DOMAIN c = Fields /\ c.tags = [g \in Tags |-> Free] /\ c.tag = [o \in Ops |-> 0] /\ c.kindOf = mix
      /\ c.flags = [t \in Threads |-> {}] /\ c.reader = FALSE /\ c.dead = FALSE /\ c.parked = {} /\ c.c2s = <<>>
      /\ c.out = None /\ c.spill = [t \in Threads |-> None] /\ c.posted = [a \in Asyncs |-> 0]
      /\ c.at = [t \in Threads |-> "user"] /\ c.loop = [t \in Threads |-> "wait"] /\ c.why = [t \in Threads |-> None]
      /\ c.ret = [t \in Threads |-> None] /\ c.async = [a \in Asyncs |-> "idle"] /\ c.pump = "top"
  BY Zenon, <1>1 DEF Fields
<1>3. mix \in [Ops -> Kinds] /\ RingCap \in Nat /\ ReplyCap \in Nat /\ ServerMax \in Nat  BY ZenonT(40), ConstantsAssumption
<1>4. Typed(c)
  <2>1. c.tags \in [Tags -> Entry] /\ c.tag \in [Ops -> Tags] /\ c.kindOf \in [Ops -> Kinds]
    BY <1>2, <1>3, FreeEntry, ZeroTag
  <2>2. /\ c.flags \in [Threads -> SUBSET Flags] /\ c.reader \in BOOLEAN /\ c.dead \in BOOLEAN
        /\ c.parked \in SUBSET Threads
    BY Zenon, <1>2
  <2>3. /\ c.c2s \in Seq(Request) /\ Len(c.c2s) <= RingCap /\ c.out \in Request \cup {None}
        /\ c.spill \in [Threads -> Request \cup {None}] /\ c.posted \in [Asyncs -> Nat]
    BY <1>2, <1>3
  <2>4. /\ c.at \in [Threads -> {"user", "recv", "sleep", "park", "stop", "up"}]
        /\ c.loop \in [Threads -> {"wait", "drain", "stage", "send", "fsend"}]
        /\ DOMAIN c.why = Threads /\ DOMAIN c.ret = Threads
        /\ c.async \in [Asyncs -> {"idle", "out", "abandoned", "done"}]
    BY <1>2
  <2> QED BY ZenonT(40), <1>2, <2>1, <2>2, <2>3, <2>4 DEF Typed
<1>5. Tabled(c)  BY <1>2, FreeEntry DEF Tabled
<1>6. RoleInv /\ RestInv  BY ZenonT(40), <1>2 DEF RoleInv, RestInv, Reading
<1>7. WireInv
  <2>1. rx = None /\ s2c = <<>> /\ pend = {}  BY Zenon DEF Init
  <2>2. IsFiniteSet(pend) /\ Cardinality(pend) = 0  BY Zenon, <2>1, FS_EmptySet
  <2> QED BY <1>3, <2>1, <2>2 DEF WireInv
<1> QED BY ZenonT(40), <1>4, <1>5, <1>6, <1>7 DEF ClientInv, Client

\* The invariant gives the types and the one reader.
LEMMA ReaderFollows ==
    ASSUME ClientInv
    PROVE  OneReader
<1>1. TypeOK
  <2>1. c.parked = {t \in Threads : c.at[t] = "park"} \cup {t \in c.parked : c.at[t] = "up"}
    BY Zenon DEF ClientInv, RestInv, Client, Typed
  <2> QED BY ZenonT(40), <2>1 DEF ClientInv, Client, Typed, WireInv, TypeOK, Entry, WireKinds
<1>2. c.reader <=> ReadersNow # {}  BY Zenon DEF ClientInv, RoleInv, ReadersNow
<1>3. \A x, y \in ReadersNow : x = y  BY Zenon DEF ClientInv, RoleInv, ReadersNow
<1>4. Cardinality(ReadersNow) <= 1
  <2>1. CASE ReadersNow = {}  BY <2>1, FS_EmptySet
  <2>2. CASE ReadersNow # {}
    <3>1. PICK x \in ReadersNow : TRUE  BY Zenon, <2>2
    <3>2. ReadersNow = {x}  BY ZenonT(40), <1>3, <3>1
    <3> QED BY <3>2, FS_Singleton
  <2> QED BY Zenon, <2>1, <2>2
<1> QED BY ZenonT(40), <1>1, <1>2, <1>4 DEF OneReader

\* The invariant holds in every state, with or without the latches.
THEOREM ClientInductive == (Spec => []ClientInv) /\ (LatchSpec => []ClientInv)
<1>1. ClientInv /\ [Next \/ LatchStep]_vars => ClientInv'  BY Zenon, StepInv
<1>2. ClientInv /\ [Next]_vars => ClientInv'  BY Zenon, <1>1
<1> QED BY <1>1, <1>2, InitInv, PTL DEF Spec, LatchSpec

\* reader_active is held by one thread, or by the pumper, exactly while it reads;
\* for any number of callers and however deaths, stops, notes and latches fall.
THEOREM ReaderIsOne == (Spec => []OneReader) /\ (LatchSpec => []OneReader)
BY ClientInductive, ReaderFollows, PTL

\* A completion is posted once, by the reply, the session's death or a refused
\* submission, and not to an operation that p9_client_abandon_async let go.
THEOREM CompletionsOnce == (Spec => CompletedOnce) /\ (LatchSpec => CompletedOnce)
<1>1. ClientInv /\ [Next \/ LatchStep]_vars => [\A a \in Asyncs : c'.posted[a] # c.posted[a] =>
          c'.posted[a] = 1 /\ c.async[a] # "abandoned"]_vars
  BY ZenonT(40), StepInv DEF Done
<1>2. [Next]_vars => [Next \/ LatchStep]_vars  BY Zenon
<1> QED BY <1>1, <1>2, ClientInductive, PTL DEF Spec, LatchSpec, CompletedOnce

=============================================================================
