------------------------------ MODULE P9Client ------------------------------
(***************************************************************************)
(* The 9P client (kernel/9p_client.c) and its tag and fid tables           *)
(* (kernel/9p_session.c).  Threads of several Procs share one client: each *)
(* call takes a tag, sends a request and waits; one waiter at a time is    *)
(* elected to read replies for all, and hands the role on when it leaves.  *)
(*                                                                         *)
(* The client's state, c, is what c->lock protects.  A step of a thread is *)
(* one hold of that lock, from taking it to the next unlock before a recv, *)
(* a sleep, a park or the return; the operators on c are the functions the *)
(* thread calls meanwhile.  Death, stop and note flags change at any time. *)
(***************************************************************************)
EXTENDS Naturals, Sequences, FiniteSets, FiniteSetsExt, Functions

CONSTANTS
    Threads,      \* threads, each making one synchronous call
    Asyncs,       \* asynchronous operations, each submitted once
    Pumper,       \* the thread that reads for them (loom.c, dev9p_poll.c)
    Mixes,        \* which operations take part, and of what kind: see Kinds
    FidOf,        \* the fid an operation binds, uses or clunks
    OpsMax,       \* P9_OPS_MAX
    AsyncMax,     \* P9_ASYNC_MAX
    TagLimit,     \* P9_TAG_LIMIT, or less when the table cannot grow
    MaxFids,      \* P9_SESSION_MAX_FIDS
    RingCap,      \* requests the transport holds before send() says EAGAIN
    ReplyCap,     \* replies the transport holds before the server blocks
    ServerMax,    \* requests the server works on at once
    Mortal, Notable, Stoppable,   \* the threads each of these may happen to
    Latched,      \* threads whose Proc may be latched to terminate, and unlatched
    Breaking,     \* the mixes in which the server may go away
    None

Tags  == 0 .. TagLimit - 1
Ops   == Threads \cup Asyncs
Kinds == {"walk", "read", "clunk", "aclunk", "none"}

\* An asynchronous operation never holds the last tag (9p_session.c), and is a
\* read or a walk; no two walks name one new fid.
ASSUME ConstantsAssumption ==
    /\ OpsMax \in Nat /\ AsyncMax \in Nat /\ TagLimit \in Nat /\ AsyncMax < OpsMax /\ OpsMax <= TagLimit
    /\ {RingCap, ReplyCap, ServerMax, MaxFids} \subseteq Nat \ {0}
    /\ Mixes \subseteq [Ops -> Kinds] /\ Breaking \subseteq Mixes
    /\ \A mix \in Mixes : \A a \in Asyncs : mix[a] \in {"read", "walk", "none"}
    /\ Threads \cap Asyncs = {} /\ Pumper \notin Ops /\ None \notin Ops \cup {Pumper} \cup Tags
    /\ None \notin [kind : {"walk", "read", "clunk", "flush"}, tag : Tags, op : Ops \cup {None},
                     old : Tags \cup {None}]

Flags == {"done", "dead", "be_reader", "sending", "noted", "flushing", "flushed",
          "stop_parked"}

VARIABLES
    c,            \* what c->lock protects, and where each thread is
    rx,           \* the frame whose first bytes have been read (c->rx_got), or None
    s2c,          \* replies on their way
    pend,         \* requests the server has taken and not answered
    fids,         \* fids the server holds
    ran,          \* operations the server has carried out
    gone,         \* the server's end is closed
    dying, stopped, noted, latched  \* threads with a death, stop, note or latch

server == <<s2c, pend, fids, ran, gone>>
KindOf == c.kindOf

signals == <<dying, stopped, noted, latched>>
vars == <<c, rx, server, signals>>

-----------------------------------------------------------------------------
(* The tag table and the fid table.                                        *)

Free == [kind |-> "free", op |-> None, owned |-> FALSE, awaiting |-> FALSE,
         waits |-> FALSE, abandoned |-> FALSE, old |-> None, slot |-> FALSE]

Active(s)  == {g \in Tags : s.tags[g].kind # "free"}
OpTags(s)  == {g \in Active(s) : s.tags[g].kind # "flush"}
Slots(s)   == {g \in Active(s) : s.tags[g].slot}
FidAt(s, g) == FidOf[s.tags[g].op]

HasFlushTag(s) == Active(s) # Tags
HasFreeTag(s)  == HasFlushTag(s) /\ Cardinality(OpTags(s)) < OpsMax
AsyncRoom(s)   == Cardinality({g \in OpTags(s) : s.tags[g].op \in Asyncs}) < AsyncMax
NewTag(s)      == Min(Tags \ Active(s))

SlotAvailable(s) == Cardinality(s.bound) + Cardinality(Slots(s)) < MaxFids

\* any_outstanding_on_fid: an operation that may still act on the fid.
LiveOnFid(s, f) ==
    \E g \in OpTags(s) : /\ FidAt(s, g) = f
                         /\ s.tags[g].awaiting => s.tags[g].waits
                         /\ ~s.tags[g].abandoned

Clear(s, g) == [s EXCEPT !.tags[g] = Free]
SlotBind(s, g) == [s EXCEPT !.tags[g].slot = FALSE, !.bound = @ \cup {FidAt(s, g)}]

\* p9_session_send_walk, send_clunk and the rest, as far as they may refuse.
CanBuild(s, op) ==
    CASE KindOf[op] = "walk" ->
            SlotAvailable(s) /\ FidOf[op] \notin s.bound /\ ~LiveOnFid(s, FidOf[op])
      [] KindOf[op] \in {"clunk", "aclunk"} -> FidOf[op] \in s.bound /\ ~LiveOnFid(s, FidOf[op])
      [] OTHER -> FidOf[op] \in s.bound

WireKind(op) == IF KindOf[op] = "aclunk" THEN "clunk" ELSE KindOf[op]

\* The build takes a tag, unbinds a clunked fid and leaves the frame in out_buf.
Build(s, op) ==
    LET g == NewTag(s)
        k == WireKind(op)
    IN  [s EXCEPT !.tags[g] = [Free EXCEPT !.kind = k, !.op = op, !.slot = k # "read",
                                           !.owned = KindOf[op] # "aclunk"],
                  !.bound = IF k = "clunk" THEN @ \ {FidOf[op]} ELSE @,
                  !.tag[op] = g,
                  !.out = [kind |-> k, tag |-> g, op |-> op, old |-> None]]

\* p9_session_send_flush: the victim's tag stays reserved until the Rflush.
StageFlush(s, g) ==
    LET ft == NewTag(s)
        op == s.tags[g].op
    IN  [s EXCEPT !.tags[ft] = [Free EXCEPT !.kind = "flush", !.op = op, !.old = g],
                  !.tags[g].awaiting = TRUE,
                  !.out = [kind |-> "flush", tag |-> ft, op |-> op, old |-> g]]

FlushesOf(s, g) == {ft \in Active(s) : s.tags[ft].kind = "flush" /\ s.tags[ft].old = g}

\* flush_unstage, for a Tflush that was never sent.
FlushRetract(s, g) ==
    IF ~s.tags[g].awaiting THEN s
    ELSE [s EXCEPT !.tags = [h \in Tags |-> IF h \in FlushesOf(s, g) THEN Free ELSE @[h]],
                   !.tags[g].awaiting = FALSE, !.tags[g].waits = FALSE]
FlushRollback(s, g) == [FlushRetract(s, g) EXCEPT !.tags[g].abandoned = TRUE]

\* apply_rmsg: a walk that succeeds binds its fid, an Rflush frees the victim.
ApplyRmsg(s, f) ==
    CASE f.kind = "walk" /\ ~f.err -> SlotBind(s, f.tag)
      [] f.kind = "flush" /\ s.tags[s.tags[f.tag].old].awaiting -> Clear(s, s.tags[f.tag].old)
      [] OTHER -> s

\* A reply that answers no request in flight is an error of the dispatch.
Fits(s, f) == s.tags[f.tag].kind = f.kind

\* MUTANT: the late reply to a flushed request frees its tag.
DispatchFrees(s, f) == Clear(ApplyRmsg(s, f), f.tag)

\* p9_session_dispatch_rmsg: the reply to a flushed request leaves its tag held.
Dispatch(s, f) ==
    IF s.tags[f.tag].awaiting
    THEN IF f.kind = "walk" /\ s.tags[f.tag].slot /\ ~f.err THEN SlotBind(s, f.tag) ELSE s
    ELSE Clear(ApplyRmsg(s, f), f.tag)

-----------------------------------------------------------------------------
(* Waking: the send list, the role list, the session's death, the handoff. *)

Wake(s, ts) == [s EXCEPT !.woken = @ \cup ts]
Raise(s, t, flag) == [s EXCEPT !.flags[t] = @ \cup {flag}]
Lower(s, t, flag) == [s EXCEPT !.flags[t] = @ \ {flag}]
Has(s, t, fs) == s.flags[t] \cap fs # {}

\* client_send_progress_signal
Signal(s) == Wake(s, s.parked)

Owners(s) == {s.tags[g].op : g \in {h \in OpTags(s) : s.tags[h].owned}}

\* MUTANT: an asynchronous operation stays registered when the session dies.
MarkDeadKeeps(s) ==
    LET own == Owners(s)
    IN  Wake([s EXCEPT !.dead = TRUE,
                       !.flags = [t \in Threads |-> IF t \in own THEN @[t] \cup {"dead"} ELSE @[t]],
                       !.posted = [a \in Asyncs |-> IF a \in own THEN @[a] + 1 ELSE @[a]]],
             (own \cap Threads) \cup s.parked \cup s.hooked)

\* client_mark_dead_locked: asynchronous operations complete, the others wake.
MarkDead(s) ==
    LET own == Owners(s)
    IN  Wake([s EXCEPT !.dead = TRUE,
                       !.flags = [t \in Threads |-> IF t \in own THEN @[t] \cup {"dead"} ELSE @[t]],
                       !.tags = [g \in Tags |-> IF @[g].op \in Asyncs THEN [@[g] EXCEPT !.owned = FALSE]
                                               ELSE @[g]],
                       !.posted = [a \in Asyncs |-> IF a \in own THEN @[a] + 1 ELSE @[a]]],
             (own \cap Threads) \cup s.parked \cup s.hooked)

\* MUTANT: with no waiter to elect, the role list is not told.
HandoffWaiters(s, me) ==
    LET able == {g \in OpTags(s) :
                    /\ s.tags[g].owned
                    /\ s.tags[g].op \in Threads \ {me}
                    /\ ~Has(s, s.tags[g].op, {"done", "dead", "be_reader", "sending", "stop_parked"})}
        next == s.tags[Min(able)].op
    IN  IF able # {} THEN Wake(Raise(s, next, "be_reader"), {next}) ELSE s

\* client_handoff_reader_locked: the first waiter that can take the role.
Handoff(s, me) ==
    LET able == {g \in OpTags(s) :
                    /\ s.tags[g].owned
                    /\ s.tags[g].op \in Threads \ {me}
                    /\ ~Has(s, s.tags[g].op, {"done", "dead", "be_reader", "sending", "stop_parked"})}
        next == s.tags[Min(able)].op
    IN  CASE able # {}             -> Wake(Raise(s, next, "be_reader"), {next})
          [] able = {} /\ ~s.reader -> Wake(s, s.hooked)
          [] OTHER                  -> s

\* MUTANT: a reader leaves without a word to the senders that wait.
DepartSilent(s, me) == Handoff([s EXCEPT !.reader = FALSE], me)

\* The reader leaves: parked senders may read for themselves, a waiter is elected.
Depart(s, me) == Handoff(Signal([s EXCEPT !.reader = FALSE]), me)

\* A designated reader that leaves before it read hands the role on.
PassOn(s, t) ==
    IF Has(s, t, {"be_reader"}) THEN Handoff(Lower(s, t, "be_reader"), t) ELSE s

Unregister(s, op) ==
    LET g == s.tag[op]
    IN  IF s.tags[g].op = op /\ s.tags[g].kind # "flush"
        THEN [s EXCEPT !.tags[g].owned = FALSE] ELSE s

-----------------------------------------------------------------------------
(* The reader's side: one frame goes to its owner, or is drained.          *)

\* client_apply_reply_locked
ApplyReply(s, f, t) ==
    LET u == Unregister(s, t)
        r == IF Has(s, t, {"noted"}) THEN FlushRetract(u, f.tag) ELSE u
    IN  IF Has(s, t, {"flushing"})
        THEN IF Fits(u, f) THEN [ApplyRmsg(u, f) EXCEPT !.tags[f.tag].waits = FALSE]
             ELSE MarkDead(u)
        ELSE IF Fits(r, f) THEN Signal(Dispatch(r, f)) ELSE Signal(MarkDead(r))


\* The fid that a late reply bound goes to the closer (client_orphan_fid_locked).
DispatchLate(s, f) ==
    LET d == Dispatch(s, f)
    IN  [d EXCEPT !.closer = @ \cup (d.bound \ s.bound)]

\* A flush is answered: its victim was cancelled, or had its reply before.
DemuxFlush(s, f) ==
    LET old == s.tags[f.tag].old
        op  == s.tags[old].op
        d   == Dispatch(s, f)
    IN  IF ~s.tags[old].owned THEN d
        ELSE IF op \in Asyncs \/ ~Has(s, op, {"flushing"}) THEN MarkDead(s)
        ELSE Wake(Raise(d, op, "flushed"), {op})

\* demux_frame_locked
Demux(s, f) ==
    LET e == s.tags[f.tag]
    IN  IF e.owned /\ e.op \in Asyncs
        THEN LET u == [s EXCEPT !.tags[f.tag].owned = FALSE, !.posted[e.op] = @ + 1]
             IN  IF Fits(u, f) THEN Dispatch(u, f) ELSE MarkDead(u)
        ELSE IF e.owned
        THEN Wake(Raise(ApplyReply(s, f, e.op), e.op, "done"), {e.op})
        ELSE IF ~Fits(s, f) THEN IF e.abandoned /\ ~e.awaiting THEN MarkDead(s) ELSE s
        ELSE IF e.kind = "flush" THEN DemuxFlush(s, f)
        ELSE IF e.kind # "clunk" /\ (e.awaiting \/ e.abandoned) THEN DispatchLate(s, f)
        ELSE Dispatch(s, f)

-----------------------------------------------------------------------------
(* The caller's side: from taking c->lock to dropping it again.            *)

Dying(t)    == t \in dying \cup latched          \* client_self_dying
Stopping(t) == t \in stopped \ dying             \* client_stop_pending

Return(s, t, v) ==
    [s EXCEPT !.at[t] = "user", !.ret[t] = v, !.flags[t] = {}, !.spill[t] = None,
              !.loop[t] = "wait", !.why[t] = None, !.tag[t] = 0, !.parked = @ \ {t}, !.woken = @ \ {t}]

\* Where a thread drops the lock: in which of the loops, and at what.
Drop(s, t, loop, at) ==
    [s EXCEPT !.at[t] = at, !.loop[t] = loop, !.why[t] = None, !.woken = @ \ {t},
              !.flags[t] = IF at = "stop" THEN @ \cup {"stop_parked"} ELSE @ \ {"stop_parked"},
              !.parked = IF at = "park" THEN @ \cup {t} ELSE @ \ {t},
              !.reader = @ \/ at = "recv"]

\* client_pump_or_park_locked: read one frame for the others, or wait for one.
PumpOrPark(s, t, loop) ==
    IF s.reader THEN Drop(s, t, loop, "park")
    ELSE Drop(Lower(s, t, "be_reader"), t, loop, "recv")

\* The request was not sent: a clunk's fid is bound again and left to the closer.
TakeBack(s, t) ==
    LET g == s.tag[t]
        u == Unregister(s, t)
    IN  IF WireKind(t) = "clunk" /\ ~s.dead
        THEN Return(Signal(Clear([SlotBind(u, g) EXCEPT !.closer = @ \cup {FidOf[t]}], g)), t, "again")
        ELSE Return(Signal(Clear(u, g)), t, "err")

\* The caller leaves a request behind: a clunk stays in flight, others are flushed.
Abandon(s, t) ==
    LET g == s.tag[t]
        u == Unregister(s, t)
        f == StageFlush(u, g)
    IN  IF WireKind(t) = "clunk" THEN Return(u, t, "ok")
        ELSE IF Has(s, t, {"flushing"}) THEN Return([u EXCEPT !.tags[g].waits = FALSE], t, "err")
        ELSE Return(IF ~HasFlushTag(u) THEN [u EXCEPT !.tags[g].abandoned = TRUE]
                    ELSE IF gone THEN MarkDead(f)
                    ELSE IF Len(f.c2s) = RingCap THEN Signal(FlushRollback(f, g))
                    ELSE [f EXCEPT !.c2s = Append(@, f.out)], t, "err")

\* MUTANT: a designated reader does not look whether somebody reads already.
ElectDesignee(s, t) ==
    Drop(Lower(s, t, "be_reader"), t, "wait",
         IF s.reader /\ ~Has(s, t, {"be_reader"}) THEN "sleep" ELSE "recv")

\* The election: read if nobody does, else sleep on the request's own Rendez.
Elect(s, t) ==
    Drop(Lower(s, t, "be_reader"), t, "wait", IF s.reader THEN "sleep" ELSE "recv")

\* client_wait, from the top of its loop.
WaitTop(s0, t) ==
    LET s == Lower(s0, t, "sending")
    IN  CASE Has(s, t, {"done"})    -> Return(s, t, "ok")
          [] ~Has(s, t, {"done"}) /\ Has(s, t, {"flushed"}) -> Return(s, t, "intr")
          [] ~Has(s, t, {"done", "flushed"}) /\ Has(s, t, {"dead"}) -> Return(Unregister(s, t), t, "err")
          [] OTHER ->
             IF Dying(t) THEN Abandon(PassOn(s, t), t)
             ELSE IF Stopping(t) THEN Drop(PassOn(s, t), t, "wait", "stop")
             ELSE Elect(s, t)

\* The end of client_send_flow: the whole frame, or none of it, was sent.
Sent(s, t) ==
    IF s.loop[t] = "fsend" THEN WaitTop(Raise(s, t, "flushing"), t)
    ELSE IF KindOf[t] = "aclunk" THEN Return(s, t, "ok")
    ELSE WaitTop(s, t)

SendNever(s, t) ==
    IF s.loop[t] # "fsend" THEN TakeBack(s, t)
    ELSE WaitTop(IF Has(s, t, {"done"}) THEN s ELSE Signal(FlushRetract(s, s.tag[t])), t)

SendBroken(s, t) ==
    IF s.loop[t] = "fsend" THEN WaitTop(MarkDead(s), t)
    ELSE Return(MarkDead(Unregister(s, t)), t, "err")

\* client_send_flow: the frame is copied out of out_buf before the lock is dropped.
Spill(s, t) == IF s.spill[t] = None THEN [s EXCEPT !.spill[t] = s.out] ELSE s
FrameOf(s, t) == IF s.spill[t] = None THEN s.out ELSE s.spill[t]

SendTop(s, t) ==
    IF Dying(t) \/ s.dead \/ {"noted", "done"} \subseteq s.flags[t] THEN SendNever(s, t)
    ELSE IF Stopping(t) THEN Drop(Spill(s, t), t, s.loop[t], "stop")
    ELSE IF gone THEN SendBroken(s, t)
    ELSE IF Len(s.c2s) < RingCap
    THEN Sent([s EXCEPT !.c2s = Append(@, FrameOf(s, t)), !.spill[t] = None], t)
    ELSE PumpOrPark(Spill(s, t), t, s.loop[t])

\* client_flush_wait: stage a Tflush for the request and wait for either answer.
StageTop(s0, t) ==
    LET s == [s0 EXCEPT !.flags[t] = @ \cup {"noted", "sending"}]
        g == s.tag[t]
    IN  IF Has(s, t, {"done"}) THEN Return(s, t, "ok")
        ELSE IF Has(s, t, {"dead"}) THEN Return(Unregister(s, t), t, "err")
        ELSE IF Dying(t) THEN Abandon(s, t)
        ELSE IF HasFlushTag(s)
        THEN SendTop([StageFlush(s, g) EXCEPT !.tags[g].waits = TRUE, !.loop[t] = "fsend"], t)
        ELSE IF Stopping(t) THEN Drop(s, t, "stage", "stop")
        ELSE PumpOrPark(s, t, "stage")

\* MUTANT: a caught note ends the call, and the request is left to itself.
NoteIntrAtOnce(s, t) == Return(Unregister(s, t), t, "intr")

\* A caught note ended the wait: a clunk is left in flight, others are flushed.
NoteIntr(s, t) == IF WireKind(t) = "clunk" THEN Abandon(s, t) ELSE StageTop(s, t)

\* The build, the registration and the first attempt to send.
Submit(s, t) ==
    IF ~CanBuild(s, t) THEN Return(s, t, "err")
    ELSE SendTop([Build(s, t) EXCEPT !.flags[t] = {"sending"}, !.loop[t] = "send"], t)

\* A clunk that was not built leaves its fid to the closer.
Refuse(s, t) ==
    IF WireKind(t) = "clunk"
    THEN Return([s EXCEPT !.closer = @ \cup {FidOf[t]}], t, "again")
    ELSE Return(s, t, "err")

\* client_drain_until_free_tag
DrainTop(s, t) ==
    IF s.dead THEN Return(s, t, "err")
    ELSE IF Dying(t) THEN Refuse(s, t)
    ELSE IF HasFreeTag(s) THEN Submit(s, t)
    ELSE IF Stopping(t) THEN Drop(s, t, "drain", "stop")
    ELSE PumpOrPark(s, t, "drain")

\* The loop a thread goes back to once it has the lock again.
LoopTop(s, t) ==
    CASE s.loop[t] = "drain" -> DrainTop(s, t)
      [] s.loop[t] = "stage" -> StageTop(s, t)
      [] s.loop[t] \in {"send", "fsend"} -> SendTop(s, t)
      [] OTHER -> WaitTop(s, t)

\* MUTANT: whether a stop ended the recv is asked again of the Proc.
StopUnwoundAsked(s, t) == Stopping(t)

\* stop_unwound: the recv ended for a stop, whether or not it is still there.
StopUnwound(s, t) == s.why[t] = "stop"

\* The elected reader of client_wait, back from its recv with what it brought.
ReaderBack(s, t) ==
    LET why == s.why[t]
        d   == IF why = "frame" THEN Signal(Demux(s, rx)) ELSE s
    IN  CASE why = "frame" ->
                IF Has(d, t, {"done", "dead", "flushed"}) \/ Dying(t)
                THEN WaitTop(Depart(d, t), t) ELSE Drop(d, t, "wait", "recv")
          [] why # "frame" /\ Dying(t) -> WaitTop(Depart(s, t), t)
          [] why # "frame" /\ ~Dying(t) /\ StopUnwound(s, t) -> Drop(Depart(s, t), t, "wait", "stop")
          [] why = "note" /\ ~Dying(t) /\ ~StopUnwound(s, t) ->
                IF Has(s, t, {"dead"}) THEN Return(Unregister(Depart(s, t), t), t, "err")
                ELSE NoteIntr(Depart(s, t), t)
          [] OTHER -> WaitTop(Depart(MarkDead(s), t), t)

\* The same for the one frame a sender or a tag drain reads.
PumpBack(s, t) ==
    LoopTop(Depart(CASE s.why[t] = "frame" -> Demux(s, rx)
                     [] s.why[t] # "frame" /\ (Dying(t) \/ StopUnwound(s, t)) -> s
                     [] OTHER -> MarkDead(s), t), t)

\* Back from the sleep on the request's own Rendez.
SleeperBack(s, t) ==
    IF s.why[t] = "noteintr" /\ ~Has(s, t, {"done", "dead"})
    THEN NoteIntr(PassOn(s, t), t)
    ELSE WaitTop(s, t)

-----------------------------------------------------------------------------
Init ==
    /\ \E mix \in Mixes :
         LET bound == {FidOf[o] : o \in {p \in Ops : mix[p] \notin {"walk", "none"}}}
         IN  /\ c = [tags |-> [g \in Tags |-> Free], tag |-> [o \in Ops |-> 0], kindOf |-> mix,
                     flags |-> [t \in Threads |-> {}], reader |-> FALSE, dead |-> FALSE,
                     bound |-> bound, closer |-> {}, woken |-> {}, parked |-> {}, hooked |-> {},
                     c2s |-> <<>>, out |-> None, spill |-> [t \in Threads |-> None],
                     posted |-> [a \in Asyncs |-> 0], at |-> [t \in Threads |-> "user"],
                     loop |-> [t \in Threads |-> "wait"], why |-> [t \in Threads |-> None],
                     ret |-> [t \in Threads |-> None], async |-> [a \in Asyncs |-> "idle"], pump |-> "top"]
             /\ fids = bound
    /\ rx = None
    /\ s2c = <<>> /\ pend = {} /\ ran = {} /\ gone = FALSE
    /\ dying = {} /\ stopped = {} /\ noted = {} /\ latched = {}

(* A call begins: p9_client_walk, p9_client_read, p9_client_clunk, ...     *)
\* dev9p_close cancels what is out on a fid before it clunks it.
Call(t) ==
    /\ KindOf[t] # "none" /\ c.at[t] = "user" /\ c.ret[t] = None
    /\ WireKind(t) = "clunk" =>
          /\ \A a \in Asyncs : FidOf[a] = FidOf[t] /\ KindOf[a] # "none" => c.async[a] \notin {"idle", "out"}
          /\ \A u \in Threads \ {t} : FidOf[u] = FidOf[t] /\ KindOf[u] # "none" => c.ret[u] # None
    /\ c' = IF c.dead THEN Return(c, t, "err")
            ELSE IF WireKind(t) = "clunk" THEN DrainTop(c, t)
            ELSE IF HasFreeTag(c) THEN Submit(c, t)
            ELSE DrainTop(c, t)
    /\ UNCHANGED <<rx, server, signals>>

\* A session that dies hangs up (p9_transport_hangup), as a server that leaves does.
Closed == gone \/ c.dead

\* The thread is about to take the lock again.
Up(t, why) == c' = [c EXCEPT !.at[t] = "up", !.why[t] = why]

(* The blocking recv, in two reads; what has been read stays with the      *)
(* client when a death, a stop or a note ends the recv between them.       *)
RecvHeader(t) ==
    /\ c.at[t] = "recv" /\ rx = None /\ s2c # <<>>
    /\ rx' = Head(s2c) /\ s2c' = Tail(s2c)
    /\ UNCHANGED <<c, pend, fids, ran, gone, signals>>

RecvBody(t) ==
    /\ c.at[t] = "recv" /\ rx # None
    /\ Up(t, "frame")
    /\ UNCHANGED <<rx, server, signals>>

\* A caught note ends a recv of client_wait, and the sleep, once per call.
Catches(t) == t \in noted /\ c.loop[t] = "wait" /\ ~Has(c, t, {"noted"})

RecvEnds(t) ==
    /\ c.at[t] = "recv"
    /\ rx # None \/ s2c = <<>>
    /\ \/ Closed /\ Up(t, "eof")
       \/ Dying(t) /\ Up(t, "death")
       \/ Stopping(t) /\ Up(t, "stop")
       \/ Catches(t) /\ Up(t, "note")
    /\ UNCHANGED <<rx, server, signals>>

\* rpc_wait_cond
WaitCond(t) == Has(c, t, {"done", "dead", "be_reader", "flushed"})

WakeDue(t) ==
    \/ c.at[t] = "sleep" /\ ((t \in c.woken /\ WaitCond(t)) \/ Dying(t) \/ Stopping(t))
    \/ c.at[t] = "park" /\ (t \in c.woken \/ Dying(t) \/ Stopping(t))
    \/ c.at[t] = "stop" /\ (t \notin stopped \/ t \in dying)

Wakes(t) ==
    /\ WakeDue(t)
    /\ Up(t, "woken")
    /\ UNCHANGED <<rx, server, signals>>

NoteWakes(t) ==
    /\ c.at[t] = "sleep" /\ Catches(t) /\ ~WaitCond(t)
    /\ Up(t, "noteintr")
    /\ UNCHANGED <<rx, server, signals>>

\* The thread has the lock again and runs until it drops it.
Relock(t) ==
    /\ c.at[t] = "up"
    /\ c' = LET s == Lower(c, t, "stop_parked")
            IN  CASE c.why[t] = "woken"    -> LoopTop(s, t)
                  [] c.why[t] = "noteintr" -> SleeperBack(s, t)
                  [] OTHER -> IF c.loop[t] = "wait" THEN ReaderBack(s, t) ELSE PumpBack(s, t)
    /\ rx' = IF c.why[t] = "frame" THEN None ELSE rx
    /\ UNCHANGED <<server, signals>>

-----------------------------------------------------------------------------
(* Asynchronous operations and the thread that reads for them.             *)

Post(s, a) == [s EXCEPT !.posted[a] = @ + 1]

\* p9_client_submit_async: never waits; a shortage completes the operation.
SubmitAsync(a) ==
    /\ KindOf[a] # "none" /\ c.async[a] = "idle"
    /\ LET s == [c EXCEPT !.async[a] = "out"]
           b == Build(s, a)
       IN  c' = IF s.dead \/ ~AsyncRoom(s) \/ ~HasFreeTag(s) \/ ~CanBuild(s, a) THEN Post(s, a)
                ELSE IF gone THEN MarkDead(b)
                ELSE IF Len(b.c2s) = RingCap THEN Post(Signal(Clear(b, b.tag[a])), a)
                ELSE [b EXCEPT !.c2s = Append(@, b.out)]
    /\ UNCHANGED <<rx, server, signals>>

\* p9_client_abandon_async, if the operation is still registered.
AbandonAsync(a) ==
    /\ c.async[a] = "out"
    /\ LET s == [c EXCEPT !.async[a] = "abandoned"]
           g == s.tag[a]
           u == Unregister(s, a)
           f == StageFlush(u, g)
       IN  c' = IF ~(s.tags[g].op = a /\ s.tags[g].owned) THEN s
                ELSE IF s.dead THEN u
                ELSE IF ~HasFlushTag(u) THEN [u EXCEPT !.tags[g].abandoned = TRUE]
                ELSE IF gone THEN MarkDead(f)
                ELSE IF Len(f.c2s) = RingCap THEN Signal(FlushRollback(f, g))
                ELSE [f EXCEPT !.c2s = Append(@, f.out)]
    /\ UNCHANGED <<rx, server, signals>>

\* The owner of the operation sees its completion.
Reap(a) ==
    /\ c.async[a] = "out" /\ c.posted[a] > 0
    /\ c' = [c EXCEPT !.async[a] = "done"]
    /\ UNCHANGED <<rx, server, signals>>

Outstanding == {a \in Asyncs : c.async[a] = "out" /\ c.posted[a] = 0}
Readable == rx # None \/ s2c # <<>> \/ Closed

\* p9_client_reader_pump_ready: takes the role only over a readable stream.
PumpReady ==
    /\ c.pump = "top" /\ Outstanding # {}
    /\ c' = IF c.dead \/ c.reader \/ ~Readable THEN [c EXCEPT !.pump = "hook"]
            ELSE [c EXCEPT !.pump = "pumping", !.reader = TRUE]
    /\ UNCHANGED <<rx, server, signals>>

\* It reads what is there: a frame, part of one, or the end of the stream.
PumpNow ==
    /\ c.pump = "pumping"
    /\ \/ /\ rx # None
          /\ c' = Depart([Demux(c, rx) EXCEPT !.pump = "top"], None)
          /\ rx' = None /\ UNCHANGED s2c
       \/ /\ rx = None /\ s2c # <<>>
          /\ c' = Depart([Demux(c, Head(s2c)) EXCEPT !.pump = "top"], None)
          /\ s2c' = Tail(s2c) /\ UNCHANGED rx
       \/ /\ rx = None /\ s2c # <<>>
          /\ c' = Depart([c EXCEPT !.pump = "hook"], None)
          /\ rx' = Head(s2c) /\ s2c' = Tail(s2c)
       \/ /\ rx # None \/ s2c = <<>>
          /\ Closed
          /\ c' = Depart([MarkDead(c) EXCEPT !.pump = "hook"], None)
          /\ UNCHANGED <<rx, s2c>>
    /\ UNCHANGED <<pend, fids, ran, gone, signals>>

\* p9_client_reader_hook: on the role list if the role is held, else on the
\* stream's; a readable stream and a free role leave nothing to wait for.
PumpHook ==
    /\ c.pump = "hook"
    /\ c' = IF c.reader /\ ~c.dead THEN [c EXCEPT !.pump = "role", !.hooked = {Pumper}]
            ELSE IF Readable /\ ~c.dead THEN [c EXCEPT !.pump = "top"]
            ELSE [c EXCEPT !.pump = "ready"]
    /\ UNCHANGED <<rx, server, signals>>

\* The sleep on the hooks ends: p9_client_reader_unhook.
PumpWakeDue ==
    \/ c.pump = "role" /\ (Pumper \in c.woken \/ Outstanding = {})
    \/ c.pump = "ready" /\ (Readable \/ Outstanding = {})

PumpWakes ==
    /\ PumpWakeDue
    /\ c' = [c EXCEPT !.pump = "top", !.hooked = {}, !.woken = @ \ {Pumper}]
    /\ UNCHANGED <<rx, server, signals>>

-----------------------------------------------------------------------------
(* The server, which keeps to flush(5): after an Rflush there is no reply  *)
(* to the request it names.                                                *)
ServerTakes ==
    /\ c.c2s # <<>> /\ ~Closed /\ Cardinality(pend) < ServerMax
    /\ pend' = pend \cup {Head(c.c2s)}
    /\ c' = [c EXCEPT !.c2s = Tail(@)]
    /\ UNCHANGED <<rx, s2c, fids, ran, gone, signals>>

Reply(q, err) == [kind |-> q.kind, tag |-> q.tag, op |-> q.op, err |-> err]

ServerAnswers(q) ==
    /\ q \in pend /\ ~Closed /\ Len(s2c) < ReplyCap
    /\ IF q.kind = "flush"
       THEN /\ pend' = {p \in pend : p # q /\ p.tag # q.old}
            /\ s2c' = Append(s2c, Reply(q, FALSE))
            /\ UNCHANGED <<fids, ran>>
       ELSE /\ pend' = pend \ {q}
            /\ \E err \in {FALSE, q.kind = "walk"} :
                 /\ s2c' = Append(s2c, Reply(q, err))
                 /\ fids' = CASE q.kind = "walk" /\ ~err -> fids \cup {FidOf[q.op]}
                              [] q.kind = "clunk" -> fids \ {FidOf[q.op]}
                              [] OTHER -> fids
            /\ ran' = ran \cup {q.op}
    /\ UNCHANGED <<c, rx, gone, signals>>

ServerLeaves ==
    /\ KindOf \in Breaking /\ ~gone
    /\ gone' = TRUE /\ pend' = {}
    /\ UNCHANGED <<c, rx, s2c, fids, ran, signals>>

(* What happens to a thread's Proc.                                        *)
InCall(t) == c.at[t] # "user"

Dies(t)   == t \in Mortal \ dying /\ c.ret[t] = None /\ dying' = dying \cup {t} /\ UNCHANGED <<stopped, noted, latched>>
Noted(t)  == t \in Notable \ noted /\ InCall(t) /\ noted' = noted \cup {t} /\ UNCHANGED <<dying, stopped, latched>>
Stops(t)  == t \in Stoppable \ stopped /\ InCall(t) /\ stopped' = stopped \cup {t} /\ UNCHANGED <<dying, noted, latched>>
Goes(t)   == t \in stopped /\ stopped' = stopped \ {t} /\ UNCHANGED <<dying, noted, latched>>

SignalStep == /\ \E t \in Threads : Dies(t) \/ Noted(t) \/ Stops(t) \/ Goes(t)
              /\ UNCHANGED <<c, rx, server>>

\* A terminate-class note latches the Proc, and another thread of it that
\* registers a handler revokes the latch (notes_set_handler).
Latch(t)   == t \in Latched \ latched /\ InCall(t) /\ latched' = latched \cup {t}
Unlatch(t) == t \in latched /\ latched' = latched \ {t}
LatchStep  == (\E t \in Threads : Latch(t) \/ Unlatch(t)) /\ UNCHANGED <<c, rx, server, dying, stopped, noted>>

ThreadStep(t) ==
    RecvHeader(t) \/ RecvBody(t) \/ RecvEnds(t) \/ Wakes(t) \/ NoteWakes(t) \/ Relock(t)

PumpStep == PumpReady \/ PumpNow \/ PumpHook \/ PumpWakes

ServerStep == ServerTakes \/ \E q \in pend : ServerAnswers(q)

Next ==
    \/ \E t \in Threads : Call(t) \/ ThreadStep(t)
    \/ \E a \in Asyncs : SubmitAsync(a) \/ AbandonAsync(a) \/ Reap(a)
    \/ PumpStep
    \/ ServerStep
    \/ ServerLeaves
    \/ SignalStep

Spec == Init /\ [][Next]_vars
LatchSpec == Init /\ [][Next \/ LatchStep]_vars

\* Whose turn it is: a thread, or the pumper, that has something to do.
ThreadDue(t) ==
    \/ c.at[t] = "recv" /\ (Readable \/ Dying(t) \/ Stopping(t) \/ Catches(t))
    \/ c.at[t] = "sleep" /\ Catches(t)
    \/ c.at[t] = "up"
    \/ WakeDue(t)

PumpDue ==
    \/ c.pump = "top" /\ Outstanding # {}
    \/ c.pump = "pumping" /\ Readable
    \/ c.pump = "hook"
    \/ PumpWakeDue

ClientFair ==
    /\ \A t \in Threads : []<>~ThreadDue(t) \/ []<><<ThreadStep(t)>>_vars
    /\ []<>~PumpDue \/ []<><<PumpStep>>_vars
    /\ WF_vars(ServerTakes)

\* A server that answers every request it has taken.
FairSpec == Spec /\ ClientFair /\ WF_vars(\E q \in pend : ServerAnswers(q))

-----------------------------------------------------------------------------
(* Properties.                                                             *)

Frames == Range(c.c2s) \cup pend
Replies == Range(s2c) \cup (IF rx = None THEN {} ELSE {rx})

TypeOK ==
    /\ c.tags \in [Tags -> [kind : {"free", "walk", "read", "clunk", "flush"}, op : Ops \cup {None},
                            owned : BOOLEAN, awaiting : BOOLEAN, waits : BOOLEAN, abandoned : BOOLEAN,
                            old : Tags \cup {None}, slot : BOOLEAN]]
    /\ c.flags \in [Threads -> SUBSET Flags]
    /\ c.at \in [Threads -> {"user", "recv", "sleep", "park", "stop", "up"}]
    /\ c.parked = {t \in Threads : c.at[t] = "park"} \cup {t \in c.parked : c.at[t] = "up"}
    /\ Len(c.c2s) <= RingCap /\ Len(s2c) <= ReplyCap /\ Cardinality(pend) <= ServerMax

\* I-10: a tag on the wire names the operation it was taken for, until the last
\* message that could carry it has been read; a Tflush names its victim.
TagNamesOneOp ==
    ~Closed =>
        /\ \A q \in Frames \cup Replies : c.tags[q.tag].kind = q.kind /\ c.tags[q.tag].op = q.op
        /\ \A q \in Frames : q.kind = "flush" =>
              c.tags[q.old].kind \notin {"free", "flush"} /\ c.tags[q.old].op = q.op

Reading(t) == c.at[t] = "recv" \/ (c.at[t] = "up" /\ c.why[t] \in {"frame", "eof", "death", "stop", "note"})
ReadersNow == {t \in Threads : Reading(t)} \cup (IF c.pump = "pumping" THEN {Pumper} ELSE {})

\* The stream has one reader at a time, and reader_active says whether it has
\* one: two would tear a frame apart, a stale flag would leave nobody to read.
\* (With the types.)
OneReader ==
    /\ TypeOK
    /\ Cardinality(ReadersNow) <= 1
    /\ c.reader <=> ReadersNow # {}

InFlight(op, kind) == \E q \in Frames \cup Replies : q.op = op /\ q.kind = kind


\* flush(5): a call that returns -P9_E_INTR has had no effect at the server,
\* and will have none, so that its caller may make it again.
IntrMeansNotRun == \A t \in Threads : c.ret[t] = "intr" => t \notin ran

\* An asynchronous operation completes once, and never after it was abandoned:
\* its owner frees it then.
CompletedOnce ==
    [][\A a \in Asyncs : c'.posted[a] # c.posted[a] =>
          c'.posted[a] = 1 /\ c.async[a] # "abandoned"]_vars

\* The session, which other Procs share, dies only with its server: not when a
\* thread of one is killed, stopped, resumed or interrupted.
SessionDiesForCause == c.dead => gone

\* A Proc is not stopped and resumed for ever.
StopsSettle == \A t \in Stoppable : <>[](t \in stopped) \/ <>[](t \notin stopped)

\* Every call returns, unless its Proc is stopped: there is always somebody
\* to read its reply, and a full ring, a full tag table, a stopped or a dying
\* neighbour and a lost server do not keep it.
CallsEnd == StopsSettle => \A t \in Threads : InCall(t) ~> ~InCall(t) \/ t \in stopped

\* The reply to an asynchronous operation, or the loss of its server, reaches
\* its owner, though no thread of its own reads it.
AsyncsDelivered ==
    StopsSettle =>
        \A a \in Asyncs :
            (gone \/ \E q \in Replies : q.op = a /\ q.kind # "flush") /\ c.async[a] = "out"
                ~> c.posted[a] > 0 \/ c.async[a] # "out"

=============================================================================
