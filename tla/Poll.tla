-------------------------------- MODULE Poll --------------------------------
(***************************************************************************)
(* One call of SYS_POLL (kernel/poll.c, sys_poll_for_proc_spoors) over     *)
(* local fds, which register a hook and are sampled in one hold of their   *)
(* object's lock, and remote fds, whose readiness a server is asked for: a *)
(* snapshot per pass, and an arm (kernel/dev9p_poll.c) before the park.    *)
(* Around it: producers and competing readers, list walks, the server and  *)
(* the pump kthread, a sibling thread closing fds, the clock, and the      *)
(* poller's own death, stop and caught note.                               *)
(*                                                                         *)
(* tsleep() is the wait of module Rendez, which loses no wakeup: here it   *)
(* is a step that waits for its condition.                                 *)
(***************************************************************************)
EXTENDS Naturals, FiniteSets

CONSTANTS
    NFds,       \* nfds
    Remotes,    \* which of the fds may be remote
    Timeouts,   \* "zero", "finite", "never"
    Closable,   \* the fds a sibling thread may close
    Mortal,     \* whether the poller's group may die
    Notable,    \* whether a caught note may reach the poller
    Stoppable   \* whether the poller's Proc may be stopped

Fds   == 1..NFds

ASSUME PollAssumption ==
    /\ NFds \in Nat \ {0} /\ Remotes \subseteq SUBSET Fds /\ Closable \subseteq Fds
    /\ Timeouts \subseteq {"zero", "finite", "never"}
    /\ {Mortal, Notable, Stoppable} \subseteq BOOLEAN

VARIABLES
    remote,     \* the fds whose Dev has .poll_snapshot and whose file is QTPOLL
    \* the call
    pc, i, timeout, rc,
    past,       \* this pass began past the deadline
    revents,    \* the fds reported ready
    retry,      \* the park is bounded by the arm-retry timer
    \* waiters[], held[] and snaps[] of its frame
    hooked, flag, held,
    snap,       \* each slot's state
    op,         \* the slots that hold a request
    answer,     \* what the server answered
    \* the world
    lapsed,     \* the call's deadline has passed
    limit,      \* the bound of this settle has passed
    dying, note, stop,
    open,       \* the fds still in the handle table
    level,      \* the fds ready for what the call asks about
    due,        \* the lists a walk is due on
    wire,       \* the snapshots at their server
    armed,      \* the arms at their server
    \* history: the fds ready ever since this pass began
    steady

callVars  == <<i, timeout, rc, past, revents, retry>>
frameVars == <<hooked, flag, held, snap, op, answer>>
envVars   == <<lapsed, limit, dying, note, stop, open, level, due>>
wireVars  == <<wire, armed>>
vars == <<remote, pc, callVars, frameVars, envVars, wireVars, steady>>

Local == Fds \ remote

Init ==
    /\ remote \in Remotes
    /\ pc = "user" /\ i = 1 /\ timeout = "zero" /\ rc = "none" /\ past = FALSE
    /\ revents = {} /\ retry = FALSE
    /\ hooked = {} /\ flag = {} /\ held = {}
    /\ snap = [f \in Fds |-> "none"] /\ op = {} /\ answer = {}
    /\ lapsed = FALSE /\ limit = FALSE
    /\ dying = FALSE /\ note = FALSE /\ stop = FALSE
    /\ open = Fds /\ level = {} /\ due = {} /\ wire = {} /\ armed = {}
    /\ steady = {}

-----------------------------------------------------------------------------
(* SCAN: poll_scan_one and dev9p_poll_snapshot                             *)

\* The head of the loop: a pass begins, and reads the clock.
BeginPass(expired) ==
    /\ pc' = "scan" /\ i' = 1
    /\ past' = expired
    /\ steady' = level

Call ==
    /\ pc = "user" /\ ~dying
    /\ \E to \in Timeouts :
          timeout' = to /\ lapsed' = (to = "zero") /\ BeginPass(to = "zero")
    /\ rc' = "none" /\ revents' = {} /\ retry' = FALSE /\ limit' = FALSE
    /\ snap' = [f \in Fds |-> "none"] /\ answer' = {}
    /\ UNCHANGED <<remote, hooked, flag, held, op, dying, note, stop, open, level, due, wireVars>>

\* The next fd, or with the last one scanned the settle or the verdict.
NextFd(asked) ==
    IF i < NFds THEN pc' = "scan" /\ i' = i + 1
    ELSE pc' = (IF asked # {} THEN "settle" ELSE "collect") /\ i' = 1

Asked == {f \in Fds : snap[f] # "none"}
scanRest == <<timeout, rc, past, retry, envVars, armed, steady>>

\* MUTANT: the local sample is taken and the hook left out.
ScanLocalUnhooked ==
    /\ pc = "scan" /\ i \in Local
    /\ revents' = IF i \notin open \/ i \in level THEN revents \cup {i} ELSE revents \ {i}
    /\ held' = IF i \in open /\ ~past THEN held \cup {i} ELSE held
    /\ snap' = [snap EXCEPT ![i] = "none"] /\ answer' = answer \ {i}
    /\ NextFd(Asked \ {i})
    /\ UNCHANGED <<hooked, flag, op, wire, scanRest>>

\* dev->poll: hook and sample in one hold. A closed fd reads POLLNVAL. The
\* object's reference is kept while the hook is on its list.
ScanLocal ==
    /\ pc = "scan" /\ i \in Local
    /\ revents' = IF i \notin open \/ i \in level THEN revents \cup {i} ELSE revents \ {i}
    /\ hooked' = IF i \in open /\ ~past THEN hooked \cup {i} ELSE hooked
    /\ held' = IF i \in open /\ ~past THEN held \cup {i} ELSE held
    /\ snap' = [snap EXCEPT ![i] = "none"] /\ answer' = answer \ {i}
    /\ NextFd(Asked \ {i})
    /\ UNCHANGED <<flag, op, wire, scanRest>>

ScanClosed ==
    /\ pc = "scan" /\ i \in remote \ open
    /\ revents' = revents \cup {i}
    /\ snap' = [snap EXCEPT ![i] = "none"] /\ answer' = answer \ {i}
    /\ NextFd(Asked \ {i})
    /\ UNCHANGED <<hooked, flag, held, op, wire, scanRest>>

\* A remote fd: the slot is marked SENT, or, for want of memory, waits UNSENT.
\* No hook; the reference is kept.
ScanRemote ==
    /\ pc = "scan" /\ i \in remote \cap open
    /\ held' = held \cup {i} /\ revents' = revents \ {i} /\ answer' = answer \ {i}
    /\ \/ /\ op' = op \cup {i} /\ snap' = [snap EXCEPT ![i] = "sent"]
          /\ pc' = "submit" /\ UNCHANGED i
       \/ /\ snap' = [snap EXCEPT ![i] = "unsent"]
          /\ NextFd(Asked \cup {i}) /\ UNCHANGED op
    /\ UNCHANGED <<hooked, flag, wire, scanRest>>

\* The submit: on the wire, or a shortage, which is not an answer.
Submit ==
    /\ pc = "submit"
    /\ \/ wire' = wire \cup {i} /\ UNCHANGED snap
       \/ snap' = [snap EXCEPT ![i] = "unsent"] /\ UNCHANGED wire
    /\ NextFd(Asked)
    /\ UNCHANGED <<revents, hooked, flag, held, op, answer, scanRest>>

-----------------------------------------------------------------------------
(* SETTLE: poll_settle                                                     *)

Outstanding == {f \in Fds : snap[f] \in {"sent", "unsent"}}
settleRest == <<i, timeout, past, revents, retry, hooked, flag, held, lapsed, dying, note, stop,
                open, level, due, armed, steady>>

\* MUTANT: the call's own deadline ends the settle.
SettlePassCut ==
    /\ pc = "settle" /\ Outstanding # {} /\ (limit \/ lapsed)
    /\ op' = op \ Outstanding /\ wire' = wire \ Outstanding
    /\ snap' = [f \in Fds |-> IF f \in Outstanding THEN "none" ELSE snap[f]]
    /\ pc' = "collect"
    /\ UNCHANGED <<rc, answer, limit, settleRest>>

\* Past the bound: what is still out is released and reported not ready.
SettleExpire ==
    /\ pc = "settle" /\ Outstanding # {} /\ limit
    /\ op' = op \ Outstanding /\ wire' = wire \ Outstanding
    /\ snap' = [f \in Fds |-> IF f \in Outstanding THEN "expired" ELSE snap[f]]
    /\ pc' = "collect"
    /\ UNCHANGED <<rc, answer, limit, settleRest>>

\* MUTANT: a resend that met a shortage counts as sent.
SettleWaitAssumes ==
    /\ pc = "settle" /\ Outstanding # {} /\ ~limit
    /\ \E again \in SUBSET {f \in Fds : snap[f] = "unsent"} :
          snap' = [f \in Fds |-> IF f \in again THEN "sent" ELSE snap[f]]
    /\ pc' = "settling"
    /\ UNCHANGED <<rc, op, wire, answer, limit, settleRest>>

\* Before it: some of the unsent are sent again, and the call waits.
SettleWait ==
    /\ pc = "settle" /\ Outstanding # {} /\ ~limit
    /\ \E again \in SUBSET {f \in Fds : snap[f] = "unsent"} :
          /\ op' = op \cup again /\ wire' = wire \cup again
          /\ snap' = [f \in Fds |-> IF f \in again THEN "sent" ELSE snap[f]]
    /\ pc' = "settling"
    /\ UNCHANGED <<rc, answer, limit, settleRest>>

SettleDone ==
    /\ pc = "settle" /\ Outstanding = {}
    /\ pc' = "collect"
    /\ UNCHANGED <<rc, limit, op, wire, snap, answer, settleRest>>

\* tsleep over poll_cond_settled: settled, the bound, the resend timer, a stop
\* to sit out, or a death.
SettleWake ==
    /\ \/ pc = "settling" /\ rc' = rc
          /\ \/ (Outstanding = {} \/ limit \/ \E f \in Fds : snap[f] = "unsent") /\ pc' = "settle"
             \/ Outstanding # {} /\ stop /\ ~dying /\ pc' = "settle stop"
       \/ pc = "settle stop" /\ ~stop /\ pc' = "settling" /\ rc' = rc
       \/ pc \in {"settling", "settle stop"} /\ dying /\ pc' = "sweep" /\ rc' = "dead"
    /\ UNCHANGED <<limit, op, wire, snap, answer, settleRest>>

-----------------------------------------------------------------------------
(* COLLECT and VERDICT                                                     *)

\* poll_collect: release every request, then read the answers.
Collect ==
    /\ pc = "collect"
    /\ op' = {} /\ wire' = wire \ op
    /\ revents' = {f \in Fds : IF snap[f] = "none" THEN f \in revents
                               ELSE snap[f] = "answered" /\ f \in answer}
    /\ pc' = "verdict"
    /\ UNCHANGED <<i, timeout, rc, past, retry, hooked, flag, held, snap, answer, envVars, armed, steady>>

verdictRest == <<i, timeout, past, revents, frameVars, envVars, wireVars, steady>>

\* MUTANT: a caught note is left to tsleep.
VerdictNoNote ==
    /\ pc = "verdict"
    /\ \/ revents # {} /\ rc' = "ready" /\ pc' = "sweep"
       \/ revents = {} /\ lapsed /\ rc' = "zero" /\ pc' = "sweep"
       \/ revents = {} /\ ~lapsed /\ rc' = rc /\ pc' = "arm"
    /\ retry' = FALSE
    /\ UNCHANGED verdictRest

\* Ready, then a caught note, then the deadline, read off the clock now.
Verdict ==
    /\ pc = "verdict"
    /\ \/ revents # {} /\ rc' = "ready" /\ pc' = "sweep"
       \/ revents = {} /\ note /\ rc' = "eintr" /\ pc' = "sweep"
       \/ revents = {} /\ ~note /\ lapsed /\ rc' = "zero" /\ pc' = "sweep"
       \/ revents = {} /\ ~note /\ ~lapsed /\ rc' = rc /\ pc' = "arm"
    /\ retry' = FALSE
    /\ UNCHANGED verdictRest

-----------------------------------------------------------------------------
(* ARM and PARK                                                            *)

armRest == <<timeout, rc, past, revents, flag, held, snap, op, answer, envVars, wire, steady>>

\* The hook goes on the list first; without memory for the list, none does.
ArmHook ==
    /\ pc = "arm" /\ i \in Asked
    /\ \/ hooked' = hooked \cup {i} /\ pc' = "arm send" /\ UNCHANGED <<i, retry>>
       \/ retry' = TRUE /\ i' = i + 1 /\ UNCHANGED <<pc, hooked>>
    /\ UNCHANGED <<armed, armRest>>

ArmSkip ==
    /\ pc = "arm" /\ i \in Fds \ Asked
    /\ i' = i + 1
    /\ UNCHANGED <<pc, retry, hooked, armed, armRest>>

\* MUTANT: an arm that could not go out does not bound the park.
ArmSendNoRetry ==
    /\ pc = "arm send"
    /\ \/ armed' = armed \cup {i} /\ UNCHANGED retry
       \/ i \notin armed /\ UNCHANGED <<armed, retry>>
    /\ pc' = "arm" /\ i' = i + 1
    /\ UNCHANGED <<hooked, armRest>>

\* Then the arm: one already out serves, a new one goes out, or a shortage
\* leaves the fd uncovered and the park bounded.
ArmSend ==
    /\ pc = "arm send"
    /\ \/ armed' = armed \cup {i} /\ UNCHANGED retry
       \/ i \notin armed /\ retry' = TRUE /\ UNCHANGED armed
    /\ pc' = "arm" /\ i' = i + 1
    /\ UNCHANGED <<hooked, armRest>>

Park ==
    /\ pc = "arm" /\ i = NFds + 1
    /\ pc' = "parked" /\ i' = 1
    /\ UNCHANGED <<retry, hooked, armed, armRest>>

parkRest == <<i, timeout, past, revents, retry, frameVars, envVars, wireVars, steady>>

\* tsleep_noteintr over poll_cond_any_flagged: a flag, the deadline or the
\* retry timer; a note or a stop on a wait still open; a death.
Unpark ==
    /\ \/ /\ pc = "parked" /\ (flag # {} \/ lapsed \/ retry)
          /\ pc' = "unhook" /\ rc' = rc
       \/ pc = "parked" /\ flag = {} /\ note /\ pc' = "sweep" /\ rc' = "eintr"
       \/ pc = "parked" /\ flag = {} /\ stop /\ ~dying /\ pc' = "park stop" /\ rc' = rc
       \/ pc = "park stop" /\ ~stop /\ pc' = "parked" /\ rc' = rc
       \/ pc \in {"parked", "park stop"} /\ dying /\ pc' = "sweep" /\ rc' = "dead"
    /\ UNCHANGED parkRest

-----------------------------------------------------------------------------
(* poll_unhook_all, the loop's own checks and the return sweep             *)

\* MUTANT: the references are dropped with the hooks still listed.
UnhookPutsFirst ==
    /\ pc = "unhook"
    /\ held' = {} /\ pc' = "put"
    /\ UNCHANGED <<callVars, flag, hooked, snap, op, answer, envVars, wireVars, steady>>

\* Every hook off its list ...
Unhook ==
    /\ pc = "unhook"
    /\ hooked' = {} /\ pc' = "put"
    /\ UNCHANGED <<callVars, flag, held, snap, op, answer, envVars, wireVars, steady>>

\* ... then every reference dropped and every flag cleared; then the next pass
\* or, from the return sweep, the caller.
Put ==
    /\ pc = "put"
    /\ held' = {} /\ hooked' = {} /\ flag' = {}
    /\ pc' = IF rc = "none" THEN "check" ELSE "user"
    /\ UNCHANGED <<callVars, snap, op, answer, envVars, wireVars, steady>>

\* thread_die_pending and the stop park, with no hook listed; then the next pass.
Check ==
    /\ \/ pc \in {"check", "stopped"} /\ dying /\ pc' = "sweep" /\ rc' = "dead" /\ UNCHANGED <<i, past, steady>>
       \/ pc = "check" /\ ~dying /\ stop /\ pc' = "stopped" /\ rc' = rc /\ UNCHANGED <<i, past, steady>>
       \/ pc \in {"check", "stopped"} /\ ~dying /\ ~stop /\ BeginPass(lapsed) /\ rc' = rc
    /\ limit' = FALSE
    /\ UNCHANGED <<timeout, revents, retry, frameVars, lapsed, dying, note, stop, open, level, due, wireVars>>

\* The sweep of every exit: snapshots released first.
Sweep ==
    /\ pc = "sweep"
    /\ op' = {} /\ wire' = wire \ op
    /\ pc' = "unhook"
    /\ UNCHANGED <<callVars, hooked, flag, held, snap, answer, envVars, armed, steady>>

-----------------------------------------------------------------------------
(* The world                                                               *)

worldRest == <<remote, pc, callVars, hooked, held, op>>

\* Readiness rises; on a local object a walk of its list follows.
Produce(f) ==
    /\ f \notin level
    /\ level' = level \cup {f}
    /\ due' = IF f \in Local THEN due \cup {f} ELSE due
    /\ UNCHANGED <<worldRest, flag, snap, answer, lapsed, limit, dying, note, stop, open, wireVars, steady>>

\* A competing reader drains it.
Consume(f) ==
    /\ f \in level
    /\ level' = level \ {f} /\ steady' = steady \ {f}
    /\ UNCHANGED <<worldRest, flag, snap, answer, lapsed, limit, dying, note, stop, open, due, wireVars>>

\* An event nobody here asked about walks the same list; at a server it ends
\* the arm that other pollers' events had widened.
Other(f) ==
    /\ f \in Local \cup armed
    /\ due' = due \cup {f} /\ armed' = armed \ {f}
    /\ UNCHANGED <<worldRest, flag, snap, answer, lapsed, limit, dying, note, stop, open, level, wire, steady>>

\* poll_waiter_list_wake: the hook on the list is flagged, and the poller woken.
Walk(f) ==
    /\ f \in due
    /\ due' = due \ {f}
    /\ flag' = flag \cup ({f} \cap hooked)
    /\ UNCHANGED <<worldRest, snap, answer, lapsed, limit, dying, note, stop, open, level, wireVars, steady>>

\* The server's reply to a snapshot: the level now (dev9p_poll_snap_complete).
SnapReply(f) ==
    /\ f \in wire
    /\ wire' = wire \ {f}
    /\ snap' = [snap EXCEPT ![f] = "answered"]
    /\ answer' = IF f \in level THEN answer \cup {f} ELSE answer \ {f}
    /\ UNCHANGED <<worldRest, flag, envVars, armed, steady>>

\* The arm's answer is a wake: the pump's walk follows (dev9p_poll_arm_complete).
ArmReply(f) ==
    /\ f \in armed \cap level
    /\ armed' = armed \ {f} /\ due' = due \cup {f}
    /\ UNCHANGED <<worldRest, flag, snap, answer, lapsed, limit, dying, note, stop, open, level, wire, steady>>

\* The pump collects an arm with no hook on its list.
GcArm(f) ==
    /\ f \in armed \ hooked
    /\ armed' = armed \ {f}
    /\ UNCHANGED <<worldRest, flag, snap, answer, envVars, wire, steady>>

Close(f) ==
    /\ f \in Closable \cap open
    /\ open' = open \ {f}
    /\ UNCHANGED <<worldRest, flag, snap, answer, lapsed, limit, dying, note, stop, level, due, wireVars, steady>>

\* The clock passes the deadline, or the settle's bound.
Clock ==
    /\ \/ timeout = "finite" /\ pc # "user" /\ ~lapsed /\ lapsed' = TRUE /\ UNCHANGED limit
       \/ pc \in {"settle", "settling", "settle stop"} /\ ~limit /\ limit' = TRUE /\ UNCHANGED lapsed
    /\ UNCHANGED <<worldRest, flag, snap, answer, dying, note, stop, open, level, due, wireVars, steady>>

\* Death, a caught note and the handler that consumes it, stop and resume.
Control ==
    /\ \/ Mortal /\ ~dying /\ dying' = TRUE /\ UNCHANGED <<note, stop>>
       \/ Notable /\ ~note /\ note' = TRUE /\ UNCHANGED <<dying, stop>>
       \/ pc = "user" /\ note /\ note' = FALSE /\ UNCHANGED <<dying, stop>>
       \/ Stoppable /\ stop' = ~stop /\ UNCHANGED <<dying, note>>
    /\ UNCHANGED <<worldRest, flag, snap, answer, lapsed, limit, open, level, due, wireVars, steady>>

-----------------------------------------------------------------------------
PollStep ==
    /\ \/ ScanLocal \/ ScanClosed \/ ScanRemote \/ Submit
       \/ SettleExpire \/ SettleWait \/ SettleDone \/ SettleWake
       \/ Collect \/ Verdict
       \/ ArmHook \/ ArmSkip \/ ArmSend \/ Park \/ Unpark
       \/ Unhook \/ Put \/ Check \/ Sweep
    /\ UNCHANGED remote

Next ==
    \/ Call \/ PollStep \/ Clock \/ Control
    \/ \E f \in Fds : Produce(f) \/ Consume(f) \/ Other(f) \/ Walk(f) \/ Close(f)
    \/ \E f \in remote : SnapReply(f) \/ ArmReply(f) \/ GcArm(f)

Spec == Init /\ [][Next]_vars

\* The poller runs when it can, walks and the clock go on. Nothing is owed by
\* the server, the producers or whoever stopped the Proc.
FairSpec ==
    /\ Spec /\ WF_vars(PollStep) /\ WF_vars(Clock)
    /\ \A f \in Fds : WF_vars(Walk(f))

-----------------------------------------------------------------------------
(* Properties                                                              *)

\* Every variable has its type, and the scan stays inside its arrays.
TypeOK ==
    /\ pc \in {"user", "scan", "submit", "settle", "settling", "settle stop", "collect", "verdict",
               "arm", "arm send", "parked", "park stop", "unhook", "put", "check", "stopped", "sweep"}
    /\ i \in 1..NFds + 1 /\ (pc \in {"scan", "submit"} => i \in Fds)
    /\ rc \in {"none", "ready", "eintr", "zero", "dead"}
    /\ snap \in [Fds -> {"none", "unsent", "sent", "answered", "expired"}]
    /\ op \subseteq remote /\ wire \subseteq remote /\ armed \subseteq remote
    /\ flag \subseteq Fds /\ hooked \subseteq Fds /\ held \subseteq Fds

\* A hook on an object's list, and a request at its server, keep the object's
\* reference, so that no sibling's close frees the list or overtakes the read;
\* and neither survives the call, whose stack they live on. (With the types.)
NothingOutlives ==
    /\ TypeOK
    /\ hooked \subseteq held /\ wire \subseteq op /\ op \subseteq held
    /\ pc = "user" => held = {}

\* A snapshot marked SENT is at its server once the scan went on: its answer
\* cannot have been overwritten.
NoLostAnswer ==
    \A f \in Fds : snap[f] = "sent" /\ pc \in {"settle", "settling", "settle stop"} => f \in wire

\* A parked call whose fd is ready has a flag, a walk coming, an arm at the
\* server, or a timer that ends the park.
NoMissedReady ==
    pc = "parked" /\ level # {} =>
        \/ flag # {} \/ retry \/ lapsed
        \/ \A f \in level : f \in due \cup armed

\* 0 is returned only at the deadline, and over no fd that was ready from the
\* start of the last pass to its verdict unless its server let the bound pass.
ZeroIsTrue ==
    [][pc = "verdict" /\ rc' = "zero" =>
          lapsed /\ \A f \in steady : snap[f] = "expired"]_vars

\* Death ends the call, whatever keeps the hooks flagged and the servers silent.
DeathEnds == dying /\ pc # "user" ~> pc = "user"

\* So does the deadline, unless the Proc is stopped.
DeadlineEnds == lapsed /\ pc # "user" ~> pc = "user" \/ stop

\* A stop is honoured: the call parks, or returns to the EL0 tail that does.
StopHonoured == stop /\ pc # "user" ~> ~stop \/ pc \in {"user", "stopped", "settle stop", "park stop"}

\* A local fd that stays ready ends the call.
ReadyEnds ==
    \A f \in Fds : f \in Local \cap level /\ pc # "user" ~> pc = "user" \/ f \notin level \/ stop

\* A caught note ends the call.
NoteEnds == note /\ pc # "user" ~> pc = "user" \/ ~note \/ stop

\* A call over silent servers ends: by a death, its deadline and a note, and it
\* is no hiding place from a stop.
CallEnds == DeathEnds /\ DeadlineEnds /\ NoteEnds /\ StopHonoured

=============================================================================
