-------------------------------- MODULE Pipe --------------------------------
(***************************************************************************)
(* The pipe of kernel/pipe.c: any number of readers and writers on one     *)
(* ring, each blocking through a private hook on the ring's poll_list      *)
(* (kernel/poll.c), with both ends closing, a hangup of the write end,     *)
(* group death and caught notes.                                           *)
(*                                                                         *)
(* What happens in one hold of the ring's lock is one step: the ring and   *)
(* its EOF flags change nowhere else.  The list walk that follows happens  *)
(* outside it, hook by hook, under the list's own lock.  sleep_noteintr()  *)
(* and wakeup() behave as in module Rendez.                                *)
(***************************************************************************)
EXTENDS Naturals, Sequences, FiniteSets

CONSTANTS
    Readers, Writers,
    ReadEnd, WriteEnd, \* whoever drops the last reference to that end
    Hangup,            \* the caller of pipe_hangup_write
    Capacity,          \* PIPE_BUF_SIZE
    Sizes,             \* the byte counts writers write
    ReadSizes,         \* the byte counts readers ask for
    Modes,             \* "block", "nonblock" (CNONBLOCK, pipe_read_now), "frame" (CNBFRAME)
    Mortal,            \* the threads whose group may die or that may get a note
    MaxCalls,          \* calls per thread; 0 for any number
    Traced,            \* whether bytes and outcomes are told apart
    None

Threads == Readers \cup Writers
Closers == {ReadEnd, WriteEnd, Hangup}
Actors  == Threads \cup Closers

ASSUME PipeAssumption ==
    /\ Capacity \in Nat \ {0}
    /\ Sizes \subseteq Nat \ {0} /\ ReadSizes \subseteq Nat \ {0}
    /\ Modes \subseteq {"block", "nonblock", "frame"}
    /\ Readers \cap Writers = {} /\ Threads \cap Closers = {} /\ None \notin Actors
    /\ ReadEnd # WriteEnd /\ Hangup \notin {ReadEnd, WriteEnd}
    /\ Mortal \subseteq Threads
    /\ MaxCalls \in Nat /\ Traced \in BOOLEAN

VARIABLES
    \* struct pipe_ring
    buf, count, head, tail, read_eof, write_eof, ref, freed,
    \* the poll_list
    hooks, list_lock,
    \* per thread
    pc, n, mode, calls,
    ready,      \* its hook's ready flag
    dying, note,
    \* per walker: the hooks it has yet to visit
    todo,
    \* the outcome of the last operation to take effect
    last

ringVars == <<buf, count, head, tail>>
vars == <<ringVars, read_eof, write_eof, ref, freed, hooks, list_lock,
          pc, n, mode, calls, ready, dying, note, todo, last>>

\* The bytes of a write, told apart by writer and position.
Blank == <<None, 0>>
Message(w, len) == [i \in 1..len |-> IF Traced THEN <<w, i>> ELSE Blank]
Outcome(o) == IF Traced THEN o ELSE last

Init ==
    /\ buf = [i \in 0..Capacity - 1 |-> Blank] /\ count = 0 /\ head = 0 /\ tail = 0
    /\ read_eof = FALSE /\ write_eof = FALSE /\ ref = 2 /\ freed = FALSE
    /\ hooks = {} /\ list_lock = None
    /\ pc = [x \in Actors |-> "user"]
    /\ n = [t \in Threads |-> 0] /\ mode = [t \in Threads |-> "block"]
    /\ calls = [t \in Threads |-> 0]
    /\ ready = [t \in Threads |-> FALSE]
    /\ dying = [t \in Threads |-> FALSE]
    /\ note = [t \in Threads |-> FALSE]
    /\ todo = [x \in Actors |-> {}]
    /\ last = <<"none">>

-----------------------------------------------------------------------------
(* The ring                                                                *)

Smaller(a, b) == IF a < b THEN a ELSE b

\* ring_write and ring_read: k bytes at the head, or from the tail, with wrap.
RingWrite(bytes, k) ==
    /\ buf' = [j \in 0..Capacity - 1 |->
                  LET i == (j + Capacity - head) % Capacity IN IF i < k THEN bytes[i + 1] ELSE buf[j]]
    /\ head' = (head + k) % Capacity
    /\ count' = count + k
    /\ UNCHANGED tail

RingRead(k) ==
    /\ tail' = (tail + k) % Capacity
    /\ count' = count - k
    /\ UNCHANGED <<buf, head>>

Front(k) == [i \in 1..k |-> buf[(tail + i - 1) % Capacity]]

-----------------------------------------------------------------------------
(* pipe_read_common and devpipe_write                                      *)

\* An end can be used until its last reference is dropped, and whoever is in
\* an operation holds one.
EndOf(t) == IF t \in Readers THEN ReadEnd ELSE WriteEnd

Call(t) ==
    /\ pc[t] = "user" /\ pc[EndOf(t)] = "user" /\ ~dying[t]
    /\ MaxCalls # 0 => calls[t] < MaxCalls
    /\ calls' = [calls EXCEPT ![t] = IF MaxCalls = 0 THEN 0 ELSE @ + 1]
    /\ pc' = [pc EXCEPT ![t] = "sample"]
    /\ \E len \in IF t \in Readers THEN ReadSizes ELSE Sizes : n' = [n EXCEPT ![t] = len]
    /\ \E m \in IF t \in Readers THEN Modes \ {"frame"} ELSE Modes : mode' = [mode EXCEPT ![t] = m]
    /\ UNCHANGED <<ringVars, read_eof, write_eof, ref, freed, hooks, list_lock>>
    /\ UNCHANGED <<ready, dying, note, todo, last>>

\* The call is over: its arguments are gone.
Return(t) == n' = [n EXCEPT ![t] = 0] /\ mode' = [mode EXCEPT ![t] = "block"]

\* Back to the caller, with the outcome.
Finish(t, outcome) ==
    /\ pc' = [pc EXCEPT ![t] = "user"]
    /\ last' = Outcome(outcome)
    /\ Return(t)
    /\ UNCHANGED <<ringVars, hooks, ready>>

\* The ring changed: drop its lock and walk the list before returning.
Commit(t, outcome) ==
    /\ pc' = [pc EXCEPT ![t] = "wake"]
    /\ last' = Outcome(outcome)
    /\ Return(t)
    /\ UNCHANGED <<hooks, ready>>

\* pipe_block_locked: a fresh hook goes on the list in the hold of the sample.
Block(t) ==
    /\ list_lock = None
    /\ pc' = [pc EXCEPT ![t] = "block"]
    /\ hooks' = hooks \cup {t}
    /\ ready' = [ready EXCEPT ![t] = FALSE]
    /\ UNCHANGED <<ringVars, n, mode, last>>

sampleRest == <<read_eof, write_eof, ref, freed, list_lock, calls, dying, note, todo>>

\* MUTANT: a drained ring wakes nobody.
ReadNoWake(t) ==
    /\ t \in Readers /\ pc[t] = "sample" /\ count > 0
    /\ LET k == Smaller(n[t], count) IN
          /\ RingRead(k)
          /\ pc' = [pc EXCEPT ![t] = "user"]
          /\ last' = Outcome(<<"read", t, Front(k)>>)
          /\ Return(t)
    /\ UNCHANGED <<hooks, ready>>
    /\ UNCHANGED sampleRest

\* Data first: drain what there is, up to what was asked for.
Read(t) ==
    /\ t \in Readers /\ pc[t] = "sample" /\ count > 0
    /\ LET k == Smaller(n[t], count) IN
          /\ RingRead(k)
          /\ Commit(t, <<"read", t, Front(k)>>)
    /\ UNCHANGED sampleRest

\* MUTANT: end of file is tested before the data.
ReadEofFirst(t) ==
    /\ t \in Readers /\ pc[t] = "sample" /\ write_eof
    /\ Finish(t, <<"eof", t>>)
    /\ UNCHANGED sampleRest

ReadEof(t) ==
    /\ t \in Readers /\ pc[t] = "sample" /\ count = 0 /\ write_eof
    /\ Finish(t, <<"eof", t>>)
    /\ UNCHANGED sampleRest

ReadEmpty(t) ==
    /\ t \in Readers /\ pc[t] = "sample" /\ count = 0 /\ ~write_eof
    /\ IF mode[t] = "nonblock" THEN Finish(t, <<"again", t, n[t]>>) ELSE Block(t)
    /\ UNCHANGED sampleRest

\* A write may go on: the pipe is neither closed for reading nor hung up.
Open == ~read_eof /\ ~write_eof

\* A closed read end and a hung-up write end refuse alike.
WriteRefused(t) ==
    /\ t \in Writers /\ pc[t] = "sample" /\ ~Open
    /\ Finish(t, <<"refused", t>>)
    /\ UNCHANGED sampleRest

\* A write of at most PIPE_BUF bytes fits whole; a larger one fits with any
\* space, except a frame, which is never split.
Fits(t) ==
    IF n[t] <= Capacity \/ mode[t] = "frame" THEN Capacity - count >= n[t] ELSE Capacity - count > 0

Write(t) ==
    /\ t \in Writers /\ pc[t] = "sample" /\ Open /\ Fits(t)
    /\ LET k == Smaller(n[t], Capacity - count) IN
          /\ RingWrite(Message(t, n[t]), k)
          /\ Commit(t, <<"wrote", t, n[t], k>>)
    /\ UNCHANGED sampleRest

WriteFull(t) ==
    /\ t \in Writers /\ pc[t] = "sample" /\ Open /\ ~Fits(t)
    /\ IF mode[t] # "block" THEN Finish(t, <<"again", t, n[t]>>) ELSE Block(t)
    /\ UNCHANGED sampleRest

-----------------------------------------------------------------------------
(* sleep_noteintr on the private Rendez, and poll_waiter_list_unregister   *)

blockRest == <<ringVars, read_eof, write_eof, ref, freed, list_lock, calls, dying, note, todo, last>>

\* The condition, then, registered, a death and a caught note.
Sleep(t) ==
    /\ pc[t] = "block"
    /\ pc' = [pc EXCEPT ![t] = IF ready[t] THEN "unhook"
                               ELSE IF dying[t] \/ note[t] THEN "unhook intr" ELSE "asleep"]
    /\ UNCHANGED <<hooks, n, mode, ready, blockRest>>

\* MUTANT: the wait goes back to sleep until its hook is ready.
ResumeIgnores(t) ==
    /\ pc[t] = "resume"
    /\ pc' = [pc EXCEPT ![t] = IF ready[t] THEN "unhook" ELSE "asleep"]
    /\ UNCHANGED <<hooks, n, mode, ready, blockRest>>

\* Resumed: a death, a note on a wait still open, or the condition again.
Resume(t) ==
    /\ pc[t] = "resume"
    /\ pc' = [pc EXCEPT ![t] = IF dying[t] \/ (note[t] /\ ~ready[t]) THEN "unhook intr" ELSE "block"]
    /\ UNCHANGED <<hooks, n, mode, ready, blockRest>>

\* To the sample again, or out of the call having moved nothing.
AfterWait(t) ==
    /\ pc' = [pc EXCEPT ![t] = IF pc[t] = "unhook" THEN "sample" ELSE "user"]
    /\ IF pc[t] = "unhook" THEN UNCHANGED <<n, mode>> ELSE Return(t)
    /\ ready' = [ready EXCEPT ![t] = FALSE]
    /\ UNCHANGED blockRest

\* MUTANT: an interrupted wait leaves its hook on the list.
UnhookOnlyWoken(t) ==
    /\ pc[t] \in {"unhook", "unhook intr"} /\ list_lock = None
    /\ hooks' = IF pc[t] = "unhook" THEN hooks \ {t} ELSE hooks
    /\ AfterWait(t)

\* Off the list on every exit.
Unhook(t) ==
    /\ pc[t] \in {"unhook", "unhook intr"} /\ list_lock = None
    /\ hooks' = hooks \ {t}
    /\ AfterWait(t)

Woken(t) == IF pc[t] = "asleep" THEN "resume" ELSE pc[t]

\* The death walk, or the poster of a caught note, wakes the sleeper.
Interrupt(t) ==
    /\ t \in Mortal
    /\ \/ ~dying[t] /\ dying' = [dying EXCEPT ![t] = TRUE] /\ UNCHANGED note
       \/ ~note[t] /\ note' = [note EXCEPT ![t] = TRUE] /\ UNCHANGED dying
    /\ pc' = [pc EXCEPT ![t] = Woken(t)]
    /\ UNCHANGED <<ringVars, read_eof, write_eof, ref, freed, hooks, list_lock>>
    /\ UNCHANGED <<n, mode, calls, ready, todo, last>>

\* At EL0 the handler has run.
NoteDone(t) ==
    /\ pc[t] = "user" /\ note[t]
    /\ note' = [note EXCEPT ![t] = FALSE]
    /\ UNCHANGED <<ringVars, read_eof, write_eof, ref, freed, hooks, list_lock>>
    /\ UNCHANGED <<pc, n, mode, calls, ready, dying, todo, last>>

-----------------------------------------------------------------------------
(* poll_waiter_list_wake                                                   *)

walkRest == <<ringVars, read_eof, write_eof, ref, freed, hooks, n, mode, calls, dying, note, last>>

WakeLock(x) ==
    /\ pc[x] = "wake" /\ list_lock = None
    /\ list_lock' = x
    /\ todo' = [todo EXCEPT ![x] = hooks]
    /\ pc' = [pc EXCEPT ![x] = "walk"]
    /\ UNCHANGED <<ready, walkRest>>

\* ready = true, then wakeup().
WakeHook(x, t) ==
    /\ pc[x] = "walk" /\ t \in todo[x]
    /\ todo' = [todo EXCEPT ![x] = @ \ {t}]
    /\ ready' = [ready EXCEPT ![t] = TRUE]
    /\ pc' = [pc EXCEPT ![t] = Woken(t)]
    /\ UNCHANGED <<list_lock, walkRest>>

\* Where the walk's caller goes on.
AfterWake(x) == IF x \in Threads THEN "user" ELSE IF x = Hangup THEN "closed" ELSE "drop"

WakeUnlock(x) ==
    /\ pc[x] = "walk" /\ todo[x] = {}
    /\ list_lock' = None
    /\ pc' = [pc EXCEPT ![x] = AfterWake(x)]
    /\ UNCHANGED <<ready, todo, walkRest>>

-----------------------------------------------------------------------------
(* devpipe_close and pipe_hangup_write                                     *)

closeRest == <<ringVars, hooks, list_lock, n, mode, calls, ready, dying, note, todo, last>>

\* The last reference goes only when nobody is in an operation on the end.
Close(x) ==
    /\ x \in {ReadEnd, WriteEnd} /\ pc[x] = "user"
    /\ \A t \in Threads : EndOf(t) = x => pc[t] = "user"
    /\ x = WriteEnd => pc[Hangup] \in {"user", "closed"}
    /\ pc' = [pc EXCEPT ![x] = "wake"]
    /\ read_eof' = (read_eof \/ x = ReadEnd)
    /\ write_eof' = (write_eof \/ x = WriteEnd)
    /\ UNCHANGED <<ref, freed, closeRest>>

\* pipe_hangup_write: end of file with the write end still open.
HangupWrite ==
    /\ pc[Hangup] = "user" /\ pc[WriteEnd] = "user"
    /\ pc' = [pc EXCEPT ![Hangup] = "wake"]
    /\ write_eof' = TRUE
    /\ UNCHANGED <<read_eof, ref, freed, closeRest>>

\* MUTANT: the reference is read and written back in two halves.
DropStale(x) ==
    /\ pc[x] = "drop"
    /\ pc' = [pc EXCEPT ![x] = "closed"]
    /\ ref' = ref - 1
    /\ freed' = (ref <= 2)
    /\ UNCHANGED <<read_eof, write_eof, closeRest>>

\* Drop the endpoint's reference; the last one frees the ring.
Drop(x) ==
    /\ pc[x] = "drop"
    /\ pc' = [pc EXCEPT ![x] = "closed"]
    /\ ref' = ref - 1
    /\ freed' = (ref = 1)
    /\ UNCHANGED <<read_eof, write_eof, closeRest>>

-----------------------------------------------------------------------------
OpStep(t) ==
    \/ Read(t) \/ ReadEof(t) \/ ReadEmpty(t)
    \/ WriteRefused(t) \/ Write(t) \/ WriteFull(t)
    \/ Sleep(t) \/ Resume(t) \/ Unhook(t)

WalkStep(x) == WakeLock(x) \/ (\E t \in Threads : WakeHook(x, t)) \/ WakeUnlock(x) \/ Drop(x)

Next ==
    \/ \E t \in Threads : OpStep(t) \/ Call(t) \/ Interrupt(t) \/ NoteDone(t)
    \/ \E x \in Actors : WalkStep(x) \/ Close(x)
    \/ HangupWrite

Spec == Init /\ [][Next]_vars

\* A thread in the kernel keeps running. Nobody owes a call or a close.
FairSpec ==
    /\ Spec
    /\ \A t \in Threads : WF_vars(OpStep(t))
    /\ \A x \in Actors : WF_vars(WalkStep(x))

-----------------------------------------------------------------------------
(* Properties                                                              *)

\* Every variable has its type; the ring's indices agree with its count.
TypeOK ==
    /\ count \in 0..Capacity /\ head \in 0..Capacity - 1 /\ tail \in 0..Capacity - 1
    /\ head = (tail + count) % Capacity
    /\ read_eof \in BOOLEAN /\ write_eof \in BOOLEAN /\ ref \in 0..2 /\ freed \in BOOLEAN
    /\ hooks \subseteq Threads /\ list_lock \in Actors \cup {None}
    /\ pc \in [Actors -> {"user", "sample", "block", "asleep", "resume", "unhook", "unhook intr",
                          "wake", "walk", "drop", "closed"}]
    /\ ready \in [Threads -> BOOLEAN] /\ todo \in [Actors -> SUBSET Threads]

\* A thread may go on: what its operation waits for is there.
CanGo(t) == IF t \in Readers THEN count > 0 \/ write_eof ELSE read_eof \/ write_eof \/ Fits(t)

\* A walk that will still reach t.
WakeDue(t) == \E x \in Actors : pc[x] = "wake" \/ (pc[x] = "walk" /\ t \in todo[x])

\* No reader sleeps on a pipe with data or at end of file, and no writer on one
\* with room or without readers, unless a list walk is on its way to it: one
\* wake per change suffices for any number of waiters of both kinds.
NoStuckWaiter ==
    \A t \in Threads : pc[t] = "asleep" /\ CanGo(t) => WakeDue(t)

\* A hook is on the list only while the call that owns its stack frame runs,
\* and a walk only ever visits such hooks (NoStaleHook).
HooksLive ==
    /\ hooks = {t \in Threads : pc[t] \in {"block", "asleep", "resume", "unhook", "unhook intr"}}
    /\ \A x \in Actors : todo[x] \subseteq hooks

\* The ring and its list are touched only while the ring is allocated, and are
\* freed once both ends are closed. (With the types.)
RingAlive ==
    /\ TypeOK
    /\ freed => \A x \in Actors : pc[x] \in {"user", "closed"} 
    /\ freed <=> ref = 0

\* The pipe implements the bounded FIFO, whatever the interleaving.
Contents == [i \in 1..count |-> buf[(tail + i - 1) % Capacity]]
Fifo == INSTANCE PipeFifo WITH fifo <- Contents, readerGone <- read_eof, writerGone <- write_eof
ImplementsFifo == Fifo!Spec

\* Once the pipe is at end of file every read and every write returns.
EofEndsCalls ==
    \A t \in Threads : write_eof /\ pc[t] # "user" ~> pc[t] = "user"

\* Once nobody reads, every write returns.
HangupEndsWrites ==
    \A t \in Writers : read_eof /\ pc[t] # "user" ~> pc[t] = "user"

\* A death or a caught note ends a blocked operation.
InterruptEnds ==
    \A t \in Threads : (dying[t] \/ note[t]) /\ pc[t] # "user" ~> pc[t] = "user"

\* A call ends: at end of file, when nobody reads, by a death and by a note.
CallsEnd == EofEndsCalls /\ HangupEndsWrites /\ InterruptEnds

=============================================================================
