------------------------------ MODULE PipeFifo ------------------------------
(***************************************************************************)
(* What a pipe promises the threads that share it: a bounded FIFO of       *)
(* bytes.  A write of at most Capacity bytes goes in whole or not at all,  *)
(* whoever else writes; a larger one may go in part.  End of file comes    *)
(* only after the last byte and is final; a write to a pipe nobody reads   *)
(* is refused; "try again" is said only when the call would have to wait.  *)
(***************************************************************************)
EXTENDS Naturals, Sequences

CONSTANTS Capacity, Readers, Writers, Message(_, _), Sizes, ReadSizes

VARIABLES fifo, readerGone, writerGone, last
fifoVars == <<fifo, readerGone, writerGone, last>>

Init ==
    /\ fifo = <<>> /\ ~readerGone /\ ~writerGone
    /\ last = <<"none">>

\* n bytes offered by w, of which the first k go in.
Write(w, n, k) ==
    /\ ~readerGone /\ ~writerGone
    /\ k \in 1..n /\ Len(fifo) + k <= Capacity
    /\ n <= Capacity => k = n
    /\ fifo' = fifo \o SubSeq(Message(w, n), 1, k)
    /\ last' = <<"wrote", w, n, k>>
    /\ UNCHANGED <<readerGone, writerGone>>

Read(r, k) ==
    /\ k \in 1..Len(fifo)
    /\ fifo' = SubSeq(fifo, k + 1, Len(fifo))
    /\ last' = <<"read", r, SubSeq(fifo, 1, k)>>
    /\ UNCHANGED <<readerGone, writerGone>>

Eof(r) ==
    /\ fifo = <<>> /\ writerGone
    /\ last' = <<"eof", r>>
    /\ UNCHANGED <<fifo, readerGone, writerGone>>

Refused(w) ==
    /\ readerGone \/ writerGone
    /\ last' = <<"refused", w>>
    /\ UNCHANGED <<fifo, readerGone, writerGone>>

TryAgain(t, n) ==
    /\ \/ t \in Readers /\ fifo = <<>> /\ ~writerGone
       \/ t \in Writers /\ ~readerGone /\ ~writerGone /\ Capacity - Len(fifo) < n
    /\ last' = <<"again", t, n>>
    /\ UNCHANGED <<fifo, readerGone, writerGone>>

GoneReader == readerGone' /\ UNCHANGED <<fifo, writerGone, last>>
GoneWriter == writerGone' /\ UNCHANGED <<fifo, readerGone, last>>

Next ==
    \/ \E w \in Writers : (\E n \in Sizes, k \in 1..Capacity : Write(w, n, k)) \/ Refused(w)
    \/ \E r \in Readers : (\E k \in 1..Capacity : Read(r, k)) \/ Eof(r)
    \/ \E t \in Readers \cup Writers, n \in Sizes \cup ReadSizes : TryAgain(t, n)
    \/ GoneReader \/ GoneWriter

Spec == Init /\ [][Next]_fifoVars
=============================================================================
