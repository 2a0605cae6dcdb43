------------------------------ MODULE MCTorpor ------------------------------
(***************************************************************************)
(* Instances of Torpor: two threads of one Proc and one of another wait at *)
(* the same address, in the same bucket; only the first Proc has a         *)
(* producer.                                                               *)
(***************************************************************************)
EXTENDS Torpor

CONSTANTS t1, t2, t3, u1, P, Q, a1

ProcOfDef == [x \in {t1, t2, t3, u1} |-> IF x = t3 THEN Q ELSE P]
ProcOfOne == [x \in {t1, u1} |-> P]
ProcOfLive == [x \in {t1, t2, u1} |-> P]
HashOne   == [k \in {P, Q} \X {a1} |-> 2]
UnmapsLive == {<<P, a1>>}
=============================================================================
