----------------------------- MODULE MCP9Client -----------------------------
(***************************************************************************)
(* Instances of P9Client.                                                  *)
(***************************************************************************)
EXTENDS P9Client, TLC

CONSTANTS t1, t2, t3, a1, f1, f2, f3

SomeFids == (t1 :> f1) @@ (t2 :> f2) @@ (t3 :> f3) @@ (a1 :> f2)
Mix(k1, k2, k3, ka) == (t1 :> k1) @@ (t2 :> k2) @@ (t3 :> k3) @@ (a1 :> ka)

\* Three calls; two calls over an asynchronous operation; one over one.
ThreeCalls == Mix("walk", "read", "clunk", "none")
OverAsync  == Mix("walk", "aclunk", "none", "read")
OneOverOne == Mix("none", "none", "read", "read")

AllMixes   == {ThreeCalls, OverAsync, OneOverOne}
BreakMixes == {OneOverOne}
LatchMixes == {Mix("read", "read", "none", "none")}
NoMixes    == {}

=============================================================================
