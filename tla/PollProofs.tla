----------------------------- MODULE PollProofs -----------------------------
(***************************************************************************)
(* The safety of SYS_POLL for any number of fds: what a call may leave     *)
(* behind, that no answer and no readiness is lost, and what a return of 0 *)
(* says.  Each is a consequence of one inductive invariant, PollInv.       *)
(***************************************************************************)
EXTENDS Poll, TLAPS

Settling == {"settle", "settling", "settle stop"}
Arming   == {"arm", "arm send", "parked", "park stop"}
Judging  == {"collect", "verdict"}

\* The pass has dealt with f: what the frame says of it is of this pass.
Scanned(f) ==
    \/ pc \in Settling \/ pc \in Judging \/ pc \in Arming
    \/ pc = "scan" /\ f < i
    \/ pc = "submit" /\ f <= i

\* The arm loop is past f.
Armed(f) ==
    \/ pc \in {"parked", "park stop"}
    \/ pc \in {"arm", "arm send"} /\ f < i

Types ==
    /\ TypeOK
    /\ remote \subseteq Fds /\ level \subseteq Fds /\ due \subseteq Fds /\ steady \subseteq level
    /\ revents \subseteq Fds

\* Where the call is, and what that says of its variables.
PlaceInv ==
    /\ pc \in Settling \/ pc \in Judging => i = 1
    /\ pc \in {"submit", "arm send"} => i \in Fds /\ snap[i] # "none"
    /\ pc = "arm send" => i \in hooked
    /\ pc \notin {"user", "sweep", "unhook", "put"} => rc = "none"
    /\ pc \in Arming => revents = {}
    /\ past => lapsed

\* The requests and references of the frame.
FrameInv ==
    /\ hooked \subseteq held /\ wire \subseteq op /\ op \subseteq held
    /\ pc = "user" => held = {}
    /\ pc = "submit" => i \in op
    /\ pc \in {"user", "verdict", "unhook", "put", "check", "stopped"} \/ pc \in Arming => op = {}
    /\ \A f \in Fds : snap[f] # "none" => f \in remote
    /\ \A f \in Fds : Scanned(f) /\ snap[f] # "none" => f \in held

\* The answers: on their way while the settle waits for them, in by the collect.
AnswerInv ==
    \A f \in Fds : Scanned(f) =>
        /\ snap[f] = "sent" => f \in wire \/ (pc = "submit" /\ f = i)
        /\ pc \in Judging \/ pc \in Arming => snap[f] \notin {"sent", "unsent"}

\* An fd that was ready since the pass began is found ready, or not yet asked
\* about to the end, or its server let the bound pass.
SteadyInv ==
    \A f \in Fds : Scanned(f) /\ f \in steady =>
        \/ f \in revents /\ (snap[f] = "none" \/ pc = "verdict" \/ pc \in Arming)
        \/ snap[f] \in {"sent", "unsent", "expired"}
        \/ snap[f] = "answered" /\ f \in answer /\ pc # "verdict" /\ pc \notin Arming

\* What covers a scanned fd. A local one has its hook on the list since it was
\* sampled; a remote one, once armed, has its hook and an arm, or the walk the
\* arm's answer brings.
Covered(f) ==
    \/ f \in revents \/ lapsed
    \/ /\ f \in Local /\ f \in hooked
       /\ f \in level => f \in due \/ flag # {}
    \/ /\ f \in remote /\ snap[f] # "none"
       /\ Armed(f) => retry \/ flag # {} \/ (f \in hooked /\ f \in armed \cup due)

CoverInv == \A f \in Fds : Scanned(f) => Covered(f)

\* The inductive invariant.
PollInv == Types /\ PlaceInv /\ FrameInv /\ AnswerInv /\ SteadyInv /\ CoverInv

\* What the end of one scan step comes to: the next fd, or with the last one
\* done the settle, or the collect if nothing was asked.
LEMMA NextFdMoves ==
    ASSUME Types, pc \in {"scan", "submit"}, NEW S, NextFd(S)
    PROVE  /\ pc' \in {"scan", "settle", "collect"} /\ i' \in Fds
           /\ pc' \in {"settle", "collect"} => i' = 1
           /\ pc' = "collect" => S = {}
           /\ \A f \in Fds : Scanned(f)' => f = i \/ Scanned(f)
<1>1. i \in Fds /\ NFds \in Nat \ {0}  BY Zenon, PollAssumption DEF Types, TypeOK
<1>2. /\ pc' \in {"scan", "settle", "collect"} /\ i' \in Fds
      /\ pc' \in {"settle", "collect"} => i' = 1
      /\ pc' = "collect" => S = {}
  BY <1>1 DEF NextFd, Fds
<1>3. ASSUME NEW f \in Fds, Scanned(f)' PROVE f = i \/ Scanned(f)
  <2>1. CASE i = NFds  BY <1>1, <2>1 DEF Scanned, Fds
  <2>2. CASE i # NFds  
    <3>1. i < NFds BY <1>1, <2>2 DEF Fds
    <3>2. pc' = "scan" /\ i' = i + 1 BY Zenon, <3>1 DEF NextFd
    <3>3. f < i + 1 BY Zenon, <3>2, <1>3 DEF Scanned, Settling, Judging, Arming
    <3> QED BY <1>1, <3>3 DEF Scanned, Fds
  <2> QED BY Zenon, <2>1, <2>2
<1> QED BY Zenon, <1>2, <1>3

\* The same for each step of the scan.
LEMMA ScanMoves ==
    ASSUME PollInv, ScanLocal \/ ScanClosed \/ ScanRemote \/ Submit
    PROVE  /\ pc' \in {"scan", "submit", "settle", "collect"} /\ i' \in Fds
           /\ pc' \in {"settle", "collect"} => i' = 1
           /\ pc' = "submit" => i' = i
           /\ pc' = "collect" => \A f \in Fds : snap'[f] = "none"
           /\ \A f \in Fds : Scanned(f)' => f = i \/ Scanned(f)
<1>1. Types /\ i \in Fds /\ pc \in {"scan", "submit"} /\ snap \in [Fds -> {"none", "unsent", "sent", "answered", "expired"}]
  BY Zenon DEF PollInv, Types, TypeOK, ScanLocal, ScanClosed, ScanRemote, Submit
<1>2. CASE ScanLocal \/ ScanClosed
  <2>1. NextFd(Asked \ {i}) /\ snap' = [snap EXCEPT ![i] = "none"]  BY Zenon, <1>2 DEF ScanLocal,
        ScanClosed
  <2> QED BY <1>1, <2>1, NextFdMoves DEF Asked
<1>3. CASE ScanRemote
  <2>1. CASE NextFd(Asked \cup {i})  BY Zenon, <1>1, <2>1, NextFdMoves
  <2>2. CASE pc' = "submit" /\ i' = i  BY <1>1, <1>3, <2>2 DEF ScanRemote, Scanned, Settling,
        Judging, Arming, Fds
  <2> QED BY Zenon, <1>3, <2>1, <2>2 DEF ScanRemote
<1>4. CASE Submit
  <2>1. i \in Asked /\ NextFd(Asked)  BY Zenon, <1>4 DEF Submit, Asked, PollInv, PlaceInv
  <2> QED BY Zenon, <1>1, <2>1, NextFdMoves
<1> QED BY Zenon, <1>2, <1>3, <1>4

\* dev->poll of a local fd: hook and sample in one hold.
LEMMA ScanLocalStep ==
    ASSUME PollInv, ScanLocal, UNCHANGED remote PROVE PollInv'
<1>1. /\ pc' \in {"scan", "submit", "settle", "collect"} /\ i' \in Fds
      /\ pc' \in {"settle", "collect"} => i' = 1
      /\ pc' = "submit" => i' = i
  BY Zenon, ScanMoves
<1>2. pc' = "collect" => \A f \in Fds : snap'[f] = "none"
  BY Zenon, ScanMoves
<1>3. ASSUME NEW f \in Fds, Scanned(f)' PROVE f = i \/ Scanned(f)
  BY Zenon, <1>3, ScanMoves
<1>4. /\ i \in Fds /\ i \in Local /\ pc = "scan" /\ pc' # "submit"
      /\ revents' = IF i \notin open \/ i \in level THEN revents \cup {i} ELSE revents \ {i}
      /\ hooked' = IF i \in open /\ ~past THEN hooked \cup {i} ELSE hooked
      /\ held' = IF i \in open /\ ~past THEN held \cup {i} ELSE held
      /\ snap' = [snap EXCEPT ![i] = "none"] /\ answer' = answer \ {i}
      /\ UNCHANGED <<flag, op, wire>>
      /\ UNCHANGED <<rc, past, lapsed, retry, level, due, armed, steady>>
  BY Zenon DEF PollInv, Types, TypeOK, ScanLocal, NextFd, scanRest, envVars
<1>5. Types'
  <2>1. i' \in 1..NFds + 1  BY <1>1, PollAssumption DEF Fds
  <2> QED BY Zenon, <1>1, <1>4, <2>1 DEF PollInv, Types, TypeOK, FrameInv
<1>6. PlaceInv'  BY Zenon, <1>1, <1>4 DEF PollInv, Types, TypeOK, PlaceInv, Settling, Judging, Arming
<1>7. FrameInv'  BY Zenon, <1>1, <1>3, <1>4 DEF PollInv, Types, TypeOK, FrameInv, Arming
<1>8. AnswerInv'  BY Zenon, <1>1, <1>2, <1>3, <1>4 DEF PollInv, Types, TypeOK, AnswerInv, Arming, Judging, Scanned
<1>9. SteadyInv'
  <2> SUFFICES ASSUME NEW f \in Fds, Scanned(f)', f \in steady'
               PROVE  \/ f \in revents' /\ (snap'[f] = "none" \/ pc' = "verdict" \/ pc' \in Arming)
                      \/ snap'[f] \in {"sent", "unsent", "expired"}
                      \/ snap'[f] = "answered" /\ f \in answer' /\ pc' # "verdict" /\ pc' \notin Arming
    BY Zenon DEF SteadyInv
  <2>1. CASE f = i  BY Zenon, <1>4, <2>1 DEF PollInv, Types, TypeOK
  <2>2. CASE f # i /\ Scanned(f)  BY Zenon, <1>1, <1>4, <2>2 DEF PollInv, Types, TypeOK, SteadyInv, Arming
  <2> QED BY Zenon, <1>3, <2>1, <2>2
<1>10. CoverInv'
  <2> SUFFICES ASSUME NEW f \in Fds, Scanned(f)' PROVE Covered(f)'
    BY Zenon DEF CoverInv
  <2>1. ~Armed(f)'  BY Zenon, <1>1 DEF Armed
  <2>2. CASE f = i  BY Zenon, <1>4, <2>2 DEF PollInv, PlaceInv, Covered, Local
  <2>3. CASE f # i /\ Scanned(f)  BY Zenon, <1>4, <2>1, <2>3 DEF PollInv, CoverInv, Covered, Local, Types, TypeOK
  <2> QED BY Zenon, <1>3, <2>2, <2>3
<1> QED BY Zenon, <1>5, <1>6, <1>7, <1>8, <1>9, <1>10 DEF PollInv

\* A closed remote fd.
LEMMA ScanClosedStep ==
    ASSUME PollInv, ScanClosed, UNCHANGED remote PROVE PollInv'
<1>1. /\ pc' \in {"scan", "submit", "settle", "collect"} /\ i' \in Fds
      /\ pc' \in {"settle", "collect"} => i' = 1
      /\ pc' = "submit" => i' = i
  BY Zenon, ScanMoves
<1>2. pc' = "collect" => \A f \in Fds : snap'[f] = "none"
  BY Zenon, ScanMoves
<1>3. ASSUME NEW f \in Fds, Scanned(f)' PROVE f = i \/ Scanned(f)
  BY Zenon, <1>3, ScanMoves
<1>4. /\ i \in Fds /\ i \in remote /\ pc = "scan" /\ pc' # "submit"
      /\ revents' = revents \cup {i}
      /\ snap' = [snap EXCEPT ![i] = "none"] /\ answer' = answer \ {i}
      /\ UNCHANGED <<hooked, flag, held, op, wire>>
      /\ UNCHANGED <<rc, past, lapsed, retry, level, due, armed, steady>>
  BY Zenon DEF PollInv, Types, ScanClosed, NextFd, scanRest, envVars
<1>5. Types'
  <2>1. i' \in 1..NFds + 1  BY <1>1, PollAssumption DEF Fds
  <2> QED BY Zenon, <1>1, <1>4, <2>1 DEF PollInv, Types, TypeOK, FrameInv
<1>6. PlaceInv'  BY Zenon, <1>1, <1>4 DEF PollInv, Types, TypeOK, PlaceInv, Settling, Judging, Arming
<1>7. FrameInv'  BY Zenon, <1>1, <1>3, <1>4 DEF PollInv, Types, TypeOK, FrameInv, Arming
<1>8. AnswerInv'  BY Zenon, <1>1, <1>2, <1>3, <1>4 DEF PollInv, Types, TypeOK, AnswerInv, Arming, Judging, Scanned
<1>9. SteadyInv'
  <2> SUFFICES ASSUME NEW f \in Fds, Scanned(f)', f \in steady'
               PROVE  \/ f \in revents' /\ (snap'[f] = "none" \/ pc' = "verdict" \/ pc' \in Arming)
                      \/ snap'[f] \in {"sent", "unsent", "expired"}
                      \/ snap'[f] = "answered" /\ f \in answer' /\ pc' # "verdict" /\ pc' \notin Arming
    BY Zenon DEF SteadyInv
  <2>1. CASE f = i  BY Zenon, <1>4, <2>1 DEF PollInv, Types, TypeOK
  <2>2. CASE f # i /\ Scanned(f)  BY Zenon, <1>1, <1>4, <2>2 DEF PollInv, Types, TypeOK, SteadyInv, Arming
  <2> QED BY Zenon, <1>3, <2>1, <2>2
<1>10. CoverInv'
  <2> SUFFICES ASSUME NEW f \in Fds, Scanned(f)' PROVE Covered(f)'
    BY Zenon DEF CoverInv
  <2>1. ~Armed(f)'  BY Zenon, <1>1 DEF Armed
  <2>2. CASE f = i  BY Zenon, <1>4, <2>2 DEF Covered
  <2>3. CASE f # i /\ Scanned(f)  BY Zenon, <1>4, <2>1, <2>3 DEF PollInv, CoverInv, Covered, Local, Types, TypeOK
  <2> QED BY Zenon, <1>3, <2>2, <2>3
<1> QED BY Zenon, <1>5, <1>6, <1>7, <1>8, <1>9, <1>10 DEF PollInv

\* A remote fd: its slot is filled.
LEMMA ScanRemoteStep ==
    ASSUME PollInv, ScanRemote, UNCHANGED remote PROVE PollInv'
<1>1. /\ pc' \in {"scan", "submit", "settle", "collect"} /\ i' \in Fds
      /\ pc' \in {"settle", "collect"} => i' = 1
      /\ pc' = "submit" => i' = i
  BY Zenon, ScanMoves
<1>2. pc' = "collect" => \A f \in Fds : snap'[f] = "none"
  BY Zenon, ScanMoves
<1>3. ASSUME NEW f \in Fds, Scanned(f)' PROVE f = i \/ Scanned(f)
  BY Zenon, <1>3, ScanMoves
<1>4. /\ i \in Fds /\ i \in remote /\ pc = "scan"
      /\ held' = held \cup {i} /\ revents' = revents \ {i} /\ answer' = answer \ {i}
      /\ \/ op' = op \cup {i} /\ snap' = [snap EXCEPT ![i] = "sent"] /\ pc' = "submit"
         \/ op' = op /\ snap' = [snap EXCEPT ![i] = "unsent"] /\ pc' # "submit"
      /\ UNCHANGED <<hooked, flag, wire>>
      /\ UNCHANGED <<rc, past, lapsed, retry, level, due, armed, steady>>
  BY Zenon DEF PollInv, Types, ScanRemote, NextFd, scanRest, envVars
<1>5. Types'
  <2>1. i' \in 1..NFds + 1  BY <1>1, PollAssumption DEF Fds
  <2> QED BY Zenon, <1>1, <1>4, <2>1 DEF PollInv, Types, TypeOK, FrameInv
<1>6. PlaceInv'  BY Zenon, <1>1, <1>4 DEF PollInv, Types, TypeOK, PlaceInv, Settling, Judging, Arming
<1>7. FrameInv'  BY ZenonT(40), <1>1, <1>3, <1>4 DEF PollInv, Types, TypeOK, FrameInv, Arming
<1>8. AnswerInv'  BY Zenon, <1>1, <1>2, <1>3, <1>4 DEF PollInv, Types, TypeOK, AnswerInv, Arming, Judging, Scanned
<1>9. SteadyInv'
  <2> SUFFICES ASSUME NEW f \in Fds, Scanned(f)', f \in steady'
               PROVE  \/ f \in revents' /\ (snap'[f] = "none" \/ pc' = "verdict" \/ pc' \in Arming)
                      \/ snap'[f] \in {"sent", "unsent", "expired"}
                      \/ snap'[f] = "answered" /\ f \in answer' /\ pc' # "verdict" /\ pc' \notin Arming
    BY Zenon DEF SteadyInv
  <2>1. CASE f = i  BY Zenon, <1>4, <2>1 DEF PollInv, Types, TypeOK
  <2>2. CASE f # i /\ Scanned(f)  BY Zenon, <1>1, <1>4, <2>2 DEF PollInv, Types, TypeOK, SteadyInv, Arming
  <2> QED BY Zenon, <1>3, <2>1, <2>2
<1>10. CoverInv'
  <2> SUFFICES ASSUME NEW f \in Fds, Scanned(f)' PROVE Covered(f)'
    BY Zenon DEF CoverInv
  <2>1. ~Armed(f)'  BY Zenon, <1>1 DEF Armed
  <2>2. CASE f = i  BY Zenon, <1>4, <2>1, <2>2 DEF PollInv, Types, TypeOK, Covered
  <2>3. CASE f # i /\ Scanned(f)  BY Zenon, <1>4, <2>1, <2>3 DEF PollInv, Types, TypeOK, CoverInv, Covered,
        Local
  <2> QED BY Zenon, <1>3, <2>2, <2>3
<1> QED BY Zenon, <1>5, <1>6, <1>7, <1>8, <1>9, <1>10 DEF PollInv

\* The snapshot request goes out, or does not.
LEMMA SubmitStep ==
    ASSUME PollInv, Submit, UNCHANGED remote PROVE PollInv'
<1>1. /\ pc' \in {"scan", "submit", "settle", "collect"} /\ i' \in Fds
      /\ pc' \in {"settle", "collect"} => i' = 1
      /\ pc' = "submit" => i' = i
  BY Zenon, ScanMoves
<1>2. pc' = "collect" => \A f \in Fds : snap'[f] = "none"
  BY Zenon, ScanMoves
<1>3. ASSUME NEW f \in Fds, Scanned(f)' PROVE f = i \/ Scanned(f)
  BY Zenon, <1>3, ScanMoves
<1>4. /\ i \in Fds /\ i \in op /\ i \in held /\ snap[i] # "none" /\ pc = "submit" /\ pc' # "submit"
      /\ \/ wire' = wire \cup {i} /\ snap' = snap
         \/ wire' = wire /\ snap' = [snap EXCEPT ![i] = "unsent"]
      /\ UNCHANGED <<revents, hooked, flag, held, op, answer>>
      /\ UNCHANGED <<rc, past, lapsed, retry, level, due, armed, steady>>
  BY Zenon DEF PollInv, PlaceInv, FrameInv, Submit, NextFd, scanRest, envVars
<1>5. Types'
  <2>1. i' \in 1..NFds + 1  BY <1>1, PollAssumption DEF Fds
  <2> QED BY Zenon, <1>1, <1>4, <2>1 DEF PollInv, Types, TypeOK, FrameInv
<1>6. PlaceInv'  BY Zenon, <1>1, <1>4 DEF PollInv, Types, TypeOK, PlaceInv, Settling, Judging, Arming
<1>7. FrameInv'  BY Zenon, <1>1, <1>3, <1>4 DEF PollInv, Types, TypeOK, FrameInv, Arming
<1>8. AnswerInv'  BY Zenon, <1>1, <1>2, <1>3, <1>4 DEF PollInv, Types, TypeOK, AnswerInv, Arming, Judging, Scanned
<1>9. SteadyInv'
  <2> SUFFICES ASSUME NEW f \in Fds, Scanned(f)', f \in steady'
               PROVE  \/ f \in revents' /\ (snap'[f] = "none" \/ pc' = "verdict" \/ pc' \in Arming)
                      \/ snap'[f] \in {"sent", "unsent", "expired"}
                      \/ snap'[f] = "answered" /\ f \in answer' /\ pc' # "verdict" /\ pc' \notin Arming
    BY Zenon DEF SteadyInv
  <2>1. CASE f = i
    <3>1. Scanned(f)  BY <1>4, <2>1 DEF Scanned, Fds
    <3> QED BY Zenon, <1>1, <1>4, <2>1, <3>1 DEF PollInv, Types, TypeOK, SteadyInv, Arming
  <2>2. CASE f # i /\ Scanned(f)  BY Zenon, <1>1, <1>4, <2>2 DEF PollInv, Types, TypeOK, SteadyInv, Arming
  <2> QED BY Zenon, <1>3, <2>1, <2>2
<1>10. CoverInv'
  <2> SUFFICES ASSUME NEW f \in Fds, Scanned(f)' PROVE Covered(f)'
    BY Zenon DEF CoverInv
  <2>1. ~Armed(f)'  BY Zenon, <1>1 DEF Armed
  <2>2. CASE f = i  BY Zenon, <1>4, <2>1, <2>2 DEF PollInv, Types, TypeOK, Covered
  <2>3. CASE f # i /\ Scanned(f)  BY Zenon, <1>4, <2>1, <2>3 DEF PollInv, Types, TypeOK, CoverInv, Covered,
        Local
  <2> QED BY Zenon, <1>3, <2>2, <2>3
<1> QED BY Zenon, <1>5, <1>6, <1>7, <1>8, <1>9, <1>10 DEF PollInv

\* The settle past its bound.
LEMMA SettleExpireStep ==
    ASSUME PollInv, SettleExpire, UNCHANGED remote PROVE PollInv'
<1>1. Types'  BY Zenon, PollAssumption DEF PollInv, Fds, Types, TypeOK, Local, PlaceInv, Settling, Judging, Arming, FrameInv, Scanned, SettleExpire, settleRest, Outstanding
<1>2. PlaceInv'  BY Zenon DEF PollInv, PlaceInv, Settling, Arming, SettleExpire, settleRest
<1>3. FrameInv'  BY Zenon, PollAssumption DEF PollInv, Fds, Types, TypeOK, Local, PlaceInv, Settling, Judging, Arming, FrameInv, Scanned, SettleExpire, settleRest, Outstanding
<1>4. AnswerInv'  BY Zenon DEF AnswerInv, SettleExpire, Outstanding
<1>5. SteadyInv'  BY Zenon DEF PollInv, Scanned, Settling, Arming, SteadyInv, SettleExpire, settleRest
<1>6. CoverInv'  BY Zenon DEF PollInv, Local, Settling, Scanned, CoverInv, Covered, Armed, SettleExpire,
        settleRest
<1> QED BY Zenon, <1>1, <1>2, <1>3, <1>4, <1>5, <1>6 DEF PollInv

\* The settle before its bound.
LEMMA SettleWaitStep ==
    ASSUME PollInv, SettleWait, UNCHANGED remote PROVE PollInv'
<1>1. Types'  BY Zenon DEF PollInv, Types, TypeOK, FrameInv, SettleWait, settleRest
<1>2. PlaceInv'  BY Zenon DEF PollInv, PlaceInv, Settling, Arming, SettleWait, settleRest
<1>3. FrameInv'  BY Zenon DEF PollInv, Settling, Arming, FrameInv, Scanned, SettleWait, settleRest
<1>4. AnswerInv'  BY Zenon DEF PollInv, Scanned, Settling, Judging, Arming, AnswerInv, SettleWait
<1>5. SteadyInv'  BY Zenon DEF PollInv, Scanned, Settling, Arming, SteadyInv, SettleWait, settleRest
<1>6. CoverInv'  BY Zenon DEF PollInv, Local, Settling, Scanned, CoverInv, Covered, Armed, SettleWait,
        settleRest
<1> QED BY Zenon, <1>1, <1>2, <1>3, <1>4, <1>5, <1>6 DEF PollInv

\* Every snapshot is answered.
LEMMA SettleDoneStep ==
    ASSUME PollInv, SettleDone, UNCHANGED remote PROVE PollInv'
<1>1. Types'  BY Zenon DEF PollInv, Types, TypeOK, SettleDone, settleRest
<1>2. PlaceInv'  BY Zenon DEF PollInv, PlaceInv, Settling, Arming, SettleDone, settleRest
<1>3. FrameInv'  BY Zenon DEF PollInv, Settling, Arming, FrameInv, Scanned, SettleDone, settleRest
<1>4. AnswerInv'  BY Zenon DEF AnswerInv, SettleDone, Outstanding
<1>5. SteadyInv'  BY Zenon DEF PollInv, Scanned, Settling, Arming, SteadyInv, SettleDone, settleRest
<1>6. CoverInv'  BY Zenon DEF PollInv, Local, Settling, Scanned, CoverInv, Covered, Armed, SettleDone,
        settleRest
<1> QED BY Zenon, <1>1, <1>2, <1>3, <1>4, <1>5, <1>6 DEF PollInv

\* The sleep of the settle ends.
LEMMA SettleWakeStep ==
    ASSUME PollInv, SettleWake, UNCHANGED remote PROVE PollInv'
<1>1. Types'  BY Zenon, PollAssumption DEF PollInv, Fds, Types, TypeOK, Local, PlaceInv, Settling, Judging, Arming, FrameInv, Scanned, SettleWake, settleRest, Outstanding
<1>2. PlaceInv'  BY Zenon, PollAssumption DEF PollInv, Fds, Types, TypeOK, Local, PlaceInv, Settling, Judging, Arming, FrameInv, Scanned, SettleWake, settleRest, Outstanding
<1>3. FrameInv'  BY Zenon, PollAssumption DEF PollInv, Fds, Types, TypeOK, Local, PlaceInv, Settling, Judging, Arming, FrameInv, Scanned, SettleWake, settleRest, Outstanding
<1>4. AnswerInv'  BY Zenon, PollAssumption DEF PollInv, Fds, Types, TypeOK, Local, FrameInv, Scanned, Settling, Judging, Arming, AnswerInv, SettleWake, settleRest, Outstanding
<1>5. SteadyInv'  BY Zenon, PollAssumption DEF PollInv, Fds, Types, TypeOK, Local, FrameInv, Scanned, Settling, Judging, Arming, AnswerInv, SteadyInv, SettleWake, settleRest, Outstanding
<1>6. CoverInv'  BY Zenon, PollAssumption DEF PollInv, Fds, Types, TypeOK, Local, PlaceInv, Settling, Judging, Arming, FrameInv, Scanned, CoverInv, Covered, Armed, SettleWake, settleRest, Outstanding
<1> QED BY Zenon, <1>1, <1>2, <1>3, <1>4, <1>5, <1>6 DEF PollInv

\* poll_collect.
LEMMA CollectStep ==
    ASSUME PollInv, Collect, UNCHANGED remote PROVE PollInv'
<1>1. Types'  BY Zenon DEF PollInv, Types, TypeOK, Collect, envVars
<1>2. PlaceInv'  BY Zenon DEF PollInv, PlaceInv, Judging, Arming, Collect, envVars
<1>3. FrameInv'  BY Zenon DEF PollInv, Judging, FrameInv, Scanned, Collect
<1>4. AnswerInv'  BY Zenon DEF PollInv, Scanned, Judging, AnswerInv, Collect
<1>5. SteadyInv'
  <2> SUFFICES ASSUME NEW f \in Fds, f \in steady
               PROVE  f \in revents' \/ snap'[f] = "expired"
    BY Zenon DEF SteadyInv, Collect
  <2>1. Scanned(f) /\ pc = "collect"  BY Zenon DEF Scanned, Judging, Collect
  <2>2. snap[f] \in {"none", "answered", "expired"}  BY Zenon, <2>1 DEF PollInv, Types, TypeOK, AnswerInv,
        Judging
  <2>3. (f \in revents /\ snap[f] = "none") \/ snap[f] = "expired" \/ (snap[f] = "answered" /\ f \in answer)
    BY Zenon, <2>1, <2>2 DEF PollInv, SteadyInv, Arming
  <2> QED BY Zenon, <2>2, <2>3 DEF Collect
<1>6. CoverInv'  BY Zenon DEF PollInv, Local, Judging, FrameInv, Scanned, CoverInv, Covered, Armed,
        Collect, envVars
<1> QED BY Zenon, <1>1, <1>2, <1>3, <1>4, <1>5, <1>6 DEF PollInv

\* The verdict of a pass.
LEMMA VerdictStep ==
    ASSUME PollInv, Verdict, UNCHANGED remote PROVE PollInv'
<1>1. Types'  BY Zenon, PollAssumption DEF PollInv, Fds, Types, TypeOK, Local, PlaceInv, Settling, Judging, Arming, FrameInv, Scanned, Verdict, verdictRest, frameVars, envVars, wireVars
<1>2. PlaceInv'  BY Zenon, PollAssumption DEF PollInv, Fds, Types, TypeOK, Local, PlaceInv, Settling, Judging, Arming, FrameInv, Scanned, Verdict, verdictRest, frameVars, envVars, wireVars
<1>3. FrameInv'  BY Zenon, PollAssumption DEF PollInv, Fds, Types, TypeOK, Local, PlaceInv, Settling, Judging, Arming, FrameInv, Scanned, Verdict, verdictRest, frameVars, envVars, wireVars
<1>4. AnswerInv'  BY Zenon, PollAssumption DEF PollInv, Fds, Types, TypeOK, Local, FrameInv, Scanned, Settling, Judging, Arming, AnswerInv, Verdict, verdictRest, frameVars, envVars, wireVars
<1>5. SteadyInv'  BY Zenon, PollAssumption DEF PollInv, Fds, Types, TypeOK, Local, FrameInv, Scanned, Settling, Judging, Arming, AnswerInv, SteadyInv, Verdict, verdictRest, frameVars, envVars, wireVars
<1>6. CoverInv'
  <2> SUFFICES ASSUME NEW f \in Fds, Scanned(f)' PROVE Covered(f)'
    BY Zenon DEF CoverInv
  <2>1. pc = "verdict" /\ pc' = "arm" /\ revents = {} /\ i = 1 /\ i' = i
    BY Zenon DEF Verdict, verdictRest, Scanned, Settling, Judging, Arming, PollInv, PlaceInv
  <2>2. ~Armed(f)'  BY <2>1 DEF Armed, Fds
  <2>3. Covered(f)  BY Zenon, <2>1 DEF PollInv, CoverInv, Scanned, Judging
  <2> QED BY Zenon, <2>2, <2>3 DEF Covered, Local, Verdict, verdictRest, frameVars, envVars
<1> QED BY Zenon, <1>1, <1>2, <1>3, <1>4, <1>5, <1>6 DEF PollInv

\* The hook of a remote fd.
LEMMA ArmHookStep ==
    ASSUME PollInv, ArmHook, UNCHANGED remote PROVE PollInv'
<1>0. /\ pc = "arm" /\ i \in Fds /\ snap[i] # "none"  BY Zenon DEF ArmHook, Asked
<1>a. i + 1 \in 1..NFds + 1  BY <1>0, PollAssumption DEF Fds
<1>b. i \in held  BY Zenon, <1>0 DEF PollInv, FrameInv, Scanned, Arming
<1>1. /\ pc' \in {"arm", "arm send"}
      /\ \/ hooked' = hooked \cup {i} /\ pc' = "arm send" /\ i' = i /\ UNCHANGED retry
         \/ hooked' = hooked /\ pc' = "arm" /\ i' = i + 1 /\ retry' = TRUE
      /\ UNCHANGED <<rc, past, revents, flag, held, snap, op, answer, lapsed, level, due, wire, armed, steady>>
  BY Zenon, <1>0 DEF ArmHook, armRest, envVars
<1>r. retry => retry'  BY Zenon, <1>1
<1>t. pc' = "arm" => retry'  BY Zenon, <1>1
<1>2. Types'  BY Zenon, <1>0, <1>a, <1>b, <1>1 DEF PollInv, Types, TypeOK
<1>3. PlaceInv'  BY Zenon, <1>0, <1>a, <1>b, <1>1 DEF PollInv, PlaceInv, Settling, Judging, Arming
<1>4. FrameInv'  BY Zenon, <1>0, <1>a, <1>b, <1>1 DEF PollInv, FrameInv, Scanned, Arming
<1>5. AnswerInv'  BY Zenon, <1>0, <1>a, <1>b, <1>1 DEF PollInv, AnswerInv, Scanned, Settling, Judging, Arming
<1>6. SteadyInv'  BY Zenon, <1>0, <1>a, <1>b, <1>1 DEF PollInv, AnswerInv, SteadyInv, Scanned, Settling, Judging, Arming
<1>7. CoverInv'
  <2> SUFFICES ASSUME NEW f \in Fds PROVE Covered(f)'
    BY Zenon DEF CoverInv
  <2>1. Covered(f)  BY Zenon, <1>0, <1>a, <1>b, <1>1 DEF PollInv, CoverInv, Scanned, Arming
  <2>2. CASE pc' = "arm send"
    <3>1. Armed(f)' => Armed(f)  BY Zenon, <1>0, <1>1, <2>2 DEF Armed
    <3> QED BY Zenon, <1>0, <1>1, <1>r, <2>1, <2>2, <3>1 DEF Covered, Local
  <2>3. CASE pc' = "arm"  BY Zenon, <1>1, <2>1, <2>3 DEF Covered, Local
  <2> QED BY Zenon, <1>1, <2>2, <2>3
<1> QED BY Zenon, <1>2, <1>3, <1>4, <1>5, <1>6, <1>7 DEF PollInv

\* An fd that needs no arm.
LEMMA ArmSkipStep ==
    ASSUME PollInv, ArmSkip, UNCHANGED remote PROVE PollInv'
<1>1. Types'  BY PollAssumption DEF PollInv, Fds, Types, TypeOK, ArmSkip, armRest, envVars
<1>2. PlaceInv'  BY Zenon DEF PollInv, PlaceInv, Settling, Judging, ArmSkip, armRest, envVars
<1>3. FrameInv'  BY Zenon DEF PollInv, FrameInv, Scanned, ArmSkip, armRest
<1>4. AnswerInv'  BY Zenon DEF PollInv, Scanned, AnswerInv, ArmSkip, armRest
<1>5. SteadyInv'  BY Zenon DEF PollInv, Scanned, SteadyInv, ArmSkip, armRest
<1>6. CoverInv'  BY DEF PollInv, Types, TypeOK, Local, Scanned, CoverInv, Covered, Armed, ArmSkip,
        armRest, Asked, envVars
<1> QED BY Zenon, <1>1, <1>2, <1>3, <1>4, <1>5, <1>6 DEF PollInv

\* The arm of a remote fd.
LEMMA ArmSendStep ==
    ASSUME PollInv, ArmSend, UNCHANGED remote PROVE PollInv'
<1>0. /\ pc = "arm send" /\ i \in Fds /\ i \in remote /\ i \in hooked  BY Zenon DEF ArmSend, PollInv, PlaceInv, FrameInv
<1>z. i \in 1..NFds /\ NFds \in Nat  BY Zenon, <1>0, PollAssumption DEF Fds
<1>a. i + 1 \in 1..NFds + 1  BY <1>z
<1>1. /\ pc' = "arm" /\ i' = i + 1
      /\ \/ armed' = armed \cup {i} /\ UNCHANGED retry
         \/ armed' = armed /\ retry' = TRUE
      /\ UNCHANGED <<rc, past, revents, flag, hooked, held, snap, op, answer, lapsed, level, due, wire, steady>>
  BY Zenon, <1>0 DEF ArmSend, armRest, envVars
<1>r. retry => retry'  BY Zenon, <1>1
<1>t. i \in armed' \/ retry'  BY Zenon, <1>1
<1>2. Types'  BY Zenon, <1>0, <1>a, <1>1 DEF PollInv, Types, TypeOK
<1>3. PlaceInv'  BY Zenon, <1>0, <1>a, <1>1 DEF PollInv, PlaceInv, Settling, Judging, Arming
<1>4. FrameInv'  BY Zenon, <1>0, <1>a, <1>1 DEF PollInv, FrameInv, Scanned, Arming
<1>5. AnswerInv'  BY Zenon, <1>0, <1>a, <1>1 DEF PollInv, AnswerInv, Scanned, Settling, Judging, Arming
<1>6. SteadyInv'  BY Zenon, <1>0, <1>a, <1>1 DEF PollInv, AnswerInv, SteadyInv, Scanned, Settling, Judging, Arming
<1>7. CoverInv'
  <2> SUFFICES ASSUME NEW f \in Fds PROVE Covered(f)'
    BY Zenon DEF CoverInv
  <2>1. Covered(f)  BY Zenon, <1>0, <1>a, <1>1 DEF PollInv, CoverInv, Scanned, Arming
  <2>2. Armed(f)' => Armed(f) \/ f = i
    <3>1. f < i + 1 => f < i \/ f = i  BY <1>z DEF Fds
    <3> QED BY Zenon, <1>0, <1>1, <3>1 DEF Armed
  <2>3. CASE f = i  BY Zenon, <1>0, <1>1, <1>t, <2>1, <2>3 DEF Covered, Local
  <2>4. CASE f # i  BY Zenon, <1>0, <1>1, <1>r, <2>1, <2>2, <2>4 DEF Covered, Local
  <2> QED BY Zenon, <2>3, <2>4
<1> QED BY Zenon, <1>2, <1>3, <1>4, <1>5, <1>6, <1>7 DEF PollInv

\* Every fd is covered: the call parks.
LEMMA ParkStep ==
    ASSUME PollInv, Park, UNCHANGED remote PROVE PollInv'
<1>1. Types'  BY DEF PollInv, Types, TypeOK, Park, armRest, envVars
<1>2. PlaceInv'  BY Zenon DEF PollInv, PlaceInv, Arming, Park, armRest, envVars
<1>3. FrameInv'  BY Zenon DEF PollInv, Arming, FrameInv, Scanned, Park, armRest
<1>4. AnswerInv'  BY Zenon DEF PollInv, Scanned, Arming, AnswerInv, Park, armRest
<1>5. SteadyInv'  BY Zenon DEF PollInv, Scanned, Arming, SteadyInv, Park, armRest
<1>6. CoverInv'  BY PollAssumption DEF PollInv, Fds, Local, Arming, Scanned, CoverInv, Covered,
        Armed, Park, armRest, envVars
<1> QED BY Zenon, <1>1, <1>2, <1>3, <1>4, <1>5, <1>6 DEF PollInv

\* The park ends.
LEMMA UnparkStep ==
    ASSUME PollInv, Unpark, UNCHANGED remote PROVE PollInv'
<1>1. Types'  BY Zenon, PollAssumption DEF PollInv, Fds, Types, TypeOK, Local, PlaceInv, Settling, Judging, Arming, FrameInv, Scanned, Unpark, parkRest, frameVars, envVars, wireVars
<1>2. PlaceInv'  BY Zenon, PollAssumption DEF PollInv, Fds, Types, TypeOK, Local, PlaceInv, Settling, Judging, Arming, FrameInv, Scanned, Unpark, parkRest, frameVars, envVars, wireVars
<1>3. FrameInv'  BY Zenon, PollAssumption DEF PollInv, Fds, Types, TypeOK, Local, PlaceInv, Settling, Judging, Arming, FrameInv, Scanned, Unpark, parkRest, frameVars, envVars, wireVars
<1>4. AnswerInv'  BY Zenon, PollAssumption DEF PollInv, Fds, Types, TypeOK, Local, FrameInv, Scanned, Settling, Judging, Arming, AnswerInv, Unpark, parkRest, frameVars, envVars, wireVars
<1>5. SteadyInv'  BY Zenon, PollAssumption DEF PollInv, Fds, Types, TypeOK, Local, FrameInv, Scanned, Settling, Judging, Arming, AnswerInv, SteadyInv, Unpark, parkRest, frameVars, envVars, wireVars
<1>6. CoverInv'  BY Zenon, PollAssumption DEF PollInv, Fds, Types, TypeOK, Local, PlaceInv, Settling, Judging, Arming, FrameInv, Scanned, CoverInv, Covered, Armed, Unpark, parkRest, frameVars, envVars, wireVars
<1> QED BY Zenon, <1>1, <1>2, <1>3, <1>4, <1>5, <1>6 DEF PollInv

\* The hooks come off.
LEMMA UnhookStep ==
    ASSUME PollInv, Unhook, UNCHANGED remote PROVE PollInv'
<1>1. Types'  BY Zenon DEF PollInv, Types, TypeOK, Unhook, callVars, envVars, wireVars
<1>2. PlaceInv'  BY Zenon DEF PollInv, PlaceInv, Settling, Judging, Arming, Unhook, callVars, envVars
<1>3. FrameInv'  BY Zenon DEF PollInv, Settling, Judging, Arming, FrameInv, Scanned, Unhook, wireVars
<1>4. AnswerInv'  BY Zenon DEF Scanned, Settling, Judging, Arming, AnswerInv, Unhook
<1>5. SteadyInv'  BY Zenon DEF Scanned, Settling, Judging, Arming, SteadyInv, Unhook
<1>6. CoverInv'  BY Zenon DEF Settling, Judging, Arming, Scanned, CoverInv, Unhook
<1> QED BY Zenon, <1>1, <1>2, <1>3, <1>4, <1>5, <1>6 DEF PollInv

\* The references are dropped.
LEMMA PutStep ==
    ASSUME PollInv, Put, UNCHANGED remote PROVE PollInv'
<1>1. Types'  BY Zenon DEF PollInv, Types, TypeOK, Put, callVars, envVars, wireVars
<1>2. PlaceInv'  BY Zenon DEF PollInv, PlaceInv, Settling, Judging, Arming, Put, callVars, envVars
<1>3. FrameInv'  BY Zenon DEF PollInv, Settling, Judging, Arming, FrameInv, Scanned, Put, wireVars
<1>4. AnswerInv'  BY Zenon DEF Scanned, Settling, Judging, Arming, AnswerInv, Put
<1>5. SteadyInv'  BY Zenon DEF Scanned, Settling, Judging, Arming, SteadyInv, Put
<1>6. CoverInv'  BY Zenon DEF Settling, Judging, Arming, Scanned, CoverInv, Put
<1> QED BY Zenon, <1>1, <1>2, <1>3, <1>4, <1>5, <1>6 DEF PollInv

\* The checks between two passes.
LEMMA CheckStep ==
    ASSUME PollInv, Check, UNCHANGED remote PROVE PollInv'
<1>1. /\ pc \in {"check", "stopped"}
      /\ \/ pc' = "sweep" /\ rc' = "dead" /\ (past' => past) /\ UNCHANGED <<i, steady>>
         \/ pc' = "stopped" /\ rc' = rc /\ (past' => past) /\ UNCHANGED <<i, steady>>
         \/ pc' = "scan" /\ i' = 1 /\ (past' => lapsed) /\ steady' = level /\ rc' = rc
      /\ UNCHANGED <<revents, retry, hooked, flag, held, snap, op, answer, level, due, wire, armed>>
      /\ lapsed' = lapsed
  BY DEF Check, BeginPass, frameVars, wireVars
<1>2. 1 \in Fds /\ 1 \in 1..NFds + 1  BY PollAssumption DEF Fds
<1>3. ASSUME NEW f \in Fds PROVE ~Scanned(f)'
  <2>1. ~(f < 1)  BY DEF Fds
  <2> QED BY Zenon, <1>1, <2>1 DEF Scanned, Settling, Judging, Arming
<1>4. Types'  BY Zenon, <1>1, <1>2 DEF PollInv, Types, TypeOK
<1>5. PlaceInv'  BY Zenon, <1>1 DEF PollInv, PlaceInv, Settling, Judging, Arming
<1>6. FrameInv'  BY Zenon, <1>1, <1>3 DEF PollInv, FrameInv, Arming
<1>7. AnswerInv' /\ SteadyInv' /\ CoverInv'  BY Zenon, <1>3 DEF AnswerInv, SteadyInv, CoverInv
<1> QED BY Zenon, <1>4, <1>5, <1>6, <1>7 DEF PollInv

\* The return sweep begins.
LEMMA SweepStep ==
    ASSUME PollInv, Sweep, UNCHANGED remote PROVE PollInv'
<1>1. Types'  BY Zenon DEF PollInv, Types, TypeOK, Sweep, callVars, envVars
<1>2. PlaceInv'  BY Zenon DEF PollInv, PlaceInv, Settling, Judging, Arming, Sweep, callVars, envVars
<1>3. FrameInv'  BY Zenon DEF PollInv, Settling, Judging, Arming, FrameInv, Scanned, Sweep
<1>4. AnswerInv'  BY Zenon DEF Scanned, Settling, Judging, Arming, AnswerInv, Sweep
<1>5. SteadyInv'  BY Zenon DEF Scanned, Settling, Judging, Arming, SteadyInv, Sweep
<1>6. CoverInv'  BY Zenon DEF Settling, Judging, Arming, Scanned, CoverInv, Sweep
<1> QED BY Zenon, <1>1, <1>2, <1>3, <1>4, <1>5, <1>6 DEF PollInv

\* A call begins.
LEMMA CallStep ==
    ASSUME PollInv, Call PROVE PollInv'
<1>1. Types'  BY PollAssumption DEF PollInv, Fds, Types, TypeOK, Call, BeginPass, wireVars
<1>2. PlaceInv'  BY Zenon DEF PlaceInv, Call, BeginPass
<1>3. FrameInv'  BY Zenon DEF PollInv, FrameInv, Call, BeginPass, wireVars
<1>4. AnswerInv'  BY Zenon DEF AnswerInv, Call
<1>5. SteadyInv'  BY DEF Fds, Scanned, Settling, Judging, Arming, SteadyInv, Call, BeginPass
<1>6. CoverInv'  BY DEF Fds, Settling, Judging, Arming, Scanned, CoverInv, Call, BeginPass
<1> QED BY Zenon, <1>1, <1>2, <1>3, <1>4, <1>5, <1>6 DEF PollInv

\* Time passes.
LEMMA ClockStep ==
    ASSUME PollInv, Clock PROVE PollInv'
<1>1. Types'  BY Zenon, PollAssumption DEF PollInv, Fds, Types, TypeOK, Local, PlaceInv, Settling, Judging, Arming, FrameInv, Scanned, Clock, worldRest, callVars, wireVars
<1>2. PlaceInv'  BY Zenon, PollAssumption DEF PollInv, Fds, Types, TypeOK, Local, PlaceInv, Settling, Judging, Arming, FrameInv, Scanned, Clock, worldRest, callVars, wireVars
<1>3. FrameInv'  BY Zenon, PollAssumption DEF PollInv, Fds, Types, TypeOK, Local, PlaceInv, Settling, Judging, Arming, FrameInv, Scanned, Clock, worldRest, callVars, wireVars
<1>4. AnswerInv'  BY Zenon, PollAssumption DEF PollInv, Fds, Types, TypeOK, Local, FrameInv, Scanned, Settling, Judging, Arming, AnswerInv, Clock, worldRest, callVars, wireVars
<1>5. SteadyInv'  BY Zenon, PollAssumption DEF PollInv, Fds, Types, TypeOK, Local, FrameInv, Scanned, Settling, Judging, Arming, AnswerInv, SteadyInv, Clock, worldRest, callVars, wireVars
<1>6. CoverInv'  BY Zenon, PollAssumption DEF PollInv, Fds, Types, TypeOK, Local, PlaceInv, Settling, Judging, Arming, FrameInv, Scanned, CoverInv, Covered, Armed, Clock, worldRest, callVars, wireVars
<1> QED BY Zenon, <1>1, <1>2, <1>3, <1>4, <1>5, <1>6 DEF PollInv

\* A death, a note, a stop.
LEMMA ControlStep ==
    ASSUME PollInv, Control PROVE PollInv'
<1>1. Types'  BY Zenon, PollAssumption DEF PollInv, Fds, Types, TypeOK, Local, PlaceInv, Settling, Judging, Arming, FrameInv, Scanned, Control, worldRest, callVars, wireVars
<1>2. PlaceInv'  BY Zenon, PollAssumption DEF PollInv, Fds, Types, TypeOK, Local, PlaceInv, Settling, Judging, Arming, FrameInv, Scanned, Control, worldRest, callVars, wireVars
<1>3. FrameInv'  BY Zenon, PollAssumption DEF PollInv, Fds, Types, TypeOK, Local, PlaceInv, Settling, Judging, Arming, FrameInv, Scanned, Control, worldRest, callVars, wireVars
<1>4. AnswerInv'  BY Zenon, PollAssumption DEF PollInv, Fds, Types, TypeOK, Local, FrameInv, Scanned, Settling, Judging, Arming, AnswerInv, Control, worldRest, callVars, wireVars
<1>5. SteadyInv'  BY Zenon, PollAssumption DEF PollInv, Fds, Types, TypeOK, Local, FrameInv, Scanned, Settling, Judging, Arming, AnswerInv, SteadyInv, Control, worldRest, callVars, wireVars
<1>6. CoverInv'  BY Zenon, PollAssumption DEF PollInv, Fds, Types, TypeOK, Local, PlaceInv, Settling, Judging, Arming, FrameInv, Scanned, CoverInv, Covered, Armed, Control, worldRest, callVars, wireVars
<1> QED BY Zenon, <1>1, <1>2, <1>3, <1>4, <1>5, <1>6 DEF PollInv

\* An fd becomes ready.
LEMMA ProduceStep ==
    ASSUME PollInv, NEW g \in Fds, Produce(g) PROVE PollInv'
<1>1. Types'  BY Zenon, PollAssumption DEF PollInv, Fds, Types, TypeOK, Local, PlaceInv, Settling, Judging, Arming, FrameInv, Scanned, Produce, worldRest, callVars, wireVars
<1>2. PlaceInv'  BY Zenon, PollAssumption DEF PollInv, Fds, Types, TypeOK, Local, PlaceInv, Settling, Judging, Arming, FrameInv, Scanned, Produce, worldRest, callVars, wireVars
<1>3. FrameInv'  BY Zenon, PollAssumption DEF PollInv, Fds, Types, TypeOK, Local, PlaceInv, Settling, Judging, Arming, FrameInv, Scanned, Produce, worldRest, callVars, wireVars
<1>4. AnswerInv'  BY Zenon, PollAssumption DEF PollInv, Fds, Types, TypeOK, Local, FrameInv, Scanned, Settling, Judging, Arming, AnswerInv, Produce, worldRest, callVars, wireVars
<1>5. SteadyInv'  BY Zenon, PollAssumption DEF PollInv, Fds, Types, TypeOK, Local, FrameInv, Scanned, Settling, Judging, Arming, AnswerInv, SteadyInv, Produce, worldRest, callVars, wireVars
<1>6. CoverInv'  BY Zenon, PollAssumption DEF PollInv, Fds, Types, TypeOK, Local, PlaceInv, Settling, Judging, Arming, FrameInv, Scanned, CoverInv, Covered, Armed, Produce, worldRest, callVars, wireVars
<1> QED BY Zenon, <1>1, <1>2, <1>3, <1>4, <1>5, <1>6 DEF PollInv

\* A competing reader drains an fd.
LEMMA ConsumeStep ==
    ASSUME PollInv, NEW g \in Fds, Consume(g) PROVE PollInv'
<1>1. Types'  BY Zenon, PollAssumption DEF PollInv, Fds, Types, TypeOK, Local, PlaceInv, Settling, Judging, Arming, FrameInv, Scanned, Consume, worldRest, callVars, wireVars
<1>2. PlaceInv'  BY Zenon, PollAssumption DEF PollInv, Fds, Types, TypeOK, Local, PlaceInv, Settling, Judging, Arming, FrameInv, Scanned, Consume, worldRest, callVars, wireVars
<1>3. FrameInv'  BY Zenon, PollAssumption DEF PollInv, Fds, Types, TypeOK, Local, PlaceInv, Settling, Judging, Arming, FrameInv, Scanned, Consume, worldRest, callVars, wireVars
<1>4. AnswerInv'  BY Zenon, PollAssumption DEF PollInv, Fds, Types, TypeOK, Local, FrameInv, Scanned, Settling, Judging, Arming, AnswerInv, Consume, worldRest, callVars, wireVars
<1>5. SteadyInv'  BY Zenon, PollAssumption DEF PollInv, Fds, Types, TypeOK, Local, FrameInv, Scanned, Settling, Judging, Arming, AnswerInv, SteadyInv, Consume, worldRest, callVars, wireVars
<1>6. CoverInv'  BY Zenon, PollAssumption DEF PollInv, Fds, Types, TypeOK, Local, PlaceInv, Settling, Judging, Arming, FrameInv, Scanned, CoverInv, Covered, Armed, Consume, worldRest, callVars, wireVars
<1> QED BY Zenon, <1>1, <1>2, <1>3, <1>4, <1>5, <1>6 DEF PollInv

\* An event that nobody here asked about.
LEMMA OtherStep ==
    ASSUME PollInv, NEW g \in Fds, Other(g) PROVE PollInv'
<1>1. Types'  BY Zenon, PollAssumption DEF PollInv, Fds, Types, TypeOK, Local, PlaceInv, Settling, Judging, Arming, FrameInv, Scanned, Other, worldRest, callVars, wireVars
<1>2. PlaceInv'  BY Zenon, PollAssumption DEF PollInv, Fds, Types, TypeOK, Local, PlaceInv, Settling, Judging, Arming, FrameInv, Scanned, Other, worldRest, callVars, wireVars
<1>3. FrameInv'  BY Zenon, PollAssumption DEF PollInv, Fds, Types, TypeOK, Local, PlaceInv, Settling, Judging, Arming, FrameInv, Scanned, Other, worldRest, callVars, wireVars
<1>4. AnswerInv'  BY Zenon, PollAssumption DEF PollInv, Fds, Types, TypeOK, Local, FrameInv, Scanned, Settling, Judging, Arming, AnswerInv, Other, worldRest, callVars, wireVars
<1>5. SteadyInv'  BY Zenon, PollAssumption DEF PollInv, Fds, Types, TypeOK, Local, FrameInv, Scanned, Settling, Judging, Arming, AnswerInv, SteadyInv, Other, worldRest, callVars, wireVars
<1>6. CoverInv'  BY Zenon, PollAssumption DEF PollInv, Fds, Types, TypeOK, Local, PlaceInv, Settling, Judging, Arming, FrameInv, Scanned, CoverInv, Covered, Armed, Other, worldRest, callVars, wireVars
<1> QED BY Zenon, <1>1, <1>2, <1>3, <1>4, <1>5, <1>6 DEF PollInv

\* A list walk flags the hook it finds.
LEMMA WalkStep ==
    ASSUME PollInv, NEW g \in Fds, Walk(g) PROVE PollInv'
<1>1. Types'  BY Zenon, PollAssumption DEF PollInv, Fds, Types, TypeOK, Local, PlaceInv, Settling, Judging, Arming, FrameInv, Scanned, Walk, worldRest, callVars, wireVars
<1>2. PlaceInv'  BY Zenon, PollAssumption DEF PollInv, Fds, Types, TypeOK, Local, PlaceInv, Settling, Judging, Arming, FrameInv, Scanned, Walk, worldRest, callVars, wireVars
<1>3. FrameInv'  BY Zenon, PollAssumption DEF PollInv, Fds, Types, TypeOK, Local, PlaceInv, Settling, Judging, Arming, FrameInv, Scanned, Walk, worldRest, callVars, wireVars
<1>4. AnswerInv'  BY Zenon, PollAssumption DEF PollInv, Fds, Types, TypeOK, Local, FrameInv, Scanned, Settling, Judging, Arming, AnswerInv, Walk, worldRest, callVars, wireVars
<1>5. SteadyInv'  BY Zenon, PollAssumption DEF PollInv, Fds, Types, TypeOK, Local, FrameInv, Scanned, Settling, Judging, Arming, AnswerInv, SteadyInv, Walk, worldRest, callVars, wireVars
<1>6. CoverInv'  BY ZenonT(40), PollAssumption DEF PollInv, Fds, Types, TypeOK, Local, PlaceInv, Settling, Judging, Arming, FrameInv, Scanned, CoverInv, Covered, Armed, Walk, worldRest, callVars, wireVars
<1> QED BY Zenon, <1>1, <1>2, <1>3, <1>4, <1>5, <1>6 DEF PollInv

\* A sibling closes an fd.
LEMMA CloseStep ==
    ASSUME PollInv, NEW g \in Fds, Close(g) PROVE PollInv'
<1>1. Types'  BY Zenon, PollAssumption DEF PollInv, Fds, Types, TypeOK, Local, PlaceInv, Settling, Judging, Arming, FrameInv, Scanned, Close, worldRest, callVars, wireVars
<1>2. PlaceInv'  BY Zenon, PollAssumption DEF PollInv, Fds, Types, TypeOK, Local, PlaceInv, Settling, Judging, Arming, FrameInv, Scanned, Close, worldRest, callVars, wireVars
<1>3. FrameInv'  BY Zenon, PollAssumption DEF PollInv, Fds, Types, TypeOK, Local, PlaceInv, Settling, Judging, Arming, FrameInv, Scanned, Close, worldRest, callVars, wireVars
<1>4. AnswerInv'  BY Zenon, PollAssumption DEF PollInv, Fds, Types, TypeOK, Local, FrameInv, Scanned, Settling, Judging, Arming, AnswerInv, Close, worldRest, callVars, wireVars
<1>5. SteadyInv'  BY Zenon, PollAssumption DEF PollInv, Fds, Types, TypeOK, Local, FrameInv, Scanned, Settling, Judging, Arming, AnswerInv, SteadyInv, Close, worldRest, callVars, wireVars
<1>6. CoverInv'  BY Zenon, PollAssumption DEF PollInv, Fds, Types, TypeOK, Local, PlaceInv, Settling, Judging, Arming, FrameInv, Scanned, CoverInv, Covered, Armed, Close, worldRest, callVars, wireVars
<1> QED BY Zenon, <1>1, <1>2, <1>3, <1>4, <1>5, <1>6 DEF PollInv

\* The reply to a snapshot.
LEMMA SnapReplyStep ==
    ASSUME PollInv, NEW g \in remote, SnapReply(g) PROVE PollInv'
<1>1. Types'  BY Zenon, PollAssumption DEF PollInv, Fds, Types, TypeOK, Local, PlaceInv, Settling, Judging, Arming, FrameInv, Scanned, SnapReply, worldRest, callVars, envVars
<1>2. PlaceInv'  BY Zenon, PollAssumption DEF PollInv, Fds, Types, TypeOK, Local, PlaceInv, Settling, Judging, Arming, FrameInv, Scanned, SnapReply, worldRest, callVars, envVars
<1>3. FrameInv'  BY Zenon, PollAssumption DEF PollInv, Fds, Types, TypeOK, Local, PlaceInv, Settling, Judging, Arming, FrameInv, Scanned, SnapReply, worldRest, callVars, envVars
<1>4. AnswerInv'  BY Zenon, PollAssumption DEF PollInv, Fds, Types, TypeOK, Local, FrameInv, Scanned, Settling, Judging, Arming, AnswerInv, SnapReply, worldRest, callVars, envVars
<1>5. SteadyInv'
  <2>1. /\ g \in Fds /\ g \in op /\ pc # "verdict" /\ pc \notin Arming
        /\ snap' = [snap EXCEPT ![g] = "answered"] /\ (g \in level => g \in answer')
        /\ \A f \in Fds \ {g} : f \in answer => f \in answer'
        /\ UNCHANGED <<pc, i, revents, level, steady>>
    BY Zenon DEF SnapReply, worldRest, callVars, envVars, PollInv, Types, FrameInv
  <2> SUFFICES ASSUME NEW f \in Fds, Scanned(f), f \in steady
               PROVE  \/ f \in revents /\ snap'[f] = "none"
                      \/ snap'[f] \in {"sent", "unsent", "expired"}
                      \/ snap'[f] = "answered" /\ f \in answer'
    BY Zenon, <2>1 DEF SteadyInv, Scanned
  <2>2. CASE f = g  BY Zenon, <2>1, <2>2 DEF PollInv, Types, TypeOK
  <2>3. CASE f # g  BY Zenon, <2>1, <2>3 DEF PollInv, Types, TypeOK, SteadyInv
  <2> QED BY Zenon, <2>2, <2>3
<1>6. CoverInv'  BY Zenon, PollAssumption DEF PollInv, Fds, Types, TypeOK, Local, PlaceInv, Settling, Judging, Arming, FrameInv, Scanned, CoverInv, Covered, Armed, SnapReply, worldRest, callVars, envVars
<1> QED BY Zenon, <1>1, <1>2, <1>3, <1>4, <1>5, <1>6 DEF PollInv

\* The reply to an arm.
LEMMA ArmReplyStep ==
    ASSUME PollInv, NEW g \in remote, ArmReply(g) PROVE PollInv'
<1>1. Types'  BY ZenonT(40), PollAssumption DEF PollInv, Fds, Types, TypeOK, Local, PlaceInv, Settling, Judging, Arming, FrameInv, Scanned, ArmReply, worldRest, callVars, wireVars
<1>2. PlaceInv'  BY Zenon, PollAssumption DEF PollInv, Fds, Types, TypeOK, Local, PlaceInv, Settling, Judging, Arming, FrameInv, Scanned, ArmReply, worldRest, callVars, wireVars
<1>3. FrameInv'  BY Zenon, PollAssumption DEF PollInv, Fds, Types, TypeOK, Local, PlaceInv, Settling, Judging, Arming, FrameInv, Scanned, ArmReply, worldRest, callVars, wireVars
<1>4. AnswerInv'  BY Zenon, PollAssumption DEF PollInv, Fds, Types, TypeOK, Local, FrameInv, Scanned, Settling, Judging, Arming, AnswerInv, ArmReply, worldRest, callVars, wireVars
<1>5. SteadyInv'  BY Zenon, PollAssumption DEF PollInv, Fds, Types, TypeOK, Local, FrameInv, Scanned, Settling, Judging, Arming, AnswerInv, SteadyInv, ArmReply, worldRest, callVars, wireVars
<1>6. CoverInv'  BY Zenon, PollAssumption DEF PollInv, Fds, Types, TypeOK, Local, PlaceInv, Settling, Judging, Arming, FrameInv, Scanned, CoverInv, Covered, Armed, ArmReply, worldRest, callVars, wireVars
<1> QED BY Zenon, <1>1, <1>2, <1>3, <1>4, <1>5, <1>6 DEF PollInv

\* The pump collects an arm.
LEMMA GcArmStep ==
    ASSUME PollInv, NEW g \in remote, GcArm(g) PROVE PollInv'
<1>1. Types'  BY Zenon, PollAssumption DEF PollInv, Fds, Types, TypeOK, Local, PlaceInv, Settling, Judging, Arming, FrameInv, Scanned, GcArm, worldRest, callVars, envVars
<1>2. PlaceInv'  BY Zenon, PollAssumption DEF PollInv, Fds, Types, TypeOK, Local, PlaceInv, Settling, Judging, Arming, FrameInv, Scanned, GcArm, worldRest, callVars, envVars
<1>3. FrameInv'  BY Zenon, PollAssumption DEF PollInv, Fds, Types, TypeOK, Local, PlaceInv, Settling, Judging, Arming, FrameInv, Scanned, GcArm, worldRest, callVars, envVars
<1>4. AnswerInv'  BY Zenon, PollAssumption DEF PollInv, Fds, Types, TypeOK, Local, FrameInv, Scanned, Settling, Judging, Arming, AnswerInv, GcArm, worldRest, callVars, envVars
<1>5. SteadyInv'  BY Zenon, PollAssumption DEF PollInv, Fds, Types, TypeOK, Local, FrameInv, Scanned, Settling, Judging, Arming, AnswerInv, SteadyInv, GcArm, worldRest, callVars, envVars
<1>6. CoverInv'  BY ZenonT(40), PollAssumption DEF PollInv, Fds, Types, TypeOK, Local, PlaceInv, Settling, Judging, Arming, FrameInv, Scanned, CoverInv, Covered, Armed, GcArm, worldRest, callVars, envVars
<1> QED BY Zenon, <1>1, <1>2, <1>3, <1>4, <1>5, <1>6 DEF PollInv

\* The state in which nobody has called yet.
LEMMA PollInvInit == Init => PollInv
<1> SUFFICES ASSUME Init PROVE PollInv  BY Zenon
<1>1. Types  BY PollAssumption DEF Init, Types, TypeOK
<1>2. PlaceInv /\ FrameInv  BY Zenon DEF Init, PlaceInv, FrameInv
<1>3. AnswerInv /\ SteadyInv /\ CoverInv
  BY Zenon DEF Init, AnswerInv, SteadyInv, CoverInv, Scanned, Settling, Judging, Arming
<1> QED BY Zenon, <1>1, <1>2, <1>3 DEF PollInv

\* Every step of the call and of the world around it keeps the invariant.
LEMMA PollInvNext == PollInv /\ [Next]_vars => PollInv'
<1> SUFFICES ASSUME PollInv, [Next]_vars PROVE PollInv'  BY Zenon
<1>1. CASE Call  BY Zenon, <1>1, CallStep
<1>2. CASE PollStep
  BY Zenon, <1>2, ScanLocalStep, ScanClosedStep, ScanRemoteStep, SubmitStep, SettleExpireStep,
        SettleWaitStep, SettleDoneStep, SettleWakeStep, CollectStep, VerdictStep, ArmHookStep,
        ArmSkipStep, ArmSendStep, ParkStep, UnparkStep, UnhookStep, PutStep, CheckStep, SweepStep
        DEF PollStep
<1>3. CASE Clock \/ Control  BY Zenon, <1>3, ClockStep, ControlStep
<1>4. CASE \E f \in Fds : Produce(f) \/ Consume(f) \/ Other(f) \/ Walk(f) \/ Close(f)
  BY Zenon, <1>4, ProduceStep, ConsumeStep, OtherStep, WalkStep, CloseStep
<1>5. CASE \E f \in remote : SnapReply(f) \/ ArmReply(f) \/ GcArm(f)
  BY Zenon, <1>5, SnapReplyStep, ArmReplyStep, GcArmStep
<1>6. CASE UNCHANGED vars
  <2> USE <1>6 DEF PollInv, vars, callVars, frameVars, envVars, wireVars
  <2>1. Types'  BY Zenon DEF Types, TypeOK
  <2>2. PlaceInv'  BY Zenon DEF PlaceInv
  <2>3. FrameInv'  BY Zenon DEF FrameInv, Scanned
  <2>4. AnswerInv'  BY Zenon DEF AnswerInv, Scanned
  <2>5. SteadyInv'  BY Zenon DEF SteadyInv, Scanned
  <2>6. CoverInv'  BY Zenon DEF CoverInv, Covered, Scanned, Armed, Local
  <2> QED BY Zenon, <2>1, <2>2, <2>3, <2>4, <2>5, <2>6
<1> QED BY Zenon, <1>1, <1>2, <1>3, <1>4, <1>5, <1>6 DEF Next

\* The invariant, for any number of fds, any set of them remote and any
\* timeouts, deaths, notes, stops and closes (sys_poll_for_proc_spoors).
THEOREM PollInductive == Spec => []PollInv
<1> QED BY PollInvInit, PollInvNext, PTL DEF Spec

\* A hook and a request keep their object's reference, and nothing of a call
\* outlives it (poll_unhook_all, poll_release_snaps).
THEOREM NothingIsLeftBehind == Spec => []NothingOutlives
<1>1. PollInv => NothingOutlives  BY Zenon DEF PollInv, Types, FrameInv, NothingOutlives
<1> QED BY <1>1, PollInductive, PTL

\* While the settle waits, every snapshot marked SENT is at its server
\* (poll_settle, dev9p_poll_snap_complete).
THEOREM AnswersAwaited == Spec => []NoLostAnswer
<1>1. PollInv => NoLostAnswer
  BY Zenon DEF PollInv, AnswerInv, Scanned, Settling, NoLostAnswer
<1> QED BY <1>1, PollInductive, PTL

\* A parked call whose fd is ready is about to be woken: no readiness falls
\* between the sample, the hook and the arm.
THEOREM ReadinessSeen == Spec => []NoMissedReady
<1>1. ASSUME PollInv, pc = "parked", ~lapsed, ~retry, flag = {}, NEW f \in level
      PROVE  f \in due \cup armed
  <2>1. f \in Fds /\ revents = {} /\ Scanned(f) /\ Armed(f)
    BY Zenon, <1>1 DEF PollInv, Types, PlaceInv, Scanned, Armed, Arming
  <2>2. Covered(f)  BY Zenon, <1>1, <2>1 DEF PollInv, CoverInv
  <2> QED BY Zenon, <1>1, <2>1, <2>2 DEF Covered
<1>2. PollInv => NoMissedReady  BY Zenon, <1>1 DEF NoMissedReady
<1> QED BY <1>2, PollInductive, PTL

\* A return of 0 is at the deadline, and over no fd that was ready throughout
\* the last pass and whose server answered in time.
THEOREM ZeroIsHonest == Spec => ZeroIsTrue
<1>1. ASSUME PollInv, [Next]_vars, pc = "verdict", rc' = "zero"
      PROVE  lapsed /\ \A f \in steady : snap[f] = "expired"
  <2>1. rc = "none"  BY Zenon, <1>1 DEF PollInv, PlaceInv
  <2>2. revents = {} /\ lapsed
    <3>1. PollStep  BY Zenon, <1>1, <2>1 DEF Next, Call, Clock, Control, Produce, Consume, Other, Walk,
        Close, SnapReply, ArmReply, GcArm, vars, worldRest, callVars
    <3>2. Verdict
      BY Zenon, <1>1, <3>1 DEF PollStep, ScanLocal, ScanClosed, ScanRemote, Submit, SettleExpire,
        SettleWait, SettleDone, SettleWake, Collect, ArmHook, ArmSkip, ArmSend, Park, Unpark,
        Unhook, Put, Check, Sweep
    <3> QED BY Zenon, <1>1, <2>1, <3>2 DEF Verdict
  <2>3. ASSUME NEW f \in steady PROVE snap[f] = "expired"
    <3>1. f \in Fds /\ Scanned(f)  BY Zenon, <1>1 DEF PollInv, Types, Scanned, Judging
    <3>2. snap[f] \notin {"sent", "unsent"}  BY Zenon, <1>1, <3>1 DEF PollInv, AnswerInv, Judging
    <3> QED BY Zenon, <1>1, <2>2, <2>3, <3>1, <3>2 DEF PollInv, SteadyInv
  <2> QED BY Zenon, <2>2, <2>3
<1>2. PollInv /\ [Next]_vars => [pc = "verdict" /\ rc' = "zero" =>
          lapsed /\ \A f \in steady : snap[f] = "expired"]_vars
  BY Zenon, <1>1
<1> QED BY <1>2, PollInvInit, PollInvNext, PTL DEF Spec, ZeroIsTrue

=============================================================================
