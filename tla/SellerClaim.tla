------------------------------ MODULE SellerClaim ------------------------------
(***************************************************************************)
(* verify_seller (predicate/src/seller.rs): the statement that is proved   *)
(* for one seller.  One claim is verified by its predicate; its journal    *)
(* must have the target seller as a subject, and the seller's cumulative   *)
(* volume counter is read at the period end.                               *)
(***************************************************************************)
EXTENDS ClosedLoop, Reciprocal

Subjects == IF claim.kind = "closed-loop" THEN {claim.seller} ELSE Pair

\* wash_volume of subject s: what it sold in the settlements counted
WashVolume(s) ==
  CASE claim.kind = "closed-loop" -> settledTotal
    [] claim.kind = "reciprocal" /\ s = claim.a -> settledBy[claim.b]
    [] OTHER -> settledBy[claim.a]

\* The journal names the target seller, a staked agent, and a volume that is not 0.
VerifySeller ==
  /\ verdict = "pending" /\ phase = "journal"
  /\ verdict' = IF /\ claim.target \in Subjects \ {Zero}
                   /\ WashVolume(claim.target) > 0
                   /\ history.agent[claim.target]
                THEN "accepted" ELSE "rejected"
  /\ UNCHANGED <<history, claim, phase, lists, sums>>

Done == verdict # "pending" /\ UNCHANGED vars

Next == LoopNext \/ PairNext \/ VerifySeller \/ Done

Spec == Init /\ [][Next]_vars

-----------------------------------------------------------------------------
(* Every piece of evidence counts once, and in the order of time.  These   *)
(* two are proved for every history in ClaimRulesProofs.                   *)

Distinct(s) == \A m, n \in DOMAIN s : s[m] = s[n] => m = n

FundingLogs == UNION {LogsOf(fundings[k]) : k \in DOMAIN fundings}
ReturnLogs == UNION {Entries(returns[k]) : k \in DOMAIN returns}

FundingsDistinct ==
  /\ \A k \in DOMAIN fundings : fundings[k].transfer # fundings[k].deposited
  /\ \A k, l \in DOMAIN fundings : k # l => LogsOf(fundings[k]) \cap LogsOf(fundings[l]) = {}

PathsDistinct ==
  /\ Distinct(path) /\ \A k \in DOMAIN returns : Distinct(returns[k])
  /\ \A k, l \in DOMAIN returns : k # l => Entries(returns[k]) \cap Entries(returns[l]) = {}

RolesDistinct ==
  /\ FundingLogs \cap Entries(settlements) = {}
  /\ (FundingLogs \cup Entries(settlements)) \cap (ReturnLogs \cup Entries(path)) = {}
  /\ ReturnLogs \cap Entries(path) = {}

EvidenceDistinct == FundingsDistinct /\ Distinct(settlements) /\ PathsDistinct /\ RolesDistinct

\* No log is evidence twice: not in two fundings, not for two settlements, not in two
\* return paths, and never in two of these roles (used_logs).
NoLogCountedTwice == verdict # "rejected" => EvidenceDistinct

\* Value moves forward in time: every settlement of a closed loop is later than some
\* funding of its buyer, every return path starts later than some settlement, and no
\* path goes back (closed_loop.rs 247, 347-366).
TimeRunsForward ==
  (claim.kind = "closed-loop" /\ verdict # "rejected") =>
     /\ \A n \in DOMAIN settlements : \E k \in DOMAIN fundings :
          /\ fundings[k].buyer = Log(settlements[n]).from
          /\ Time(fundings[k].transfer) < Time(settlements[n])
     /\ \A p \in Entries(returns) \cup {path} :
          /\ p # <<>> => \E n \in DOMAIN settlements : Time(settlements[n]) < Time(p[1])
          /\ \A m, n \in DOMAIN p : m < n => p[m] < p[n]

-----------------------------------------------------------------------------
(* What makes them inductive: the running state of the verification agrees *)
(* with the evidence it was computed from.                                 *)

SumsBounded == \A a \in Addresses : fundedBy[a] <= fundTotal /\ settledBy[a] <= settledTotal

EvidenceUsed ==
  verdict # "rejected" =>
    FundingLogs \cup Entries(settlements) \cup ReturnLogs \cup Entries(path) \subseteq used

\* The first times are times of listed evidence.
FirstTimes ==
  verdict # "rejected" =>
    /\ \A b \in Addresses : firstFunded[b] # Never =>
         \E k \in DOMAIN fundings :
           fundings[k].buyer = b /\ Time(fundings[k].transfer) = firstFunded[b]
    /\ firstSettled # Never =>
         \E n \in DOMAIN settlements : Time(settlements[n]) = firstSettled

ClaimInv ==
  TypeOK /\ SumsBounded /\ EvidenceUsed /\ FirstTimes /\ NoLogCountedTwice /\ TimeRunsForward

=============================================================================
