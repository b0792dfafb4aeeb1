---------------------------- MODULE ClaimRulesProofs ----------------------------
(***************************************************************************)
(* Proofs that SellerClaim decides the rules of ClaimRules, and what an    *)
(* accepted claim then says of the contracts' accounts, for every set of   *)
(* histories and claims and all bounds.                                    *)
(*                                                                         *)
(* The code adds up as it walks its lists and stops at the first bad       *)
(* element; a rule is a statement about whole lists.  RulesInv joins them: *)
(* the running sums are the sums over the evidence listed so far, used is  *)
(* the set of logs listed so far, and that evidence keeps to the rule.  An *)
(* element that counts extends both sides alike, an element that does not  *)
(* makes the rule false.                                                   *)
(***************************************************************************)
EXTENDS ClaimRules, FiniteSums

-----------------------------------------------------------------------------
(* Verifications *)

LEMMA Appended ==
  ASSUME NEW T, NEW s \in Seq(T), NEW e \in T
  PROVE  /\ Append(s, e) \in Seq(T)
         /\ DOMAIN Append(s, e) = DOMAIN s \cup {Len(s) + 1}
         /\ Append(s, e)[Len(s) + 1] = e
         /\ \A n \in DOMAIN s : Append(s, e)[n] = s[n] /\ n # Len(s) + 1
         /\ Entries(Append(s, e)) = Entries(s) \cup {e}
<1>1. /\ Append(s, e) \in Seq(T) /\ Len(s) \in Nat /\ DOMAIN s = 1 .. Len(s)
      /\ DOMAIN Append(s, e) = 1 .. Len(s) + 1
      /\ Append(s, e)[Len(s) + 1] = e
      /\ \A n \in 1 .. Len(s) : Append(s, e)[n] = s[n]
  OBVIOUS
<1>2. 1 .. Len(s) + 1 = 1 .. Len(s) \cup {Len(s) + 1}
  BY <1>1
<1> QED
  BY <1>1, <1>2 DEF Entries

\* A history gives every key a log of the right type.
LEMMA LogTypes ==
  ASSUME IsHistory(history), NEW i \in Keys
  PROVE  Log(i) \in Logs /\ Time(i) \in Nat
<1>1. history.logs \in Seq(Logs)
  BY DEF IsHistory
<1>2. Log(i) \in Logs
  BY <1>1 DEF Keys, Log
<1> QED
  BY <1>2 DEF Logs, Time

\* The evidence does not change what a log is.
LEMMA SameHistory ==
  ASSUME UNCHANGED <<history, claim>>
  PROVE  /\ Keys' = Keys /\ Fundings' = Fundings
         /\ \A i : Log(i)' = Log(i) /\ Time(i)' = Time(i)
BY DEF Keys, Fundings, Log, Time

-----------------------------------------------------------------------------
LEMMA InvInit == Init => ClaimInv
<1> SUFFICES ASSUME Init PROVE ClaimInv
  OBVIOUS
<1>1. TypeOK
  BY EvidenceAssumption
     DEF Init, TypeOK, Phases, Never, Fundings
<1>2. SumsBounded
  BY DEF Init, SumsBounded
<1>3. EvidenceUsed /\ FirstTimes
  BY DEF Init, EvidenceUsed, FirstTimes, FundingLogs, ReturnLogs, Entries
<1>4. NoLogCountedTwice
  BY DEF Init, NoLogCountedTwice, EvidenceDistinct, FundingsDistinct, PathsDistinct,
         RolesDistinct, FundingLogs, ReturnLogs, Entries, Distinct
<1>5. TimeRunsForward
  BY DEF Init, TimeRunsForward, Entries
<1> QED
  BY <1>1, <1>2, <1>3, <1>4, <1>5 DEF ClaimInv

LEMMA CheckKeeps ==
  ASSUME ClaimInv, verdict = "pending", UNCHANGED <<history, claim, lists, sums>>,
         phase' \in Phases, verdict' \in {"pending", "accepted", "rejected"}
  PROVE  ClaimInv'
<1> USE DEF lists, sums, fundingSums, settlementSums, returnSums
<1>1. TypeOK'
  BY DEF ClaimInv, TypeOK, Keys, Fundings, Addresses
<1>2. SumsBounded'
  BY DEF ClaimInv, SumsBounded
<1>3. EvidenceUsed'
  BY DEF ClaimInv, EvidenceUsed, FundingLogs, ReturnLogs, Entries
<1>4. FirstTimes'
  BY DEF ClaimInv, FirstTimes, Time, Log
<1>5. NoLogCountedTwice'
  <2>1. RolesDistinct' <=> RolesDistinct
    BY DEF RolesDistinct, FundingLogs, ReturnLogs, Entries
  <2>2. FundingsDistinct' <=> FundingsDistinct
    BY DEF FundingsDistinct
  <2>3. (PathsDistinct' <=> PathsDistinct) /\ (Distinct(settlements)' <=> Distinct(settlements))
    BY DEF PathsDistinct, Entries, Distinct
  <2> QED
    BY <2>1, <2>2, <2>3 DEF ClaimInv, NoLogCountedTwice, EvidenceDistinct
<1>6. TimeRunsForward'
  BY DEF ClaimInv, TimeRunsForward, Entries, Time, Log
<1> QED
  BY <1>1, <1>2, <1>3, <1>4, <1>5, <1>6 DEF ClaimInv

LEMMA RejectKeeps ==
  ASSUME ClaimInv, Reject,
         fundings' \in Seq(Fundings), settlements' \in Seq(Keys),
         returns' \in Seq(Seq(Keys)), path' \in Seq(Keys)
  PROVE  ClaimInv'
<1> USE DEF Reject, sums, fundingSums, settlementSums, returnSums
<1>1. TypeOK'
  BY DEF ClaimInv, TypeOK, Keys, Fundings, Addresses
<1>2. SumsBounded'
  BY DEF ClaimInv, SumsBounded
<1> QED
  BY <1>1, <1>2
     DEF ClaimInv, EvidenceUsed, FirstTimes, NoLogCountedTwice, TimeRunsForward

-----------------------------------------------------------------------------
\* What fits into the total fits into a part of it.
LEMMA PartFits ==
  ASSUME NEW max \in Nat, NEW total \in 0 .. max, NEW part \in 0 .. max, part <= total,
         NEW amount \in Nat, total + amount \in 0 .. max
  PROVE  part + amount \in 0 .. max
OBVIOUS

\* A funding or a pair deposit that no list has yet.
LEMMA FundingCounts ==
  ASSUME ClaimInv, verdict = "pending",
         NEW f \in Fundings,
         fundings' = Append(fundings, f), CountFunding(f),
         UNCHANGED <<history, claim, phase, verdict, settlements, returns, path>>,
         LogsOf(f) \cap used = {}, f.transfer # f.deposited,
         UsdcTransfer(f.transfer), Fits(fundTotal + Log(f.transfer).amount)
  PROVE  ClaimInv'
<1> DEFINE t == f.transfer
           last == Len(fundings) + 1
<1>1. /\ t \in Keys /\ f.buyer \in Addresses
      /\ IsHistory(history) /\ fundings \in Seq(Fundings)
  BY DEF Fundings, ClaimInv, TypeOK
<1>2. /\ Log(t).amount \in Nat /\ Time(t) \in PeriodStart .. PeriodEnd
  BY <1>1, LogTypes, EvidenceAssumption DEF Logs, UsdcTransfer, InPeriod, Time
<1>3. /\ fundings' \in Seq(Fundings)
      /\ DOMAIN fundings' = DOMAIN fundings \cup {last}
      /\ fundings'[last] = f
      /\ \A k \in DOMAIN fundings : fundings'[k] = fundings[k] /\ k # last
  BY <1>1, Appended
<1>4. FundingLogs' = FundingLogs \cup LogsOf(f)
  BY <1>3 DEF FundingLogs, LogsOf
<1>5. /\ Keys' = Keys /\ Fundings' = Fundings
      /\ \A i : Log(i)' = Log(i) /\ Time(i)' = Time(i)
  BY SameHistory
<1>6. /\ fundedBy \in [Addresses -> 0 .. AmountMax] /\ fundTotal \in 0 .. AmountMax
      /\ firstFunded \in [Addresses -> PeriodStart .. Never]
      /\ \A a \in Addresses : fundedBy[a] <= fundTotal
      /\ AmountMax \in Nat /\ PeriodStart \in Nat /\ PeriodEnd \in Nat /\ Never = PeriodEnd + 1
  BY EvidenceAssumption DEF ClaimInv, TypeOK, SumsBounded, Never
<1>7. /\ fundTotal' = fundTotal + Log(t).amount
       /\ fundedBy' = [fundedBy EXCEPT ![f.buyer] = @ + Log(t).amount]
       /\ firstFunded' = [firstFunded EXCEPT ![f.buyer] = Smaller(@, Time(t))]
       /\ used' = used \cup LogsOf(f)
       /\ UNCHANGED <<settledBy, settledTotal, firstSettled, returned, credit>>
  BY DEF CountFunding, settlementSums, returnSums
<1>8. TypeOK'
  <2>1. fundTotal' \in 0 .. AmountMax
    BY <1>2, <1>6, <1>7 DEF Fits
  <2>2. fundedBy[f.buyer] + Log(t).amount \in 0 .. AmountMax
    <3>1. fundedBy[f.buyer] \in 0 .. AmountMax /\ fundedBy[f.buyer] <= fundTotal
      BY <1>1, <1>6
    <3>2. fundTotal + Log(t).amount \in 0 .. AmountMax /\ fundTotal \in 0 .. AmountMax
      BY <1>6, <1>7, <2>1
    <3> QED
      BY <1>2, <1>6, <3>1, <3>2, PartFits
  <2>3. fundedBy' \in [Addresses -> 0 .. AmountMax]
    BY <1>1, <1>6, <1>7, <2>2
  <2>4. Smaller(firstFunded[f.buyer], Time(t)) \in PeriodStart .. Never
    BY <1>1, <1>2, <1>6 DEF Smaller
  <2>5. firstFunded' \in [Addresses -> PeriodStart .. Never]
    BY <1>1, <1>6, <1>7, <2>4
  <2>6. used' \subseteq Keys
    BY <1>1, <1>7 DEF ClaimInv, TypeOK, LogsOf, Fundings
  <2> QED
    BY <1>3, <1>5, <1>7, <2>1, <2>3, <2>5, <2>6 DEF ClaimInv, TypeOK
<1>9. SumsBounded'
  <2>1. ASSUME NEW a \in Addresses
        PROVE  fundedBy'[a] <= fundTotal' /\ settledBy'[a] <= settledTotal'
    <3>1. fundedBy[a] \in Nat /\ fundTotal \in Nat /\ fundedBy[a] <= fundTotal
      BY <1>6, <2>1
    <3>2. fundedBy'[a] \in {fundedBy[a], fundedBy[a] + Log(t).amount}
      BY <1>6, <1>7, <2>1
    <3>3. settledBy'[a] <= settledTotal'
      BY <1>7, <2>1 DEF ClaimInv, SumsBounded
    <3> QED
      BY <1>2, <1>7, <3>1, <3>2, <3>3
  <2> QED
    BY <2>1 DEF SumsBounded
<1>10. EvidenceUsed'
  BY <1>4, <1>7 DEF ClaimInv, EvidenceUsed, ReturnLogs, Entries
<1>11. FirstTimes'
  <2>1. ASSUME NEW b \in Addresses, firstFunded'[b] # Never
        PROVE  \E k \in DOMAIN fundings' :
                 fundings'[k].buyer = b /\ Time(fundings'[k].transfer) = firstFunded'[b]
    <3>1. CASE b = f.buyer /\ firstFunded'[b] = Time(t)
      BY <1>3, <1>5, <3>1
    <3>2. CASE firstFunded'[b] = firstFunded[b]
      <4>1. PICK k \in DOMAIN fundings :
              fundings[k].buyer = b /\ Time(fundings[k].transfer) = firstFunded[b]
        BY <2>1, <3>2 DEF ClaimInv, FirstTimes
      <4> QED
        BY <1>3, <1>5, <3>2, <4>1
    <3> QED
      BY <1>1, <1>6, <1>7, <3>1, <3>2 DEF Smaller
  <2> QED
    BY <1>5, <1>7, <2>1 DEF ClaimInv, FirstTimes
<1>12. NoLogCountedTwice'
  <2>1. /\ EvidenceDistinct
        /\ FundingLogs \cup Entries(settlements) \cup ReturnLogs \cup Entries(path) \subseteq used
    BY DEF ClaimInv, NoLogCountedTwice, EvidenceUsed
  <2>2. FundingsDistinct'
    <3>1. \A k \in DOMAIN fundings : LogsOf(fundings[k]) \cap LogsOf(f) = {}
      BY <2>1 DEF FundingLogs
    <3> QED
      BY <1>3, <2>1, <3>1 DEF EvidenceDistinct, FundingsDistinct
  <2>3. PathsDistinct' /\ Distinct(settlements)'
    BY <2>1 DEF EvidenceDistinct, PathsDistinct, Distinct, Entries
  <2>4. RolesDistinct'
    BY <1>4, <2>1 DEF EvidenceDistinct, RolesDistinct, ReturnLogs, Entries
  <2> QED
    BY <2>2, <2>3, <2>4 DEF NoLogCountedTwice, EvidenceDistinct
<1>13. TimeRunsForward'
  <2> SUFFICES ASSUME claim.kind = "closed-loop", verdict # "rejected" PROVE TimeRunsForward'
    BY DEF TimeRunsForward
  <2>1. PICK listed, paths : listed = settlements /\ paths = Entries(returns) \cup {path}
    OBVIOUS
  <2>2. settlements' = listed /\ (Entries(returns) \cup {path})' = paths
    BY <2>1 DEF Entries
  <2>3. \A n \in DOMAIN listed : \E k \in DOMAIN fundings :
          fundings[k].buyer = Log(listed[n]).from /\ Time(fundings[k].transfer) < Time(listed[n])
    BY <2>1 DEF ClaimInv, TimeRunsForward
  <2>4. \A p \in paths :
          /\ p # <<>> => \E n \in DOMAIN listed : Time(listed[n]) < Time(p[1])
          /\ \A m, n \in DOMAIN p : m < n => p[m] < p[n]
    BY <2>1 DEF ClaimInv, TimeRunsForward
  <2>5. \A n \in DOMAIN listed : \E k \in DOMAIN fundings' :
          fundings'[k].buyer = Log(listed[n]).from /\ Time(fundings'[k].transfer) < Time(listed[n])
    BY <1>3, <2>3
  <2>6. \A n \in DOMAIN listed : \E k \in DOMAIN fundings' :
          /\ fundings'[k].buyer = (Log(settlements[n]).from)'
          /\ Time(fundings[k].transfer)' < Time(settlements[n])'
    BY <1>5, <2>2, <2>5
  <2>7. \A p \in paths :
          p # <<>> => \E n \in DOMAIN listed : Time(settlements[n])' < Time(p[1])'
    BY <1>5, <2>2, <2>4
  <2> QED
    BY <2>2, <2>4, <2>6, <2>7 DEF TimeRunsForward
<1> QED
  BY <1>8, <1>9, <1>10, <1>11, <1>12, <1>13 DEF ClaimInv

\* A settlement no list has yet, later than the first funding of its buyer if the
\* claim is a closed loop.
LEMMA SettlementCounts ==
  ASSUME ClaimInv, verdict = "pending",
         NEW i \in Keys \ used,
         settlements' = Append(settlements, i), CountSettlement(i),
         UNCHANGED <<history, claim, phase, verdict, fundings, returns, path>>,
         ChannelSettled(i), Fits(settledTotal + Log(i).amount),
         claim.kind = "closed-loop" => Time(i) > firstFunded[Log(i).from]
  PROVE  ClaimInv'
<1> DEFINE last == Len(settlements) + 1
           buyer == Log(i).from
<1>1. /\ buyer \in Addresses /\ Log(i).amount \in Nat
      /\ Time(i) \in PeriodStart .. PeriodEnd
      /\ IsHistory(history) /\ settlements \in Seq(Keys)
  BY LogTypes, EvidenceAssumption DEF ClaimInv, TypeOK, Logs, ChannelSettled, InPeriod, Time
<1>2. /\ settlements' \in Seq(Keys)
      /\ DOMAIN settlements' = DOMAIN settlements \cup {last}
      /\ settlements'[last] = i
      /\ \A n \in DOMAIN settlements : settlements'[n] = settlements[n] /\ n # last
      /\ Entries(settlements') = Entries(settlements) \cup {i}
  BY <1>1, Appended
<1>3. /\ Keys' = Keys /\ Fundings' = Fundings
      /\ \A k : Log(k)' = Log(k) /\ Time(k)' = Time(k)
  BY SameHistory
<1>4. /\ settledBy \in [Addresses -> 0 .. AmountMax] /\ settledTotal \in 0 .. AmountMax
      /\ firstSettled \in PeriodStart .. Never
      /\ \A a \in Addresses : settledBy[a] <= settledTotal
      /\ AmountMax \in Nat /\ PeriodStart \in Nat /\ PeriodEnd \in Nat /\ Never = PeriodEnd + 1
  BY EvidenceAssumption DEF ClaimInv, TypeOK, SumsBounded, Never
<1>5. /\ settledTotal' = settledTotal + Log(i).amount
      /\ settledBy' = [settledBy EXCEPT ![buyer] = @ + Log(i).amount]
      /\ firstSettled' = Smaller(firstSettled, Time(i))
      /\ used' = used \cup {i}
      /\ UNCHANGED <<fundedBy, fundTotal, firstFunded, returned, credit>>
  BY DEF CountSettlement, fundingSums, returnSums
<1>6. TypeOK'
  <2>1. settledTotal' \in 0 .. AmountMax
    BY <1>1, <1>4, <1>5 DEF Fits
  <2>2. settledBy[buyer] + Log(i).amount \in 0 .. AmountMax
    <3>1. settledBy[buyer] \in 0 .. AmountMax /\ settledBy[buyer] <= settledTotal
      BY <1>1, <1>4
    <3>2. settledTotal + Log(i).amount \in 0 .. AmountMax /\ settledTotal \in 0 .. AmountMax
      BY <1>4, <1>5, <2>1
    <3> QED
      BY <1>1, <1>4, <3>1, <3>2, PartFits
  <2>3. settledBy' \in [Addresses -> 0 .. AmountMax]
    BY <1>1, <1>4, <1>5, <2>2
  <2>4. firstSettled' \in PeriodStart .. Never
    BY <1>1, <1>4, <1>5 DEF Smaller
  <2> QED
    BY <1>2, <1>3, <1>5, <2>1, <2>3, <2>4 DEF ClaimInv, TypeOK
<1>7. SumsBounded'
  BY <1>1, <1>4, <1>5 DEF ClaimInv, SumsBounded
<1>8. EvidenceUsed'
  BY <1>2, <1>5 DEF ClaimInv, EvidenceUsed, FundingLogs, ReturnLogs, Entries
<1>9. FirstTimes'
  <2>1. firstSettled' # Never => \E n \in DOMAIN settlements' : Time(settlements'[n]) = firstSettled'
    <3>1. CASE firstSettled' = Time(i)
      BY <1>2, <3>1
    <3>2. CASE firstSettled' = firstSettled
      BY <1>2, <3>2 DEF ClaimInv, FirstTimes
    <3> QED
      BY <1>5, <3>1, <3>2 DEF Smaller
  <2> QED
    BY <1>3, <1>5, <2>1 DEF ClaimInv, FirstTimes
<1>10. NoLogCountedTwice'
  <2>1. /\ EvidenceDistinct
        /\ FundingLogs \cup Entries(settlements) \cup ReturnLogs \cup Entries(path) \subseteq used
    BY DEF ClaimInv, NoLogCountedTwice, EvidenceUsed
  <2>2. Distinct(settlements)'
    <3>1. \A n \in DOMAIN settlements : settlements[n] # i
      BY <2>1 DEF Entries
    <3> QED
      BY <1>2, <2>1, <3>1 DEF EvidenceDistinct, Distinct
  <2>3. FundingsDistinct' /\ PathsDistinct'
    <3>1. FundingsDistinct'
      BY <2>1 DEF EvidenceDistinct, FundingsDistinct, LogsOf
    <3>2. PathsDistinct'
      BY <2>1 DEF EvidenceDistinct, PathsDistinct, Distinct, Entries
    <3> QED
      BY <3>1, <3>2
  <2>4. RolesDistinct'
    <3>1. /\ FundingLogs' = FundingLogs /\ ReturnLogs' = ReturnLogs
          /\ Entries(path)' = Entries(path)
      BY DEF FundingLogs, ReturnLogs, Entries
    <3>2. Entries(settlements)' = Entries(settlements) \cup {i}
      BY <1>2
    <3> QED
      BY <2>1, <3>1, <3>2 DEF EvidenceDistinct, RolesDistinct
  <2> QED
    BY <2>2, <2>3, <2>4 DEF NoLogCountedTwice, EvidenceDistinct
<1>11. TimeRunsForward'
  <2> SUFFICES ASSUME claim.kind = "closed-loop"
               PROVE  TimeRunsForward'
    BY DEF TimeRunsForward
  <2>1. PICK k \in DOMAIN fundings :
          fundings[k].buyer = buyer /\ Time(fundings[k].transfer) = firstFunded[buyer]
    <3>1. firstFunded[buyer] # Never
      BY <1>1, <1>4 DEF ClaimInv, TypeOK
    <3> QED
      BY <1>1, <3>1 DEF ClaimInv, FirstTimes
  <2>2. Time(fundings[k].transfer) < Time(i)
    BY <1>1, <2>1, <1>4 DEF ClaimInv, TypeOK
  <2>3. \A n \in DOMAIN settlements' : \E m \in DOMAIN fundings :
           /\ fundings[m].buyer = Log(settlements'[n]).from
           /\ Time(fundings[m].transfer) < Time(settlements'[n])
    BY <1>2, <2>1, <2>2 DEF ClaimInv, TimeRunsForward
  <2>4. \A p \in Entries(returns) \cup {path} :
          /\ p # <<>> => \E n \in DOMAIN settlements' : Time(settlements'[n]) < Time(p[1])
          /\ \A m, n \in DOMAIN p : m < n => p[m] < p[n]
    <3> SUFFICES ASSUME NEW p \in Entries(returns) \cup {path}, p # <<>>
                 PROVE  \E n \in DOMAIN settlements' : Time(settlements'[n]) < Time(p[1])
      BY DEF ClaimInv, TimeRunsForward
    <3>1. PICK n \in DOMAIN settlements : Time(settlements[n]) < Time(p[1])
      BY DEF ClaimInv, TimeRunsForward
    <3> QED
      BY <1>2, <3>1
  <2> QED
    BY <1>3, <2>3, <2>4 DEF TimeRunsForward, Entries
<1> QED
  BY <1>6, <1>7, <1>8, <1>9, <1>10, <1>11 DEF ClaimInv

\* A hop no list has yet that continues the path, or starts one.
LEMMA HopCounted ==
  ASSUME ClaimInv, verdict = "pending",
         NEW i \in Keys, HopCounts(i), CountHop(i),
         path' = Append(path, i),
         UNCHANGED <<history, claim, phase, verdict, fundings, settlements, returns>>
  PROVE  ClaimInv'
<1> DEFINE last == Len(path) + 1
<1>1. /\ Log(i).amount \in 0 .. AmountMax /\ i \notin used
      /\ Time(i) \in PeriodStart .. PeriodEnd
      /\ IsHistory(history) /\ path \in Seq(Keys)
      /\ PeriodEnd \in Nat /\ PeriodStart \in Nat
  BY LogTypes, EvidenceAssumption
     DEF ClaimInv, TypeOK, Logs, HopCounts, UsdcTransfer, InPeriod, Time
<1>2. /\ path' \in Seq(Keys)
      /\ DOMAIN path' = DOMAIN path \cup {last}
      /\ path'[last] = i
      /\ \A n \in DOMAIN path : path'[n] = path[n] /\ n # last
      /\ Entries(path') = Entries(path) \cup {i}
  BY <1>1, Appended
<1>3. /\ Keys' = Keys /\ Fundings' = Fundings
      /\ \A k : Log(k)' = Log(k) /\ Time(k)' = Time(k)
  BY SameHistory
<1>4. /\ used' = used \cup {i}
      /\ UNCHANGED <<fundedBy, fundTotal, firstFunded, settledBy, settledTotal, firstSettled,
                     returned>>
  BY DEF CountHop, fundingSums, settlementSums
<1>5. TypeOK'
  <2>1. credit' \in 0 .. AmountMax
    BY <1>1 DEF ClaimInv, TypeOK, CountHop, Smaller
  <2> QED
    BY <1>2, <1>3, <1>4, <2>1 DEF ClaimInv, TypeOK
<1>6. SumsBounded'
  BY <1>4 DEF ClaimInv, SumsBounded
<1>7. EvidenceUsed'
  BY <1>2, <1>4 DEF ClaimInv, EvidenceUsed, FundingLogs, ReturnLogs, Entries
<1>8. FirstTimes'
  BY <1>3, <1>4 DEF ClaimInv, FirstTimes
<1>9. NoLogCountedTwice'
  <2>1. /\ EvidenceDistinct
        /\ FundingLogs \cup Entries(settlements) \cup ReturnLogs \cup Entries(path) \subseteq used
    BY DEF ClaimInv, NoLogCountedTwice, EvidenceUsed
  <2>2. Distinct(path)'
    <3>1. \A n \in DOMAIN path : path[n] # i
      BY <1>1, <2>1 DEF Entries
    <3> QED
      BY <1>2, <2>1, <3>1 DEF EvidenceDistinct, PathsDistinct, Distinct
  <2>3. FundingsDistinct' /\ Distinct(settlements)'
    BY <2>1 DEF EvidenceDistinct, FundingsDistinct, Distinct
  <2>4. PathsDistinct'
    BY <2>1, <2>2 DEF EvidenceDistinct, PathsDistinct
  <2>5. RolesDistinct'
    <3>1. /\ FundingLogs' = FundingLogs /\ ReturnLogs' = ReturnLogs
          /\ Entries(settlements)' = Entries(settlements)
      BY DEF FundingLogs, ReturnLogs, Entries
    <3>2. Entries(path)' = Entries(path) \cup {i}
      BY <1>2
    <3> QED
      BY <1>1, <2>1, <3>1, <3>2 DEF EvidenceDistinct, RolesDistinct
  <2> QED
    BY <2>3, <2>4, <2>5 DEF NoLogCountedTwice, EvidenceDistinct
<1>10. TimeRunsForward'
  <2> SUFFICES ASSUME claim.kind = "closed-loop"
               PROVE  TimeRunsForward'
    BY DEF TimeRunsForward
  <2>1. \A m, n \in DOMAIN path' : m < n => path'[m] < path'[n]
    <3>1. \A m \in DOMAIN path : path[m] < i
      <4> SUFFICES ASSUME NEW m \in DOMAIN path PROVE path[m] < i
        OBVIOUS
      <4>1. /\ path # <<>> /\ Len(path) \in DOMAIN path /\ m <= Len(path)
            /\ Len(path) \in Nat /\ m \in Nat
            /\ path[Len(path)] \in Nat /\ path[m] \in Nat /\ i \in Nat
        <5>1. path \in Seq(Nat) /\ i \in Nat
          BY <1>1 DEF Keys
        <5> QED
          BY <5>1
      <4>2. path[Len(path)] < i
        BY <4>1 DEF HopCounts, Continues
      <4>3. m < Len(path) => path[m] < path[Len(path)]
        BY <4>1 DEF ClaimInv, TimeRunsForward
      <4> QED
        BY <4>1, <4>2, <4>3
    <3>2. \A m, n \in DOMAIN path : m < n => path[m] < path[n]
      BY DEF ClaimInv, TimeRunsForward
    <3>3. \A m \in DOMAIN path' : ~(last < m)
      BY <1>1, <1>2
    <3> QED
      BY <1>2, <3>1, <3>2, <3>3
  <2>2. \E n \in DOMAIN settlements : Time(settlements[n]) < Time(path'[1])
    <3>1. CASE path = <<>>
      <4>1. firstSettled < Time(i) /\ path'[1] = i
        BY <1>2, <3>1 DEF HopCounts, Continues
      <4>2. firstSettled # Never
        BY <1>1, <4>1 DEF ClaimInv, TypeOK, Never
      <4> QED
        BY <4>1, <4>2 DEF ClaimInv, FirstTimes
    <3>2. CASE path # <<>>
      <4>1. 1 \in DOMAIN path
        BY <1>1, <3>2
      <4> QED
        BY <1>2, <3>2, <4>1 DEF ClaimInv, TimeRunsForward
    <3> QED
      BY <3>1, <3>2
  <2> QED
    BY <1>3, <2>1, <2>2 DEF ClaimInv, TimeRunsForward, Entries
<1> QED
  BY <1>5, <1>6, <1>7, <1>8, <1>9, <1>10 DEF ClaimInv

\* A path that ends moves into the list of returns.
LEMMA PathCounted ==
  ASSUME ClaimInv, verdict = "pending",
         path # <<>>, Fits(returned + credit),
         returns' = Append(returns, path), path' = <<>>,
         returned' = returned + credit, credit' = AmountMax,
         UNCHANGED <<history, claim, phase, verdict, fundings, settlements, used,
                     fundingSums, settlementSums>>
  PROVE  ClaimInv'
<1> DEFINE last == Len(returns) + 1
<1>1. /\ returns \in Seq(Seq(Keys)) /\ path \in Seq(Keys) /\ AmountMax \in Nat
  BY EvidenceAssumption DEF ClaimInv, TypeOK
<1>2. /\ returns' \in Seq(Seq(Keys))
      /\ DOMAIN returns' = DOMAIN returns \cup {last}
      /\ returns'[last] = path
      /\ \A k \in DOMAIN returns : returns'[k] = returns[k] /\ k # last
      /\ Entries(returns') = Entries(returns) \cup {path}
  BY <1>1, Appended
<1>3. /\ Keys' = Keys /\ Fundings' = Fundings
      /\ \A k : Log(k)' = Log(k) /\ Time(k)' = Time(k)
  BY SameHistory
<1>4. /\ ReturnLogs' = ReturnLogs \cup Entries(path)
      /\ Entries(path') = {} /\ path' \in Seq(Keys)
  BY <1>2 DEF ReturnLogs, Entries
<1>5. FundingLogs' = FundingLogs
  BY DEF FundingLogs
<1>6. TypeOK'
  <2>1. returned' \in 0 .. AmountMax /\ credit' \in 0 .. AmountMax
    BY <1>1 DEF ClaimInv, TypeOK, Fits
  <2> QED
    BY <1>2, <1>3, <1>4, <2>1 DEF ClaimInv, TypeOK, fundingSums, settlementSums
<1>7. SumsBounded'
  BY DEF ClaimInv, SumsBounded, fundingSums, settlementSums
<1>8. EvidenceUsed'
  BY <1>4, <1>5 DEF ClaimInv, EvidenceUsed
<1>9. FirstTimes'
  BY <1>3 DEF ClaimInv, FirstTimes, fundingSums, settlementSums
<1>10. NoLogCountedTwice'
  <2>1. EvidenceDistinct
    BY DEF ClaimInv, NoLogCountedTwice
  <2>2. FundingsDistinct' /\ Distinct(settlements)'
    BY <2>1 DEF EvidenceDistinct, FundingsDistinct, Distinct
  <2>3. PathsDistinct'
    <3>1. Distinct(path') /\ \A k \in DOMAIN returns' : Distinct(returns'[k])
      <4>1. Distinct(<<>>)
        BY DEF Distinct
      <4> QED
        BY <1>2, <2>1, <4>1 DEF EvidenceDistinct, PathsDistinct
    <3>2. \A k \in DOMAIN returns : Entries(returns[k]) \cap Entries(path) = {}
      BY <2>1 DEF EvidenceDistinct, RolesDistinct, ReturnLogs
    <3> QED
      BY <1>2, <2>1, <3>1, <3>2 DEF EvidenceDistinct, PathsDistinct
  <2>4. RolesDistinct'
    BY <1>4, <1>5, <2>1 DEF EvidenceDistinct, RolesDistinct
  <2> QED
    BY <2>2, <2>3, <2>4 DEF NoLogCountedTwice, EvidenceDistinct
<1>11. TimeRunsForward'
  <2>1. DOMAIN path' = {}
    OBVIOUS
  <2> QED
    BY <1>2, <1>3, <2>1 DEF ClaimInv, TimeRunsForward
<1> QED
  BY <1>6, <1>7, <1>8, <1>9, <1>10, <1>11 DEF ClaimInv

-----------------------------------------------------------------------------
\* A check that is followed by phase next, whatever its condition.
LEMMA Checked ==
  ASSUME ClaimInv, verdict = "pending", NEW next \in Phases, UNCHANGED lists,
         Reject \/ (phase' = next /\ UNCHANGED <<history, claim, verdict, sums>>)
  PROVE  ClaimInv'
<1>1. CASE Reject
  BY <1>1, RejectKeeps DEF lists, ClaimInv, TypeOK
<1>2. CASE phase' = next /\ UNCHANGED <<history, claim, verdict, sums>>
  BY <1>2, CheckKeeps DEF ClaimInv, TypeOK
<1> QED
  BY <1>1, <1>2

LEMMA FundingKeeps ==
  ASSUME ClaimInv, verdict = "pending", VerifyFunding \/ VerifyPairDeposit
  PROVE  ClaimInv'
<1>1. UNCHANGED <<settlements, returns, path>> /\ fundings \in Seq(Fundings)
  BY DEF VerifyFunding, VerifyPairDeposit, ClaimInv, TypeOK
<1>2. PICK f \in Fundings :
        /\ fundings' = Append(fundings, f)
        /\ \/ FundsBuyer(f) /\ CountFunding(f) /\ UNCHANGED <<history, claim, phase, verdict>>
           \/ DepositsInPair(f) /\ CountFunding(f) /\ UNCHANGED <<history, claim, phase, verdict>>
           \/ Reject
  BY DEF VerifyFunding, VerifyPairDeposit, Take
<1>3. CASE Reject
  BY <1>1, <1>2, <1>3, RejectKeeps, Appended DEF ClaimInv, TypeOK
<1>4. CASE FundsBuyer(f) \/ DepositsInPair(f)
  <2>1. /\ LogsOf(f) \cap used = {}
        /\ UsdcTransfer(f.transfer) /\ Fits(fundTotal + Log(f.transfer).amount)
    BY <1>4 DEF FundsBuyer, DepositsInPair, ProtocolDeposit
  <2>2. f.transfer # f.deposited
    <3>1. CASE Direct(f)
      BY <3>1, <1>2 DEF Fundings, Direct, Keys
    <3>2. CASE ~Direct(f)
      BY <3>2, <1>4, <1>2 DEF FundsBuyer, DepositsInPair, ProtocolDeposit, Fundings, Keys
    <3> QED
      BY <3>1, <3>2
  <2>3. CASE Reject
    BY <2>3, <1>3
  <2>4. CASE CountFunding(f) /\ UNCHANGED <<history, claim, phase, verdict>>
    BY <1>1, <1>2, <2>1, <2>2, <2>4, FundingCounts
  <2> QED
    BY <1>2, <2>3, <2>4
<1> QED
  BY <1>2, <1>3, <1>4

LEMMA SettlementKeeps ==
  ASSUME ClaimInv, verdict = "pending", VerifySettlement \/ VerifyPairSettlement
  PROVE  ClaimInv'
<1>1. UNCHANGED <<fundings, returns, path>> /\ settlements \in Seq(Keys)
  BY DEF VerifySettlement, VerifyPairSettlement, ClaimInv, TypeOK
<1>2. PICK i \in Keys :
        /\ settlements' = Append(settlements, i)
        /\ \/ /\ \/ claim.kind = "closed-loop" /\ SettlesWithSeller(i)
                 \/ claim.kind = "reciprocal" /\ SettlesInPair(i)
              /\ CountSettlement(i) /\ UNCHANGED <<history, claim, phase, verdict>>
           \/ Reject
  BY DEF VerifySettlement, VerifyPairSettlement, Take, Verifying
<1>3. CASE Reject
  BY <1>1, <1>2, <1>3, RejectKeeps, Appended DEF ClaimInv, TypeOK
<1>4. CASE /\ \/ claim.kind = "closed-loop" /\ SettlesWithSeller(i)
              \/ claim.kind = "reciprocal" /\ SettlesInPair(i)
           /\ CountSettlement(i) /\ UNCHANGED <<history, claim, phase, verdict>>
  <2>1. /\ i \in Keys \ used /\ ChannelSettled(i) /\ Fits(settledTotal + Log(i).amount)
        /\ claim.kind = "closed-loop" => Time(i) > firstFunded[Log(i).from]
    BY <1>4 DEF SettlesWithSeller, SettlesInPair
  <2> QED
    BY <1>1, <1>2, <1>4, <2>1, SettlementCounts
<1> QED
  BY <1>2, <1>3, <1>4

LEMMA HopKeeps ==
  ASSUME ClaimInv, verdict = "pending", VerifyHop
  PROVE  ClaimInv'
<1>1. PICK i \in Keys :
        /\ path' = Append(path, i)
        /\ \/ HopCounts(i) /\ CountHop(i) /\ UNCHANGED <<history, claim, phase, verdict>>
           \/ Reject
        /\ UNCHANGED <<fundings, settlements, returns>>
  BY DEF VerifyHop, Take
<1>2. CASE Reject
  BY <1>1, <1>2, RejectKeeps, Appended DEF ClaimInv, TypeOK
<1>3. CASE HopCounts(i) /\ CountHop(i) /\ UNCHANGED <<history, claim, phase, verdict>>
  BY <1>1, <1>3, HopCounted
<1> QED
  BY <1>1, <1>2, <1>3

LEMMA PathKeeps ==
  ASSUME ClaimInv, verdict = "pending", PathEnds
  PROVE  ClaimInv'
<1>1. /\ returns' = Append(returns, path) /\ path' = <<>> /\ UNCHANGED <<fundings, settlements>>
      /\ path \in Seq(Keys) /\ returns \in Seq(Seq(Keys)) /\ path' \in Seq(Keys)
  BY DEF PathEnds, ClaimInv, TypeOK
<1>2. CASE Reject
  BY <1>1, <1>2, RejectKeeps, Appended DEF ClaimInv, TypeOK
<1>3. CASE ~Reject
  BY <1>1, <1>3, PathCounted DEF PathEnds, Take, CountPath
<1> QED
  BY <1>2, <1>3

LEMMA StutterKeeps ==
  ASSUME ClaimInv, UNCHANGED vars
  PROVE  ClaimInv'
<1> USE DEF vars, lists, sums, fundingSums, settlementSums, returnSums
<1>1. TypeOK' /\ SumsBounded'
  BY DEF ClaimInv, TypeOK, SumsBounded, Keys, Fundings
<1>2. EvidenceUsed' /\ FirstTimes'
  BY DEF ClaimInv, EvidenceUsed, FundingLogs, ReturnLogs, Entries, FirstTimes, Time, Log
<1>3. NoLogCountedTwice'
  BY DEF ClaimInv, NoLogCountedTwice, EvidenceDistinct, FundingsDistinct, PathsDistinct,
         RolesDistinct, FundingLogs, ReturnLogs, Entries, Distinct
<1>4. TimeRunsForward'
  BY DEF ClaimInv, TimeRunsForward, Entries, Time, Log
<1> QED
  BY <1>1, <1>2, <1>3, <1>4 DEF ClaimInv

LEMMA InvStep == ClaimInv /\ [Next]_vars => ClaimInv'
<1> SUFFICES ASSUME ClaimInv, [Next]_vars PROVE ClaimInv'
  OBVIOUS
<1> USE DEF Verifying
<1>1. CASE LoopHeader
  BY <1>1, Checked DEF LoopHeader, Check, Phases
<1>2. CASE VerifyFunding \/ VerifyPairDeposit
  BY <1>2, FundingKeeps DEF VerifyFunding, VerifyPairDeposit
<1>3. CASE FundingsEnd
  BY <1>3, Checked DEF FundingsEnd, Check, Phases
<1>4. CASE VerifySettlement \/ VerifyPairSettlement
  BY <1>4, SettlementKeeps DEF VerifySettlement, VerifyPairSettlement
<1>5. CASE SettlementsEnd
  BY <1>5, Checked DEF SettlementsEnd, Check, Phases
<1>6. CASE VerifyLedgers
  BY <1>6, Checked DEF VerifyLedgers, Check, Phases
<1>7. CASE VerifyHop
  BY <1>7, HopKeeps DEF VerifyHop
<1>8. CASE PathEnds
  BY <1>8, PathKeeps DEF PathEnds
<1>9. CASE ReturnsEnd
  BY <1>9, Checked DEF ReturnsEnd, Check, Phases
<1>10. CASE PairHeader
  BY <1>10, Checked DEF PairHeader, Check, Phases
<1>11. CASE PairSettlementsEnd
  BY <1>11, Checked DEF PairSettlementsEnd, Check, Phases
<1>12. CASE VerifyPairLedger
  BY <1>12, Checked DEF VerifyPairLedger, Check, Phases
<1>13. CASE VerifySeller
  BY <1>13, CheckKeeps DEF VerifySeller, ClaimInv, TypeOK
<1>14. CASE UNCHANGED vars
  BY <1>14, StutterKeeps
<1> QED
  BY <1>1, <1>2, <1>3, <1>4, <1>5, <1>6, <1>7, <1>8, <1>9, <1>10, <1>11, <1>12, <1>13, <1>14
     DEF Next, LoopNext, PairNext, Done

\* The invariant holds of every history, claim and bound.
THEOREM ClaimInvariant == Spec => []ClaimInv
BY InvInit, InvStep, PTL DEF Spec

\* The state of a verification is well typed: no sum exceeds the largest amount, so no
\* checked addition of the code that passed has overflowed.
THEOREM ClaimTypes == Spec => []TypeOK
BY ClaimInvariant, PTL DEF ClaimInv

\* No log of the history is counted as evidence twice, in one role or in two.
THEOREM LogsCountOnce == Spec => []NoLogCountedTwice
BY ClaimInvariant, PTL DEF ClaimInv

\* Settlements follow fundings of their buyers, return paths follow settlements and run
\* forward, in whatever order the evidence is listed.
THEOREM EvidenceInOrder == Spec => []TimeRunsForward
BY ClaimInvariant, PTL DEF ClaimInv

-----------------------------------------------------------------------------
(* The sums the rules are stated with.                                     *)

LEMMA AmountIsSum ==
  ASSUME IsHistory(history)
  PROVE  \E g \in [Keys -> Nat] :
           /\ \A i \in Keys : g[i] = Log(i).amount
           /\ \A s \in SUBSET Keys : AmountOf(s) = SumOver(g, s)
<1>1. PICK g : g = [i \in Keys |-> Log(i).amount]
  OBVIOUS
<1>2. \A i \in Keys : Log(i).amount \in Nat
  BY LogTypes, EvidenceAssumption DEF Logs
<1>3. g \in [Keys -> Nat]
  BY <1>1, <1>2
<1>4. \A i \in Keys : g[i] = Log(i).amount
  BY <1>1
<1>5. ASSUME NEW s \in SUBSET Keys PROVE AmountOf(s) = SumOver(g, s)
  <2>1. [i \in s |-> Log(i).amount] = [i \in s |-> g[i]]
    BY <1>4
  <2> QED
    BY <2>1 DEF AmountOf, SumOver
<1> QED
  BY <1>3, <1>4, <1>5

LEMMA KeysFinite == IsHistory(history) => IsFiniteSet(Keys) /\ Keys \in SUBSET Nat
<1> SUFFICES ASSUME IsHistory(history) PROVE IsFiniteSet(Keys) /\ Keys \in SUBSET Nat
  OBVIOUS
<1>1. Len(history.logs) \in Nat
  BY DEF IsHistory
<1> QED
  BY <1>1, FS_Interval DEF Keys

LEMMA AmountType ==
  ASSUME IsHistory(history), NEW s \in SUBSET Keys
  PROVE  AmountOf(s) \in Nat
BY AmountIsSum, KeysFinite, SumOverType

LEMMA AmountNone == AmountOf({}) = 0
BY SumOfNone DEF AmountOf

LEMMA AmountMore ==
  ASSUME IsHistory(history), NEW s \in SUBSET Keys, NEW i \in Keys \ s
  PROVE  AmountOf(s \cup {i}) = AmountOf(s) + Log(i).amount
<1>1. PICK g \in [Keys -> Nat] :
        /\ \A j \in Keys : g[j] = Log(j).amount
        /\ \A t \in SUBSET Keys : AmountOf(t) = SumOver(g, t)
  BY AmountIsSum
<1>2. SumOver(g, s \cup {i}) = SumOver(g, s) + g[i]
  BY KeysFinite, SumOverMore
<1>3. s \cup {i} \in SUBSET Keys
  OBVIOUS
<1> QED
  BY <1>1, <1>2, <1>3

LEMMA AmountUnion ==
  ASSUME IsHistory(history), NEW s \in SUBSET Keys, NEW t \in SUBSET Keys, s \cap t = {}
  PROVE  AmountOf(s \cup t) = AmountOf(s) + AmountOf(t)
<1>1. PICK g \in [Keys -> Nat] : \A u \in SUBSET Keys : AmountOf(u) = SumOver(g, u)
  BY AmountIsSum
<1>2. SumOver(g, s \cup t) = SumOver(g, s) + SumOver(g, t)
  BY KeysFinite, SumOverUnion
<1>3. s \cup t \in SUBSET Keys
  OBVIOUS
<1> QED
  BY <1>1, <1>2, <1>3

LEMMA AmountPart ==
  ASSUME IsHistory(history), NEW t \in SUBSET Keys, NEW s \in SUBSET t
  PROVE  AmountOf(s) <= AmountOf(t)
<1>1. PICK g \in [Keys -> Nat] : \A u \in SUBSET Keys : AmountOf(u) = SumOver(g, u)
  BY AmountIsSum
<1>2. SumOver(g, s) <= SumOver(g, t)
  BY KeysFinite, SumOverPart
<1> QED
  BY <1>1, <1>2

\* The end balances of a pair, and the least amount of a path.
LEMMA EndingOfPair ==
  ASSUME IsHistory(history), NEW a \in Addresses, NEW b \in Addresses, a # b
  PROVE  Ending({a, b}) = history.end[a] + history.end[b]
<1>1. PICK e : e = history.end
  OBVIOUS
<1>2. e \in [Addresses -> Nat]
  BY <1>1 DEF IsHistory
<1>3. IsFiniteSet({a, b})
  <2>1. IsFiniteSet({a}) /\ {a, b} = {a} \cup {b}
    BY FS_Singleton
  <2> QED
    BY <2>1, FS_AddElement
<1>4. PICK g : g = [x \in {a, b} |-> e[x]]
  OBVIOUS
<1>5. g \in [{a, b} -> Nat] /\ g[a] = e[a] /\ g[b] = e[b]
  <2>1. e[a] \in Nat /\ e[b] \in Nat
    BY <1>2
  <2>2. g[a] = e[a] /\ g[b] = e[b]
    BY <1>4
  <2> QED
    BY <1>4, <2>1, <2>2
<1>6. SumOver(g, {a}) = g[a]
  <2>1. SumOver(g, {} \cup {a}) = SumOver(g, {}) + g[a]
    BY <1>3, <1>5, SumOverMore
  <2>2. {} \cup {a} = {a} /\ g[a] \in Nat
    BY <1>5
  <2> QED
    BY <2>1, <2>2, SumOverNone
<1>7. SumOver(g, {a} \cup {b}) = SumOver(g, {a}) + g[b]
  BY <1>3, <1>5, SumOverMore
<1>8. {a} \cup {b} = {a, b} /\ [x \in {a, b} |-> g[x]] = [x \in {a, b} |-> e[x]]
  BY <1>4
<1> QED
  BY <1>1, <1>5, <1>6, <1>7, <1>8 DEF Ending, SumOver

LEMMA EndingOfOne ==
  ASSUME IsHistory(history), NEW a \in Addresses
  PROVE  Ending({a}) = history.end[a]
<1>1. PICK e : e = history.end
  OBVIOUS
<1>2. e \in [Addresses -> Nat]
  BY <1>1 DEF IsHistory
<1>3. IsFiniteSet({a})
  BY FS_EmptySet, FS_AddElement
<1>4. PICK g : g = [x \in {a} |-> e[x]]
  OBVIOUS
<1>5. g \in [{a} -> Nat] /\ g[a] = e[a] /\ g[a] \in Nat
  BY <1>2, <1>4
<1>6. SumOver(g, {} \cup {a}) = SumOver(g, {}) + g[a]
  BY <1>3, <1>5, SumOverMore
<1>7. {} \cup {a} = {a} /\ [x \in {a} |-> g[x]] = [x \in {a} |-> e[x]]
  BY <1>4
<1> QED
  BY <1>1, <1>5, <1>6, <1>7, SumOverNone DEF Ending, SumOver

LEMMA MinOf ==
  ASSUME NEW T \in SUBSET Nat, T # {}
  PROVE  Min(T) \in T /\ \A x \in T : Min(T) <= x
BY Least DEF Min

LEMMA MinOfOne == ASSUME NEW x \in Nat PROVE Min({x}) = x
BY MinOf

LEMMA MinOfMore ==
  ASSUME NEW T \in SUBSET Nat, T # {}, NEW x \in Nat
  PROVE  Min(T \cup {x}) = Smaller(Min(T), x)
<1>1. PICK m : m = Min(T)
  OBVIOUS
<1>2. PICK n : n = Min(T \cup {x})
  OBVIOUS
<1>3. m \in T /\ \A y \in T : m <= y
  BY <1>1, MinOf
<1>4. n \in T \cup {x} /\ \A y \in T \cup {x} : n <= y
  <2>1. T \cup {x} \in SUBSET Nat /\ T \cup {x} # {}
    OBVIOUS
  <2> QED
    BY <1>2, <2>1, MinOf
<1>5. n = Smaller(m, x)
  BY <1>3, <1>4 DEF Smaller
<1> QED
  BY <1>1, <1>2, <1>5

-----------------------------------------------------------------------------
(* One more piece of evidence in a list.                                   *)

LEMMA SameSums ==
  ASSUME UNCHANGED history
  PROVE  \A S : AmountOf(S)' = AmountOf(S) /\ Ending(S)' = Ending(S)
BY DEF AmountOf, Log, Ending

LEMMA TransfersAreLogs ==
  ASSUME fundings \in Seq(Fundings), NEW K \in SUBSET DOMAIN fundings
  PROVE  TransfersOf(K) \in SUBSET Keys /\ TransfersOf(K) \in SUBSET FundingLogs
<1>1. \A k \in DOMAIN fundings : fundings[k] \in Fundings
  OBVIOUS
<1>2. \A k \in DOMAIN fundings :
        /\ fundings[k].transfer \in Keys
        /\ fundings[k].transfer \in LogsOf(fundings[k])
  BY <1>1 DEF Fundings, LogsOf, Keys
<1> QED
  BY <1>2 DEF TransfersOf, FundingLogs

LEMMA FundingListed ==
  ASSUME fundings \in Seq(Fundings), NEW f \in Fundings,
         fundings' = Append(fundings, f), UNCHANGED history
  PROVE  /\ TransfersOf(DOMAIN fundings)' = TransfersOf(DOMAIN fundings) \cup {f.transfer}
         /\ TransfersOf(FundingsOf(f.buyer))'
              = TransfersOf(FundingsOf(f.buyer)) \cup {f.transfer}
         /\ \A b : b # f.buyer =>
              /\ FundingsOf(b)' = FundingsOf(b)
              /\ TransfersOf(FundingsOf(b))' = TransfersOf(FundingsOf(b))
         /\ FundingsOf(f.buyer)' # {}
         /\ FundingLogs' = FundingLogs \cup LogsOf(f)
<1> DEFINE last == Len(fundings) + 1
<1>1. /\ DOMAIN fundings' = DOMAIN fundings \cup {last}
      /\ fundings'[last] = f
      /\ \A k \in DOMAIN fundings : fundings'[k] = fundings[k] /\ k # last
  BY Appended
<1>2. /\ FundingsOf(f.buyer)' = FundingsOf(f.buyer) \cup {last}
      /\ \A b : b # f.buyer => FundingsOf(b)' = FundingsOf(b)
  BY <1>1 DEF FundingsOf
<1>3. \A b : FundingsOf(b) \in SUBSET DOMAIN fundings
  BY DEF FundingsOf
<1>4. TransfersOf(DOMAIN fundings)' = TransfersOf(DOMAIN fundings) \cup {f.transfer}
  BY <1>1 DEF TransfersOf
<1>5. TransfersOf(FundingsOf(f.buyer))' = TransfersOf(FundingsOf(f.buyer)) \cup {f.transfer}
  BY <1>1, <1>2, <1>3 DEF TransfersOf
<1>6. \A b : b # f.buyer => TransfersOf(FundingsOf(b))' = TransfersOf(FundingsOf(b))
  BY <1>1, <1>2, <1>3 DEF TransfersOf
<1>7. FundingLogs' = FundingLogs \cup LogsOf(f)
  BY <1>1 DEF FundingLogs, LogsOf
<1> QED
  BY <1>2, <1>4, <1>5, <1>6, <1>7

LEMMA FundingAdded ==
  ASSUME IsHistory(history), fundings \in Seq(Fundings), NEW f \in Fundings,
         fundings' = Append(fundings, f), UNCHANGED history,
         LogsOf(f) \cap FundingLogs = {}
  PROVE  /\ FundedInAll' = FundedInAll + Log(f.transfer).amount
         /\ Funded(f.buyer)' = Funded(f.buyer) + Log(f.transfer).amount
         /\ \A b : b # f.buyer => Funded(b)' = Funded(b)
<1>1. f.transfer \in Keys /\ f.transfer \in LogsOf(f)
  BY DEF Fundings, LogsOf, Keys
<1>2. \A b : FundingsOf(b) \in SUBSET DOMAIN fundings
  BY DEF FundingsOf
<1>3. PICK all : all = TransfersOf(DOMAIN fundings)
  OBVIOUS
<1>4. PICK own : own = TransfersOf(FundingsOf(f.buyer))
  OBVIOUS
<1>5. /\ all \in SUBSET Keys /\ own \in SUBSET Keys
      /\ f.transfer \notin all /\ f.transfer \notin own
  BY <1>1, <1>2, <1>3, <1>4, TransfersAreLogs
<1>6. /\ AmountOf(all \cup {f.transfer}) = AmountOf(all) + Log(f.transfer).amount
      /\ AmountOf(own \cup {f.transfer}) = AmountOf(own) + Log(f.transfer).amount
  BY <1>1, <1>5, AmountMore
<1> QED
  BY <1>3, <1>4, <1>6, FundingListed, SameSums DEF FundedInAll, Funded

LEMMA SettlementAdded ==
  ASSUME IsHistory(history), settlements \in Seq(Keys), NEW i \in Keys,
         settlements' = Append(settlements, i), UNCHANGED history,
         i \notin Entries(settlements)
  PROVE  /\ SettledInAll' = SettledInAll + Log(i).amount
         /\ \A b : Settled(b)' = IF b = Log(i).from THEN Settled(b) + Log(i).amount
                                                   ELSE Settled(b)
<1>1. Entries(settlements)' = Entries(settlements) \cup {i} /\ \A j : Log(j)' = Log(j)
  BY Appended DEF Log
<1>2. PICK all : all = Entries(settlements)
  OBVIOUS
<1>3. PICK own : own = {j \in all : Log(j).from = Log(i).from}
  OBVIOUS
<1>4. all \in SUBSET Keys /\ own \in SUBSET Keys /\ i \notin all /\ i \notin own
  BY <1>2, <1>3 DEF Entries
<1>5. /\ AmountOf(all \cup {i}) = AmountOf(all) + Log(i).amount
      /\ AmountOf(own \cup {i}) = AmountOf(own) + Log(i).amount
  BY <1>4, AmountMore
<1>6. SettledInAll' = SettledInAll + Log(i).amount
  BY <1>1, <1>2, <1>5, SameSums DEF SettledInAll
<1>7. \A b : Settled(b)' = AmountOf({j \in all \cup {i} : Log(j).from = b})
  BY <1>1, <1>2, SameSums DEF Settled
<1>8. \A b : Settled(b) = AmountOf({j \in all : Log(j).from = b})
  BY <1>2 DEF Settled
<1>9. {j \in all \cup {i} : Log(j).from = Log(i).from} = own \cup {i}
  BY <1>3
<1>10. \A b : b # Log(i).from =>
         {j \in all \cup {i} : Log(j).from = b} = {j \in all : Log(j).from = b}
  OBVIOUS
<1>11. \A b : b = Log(i).from => Settled(b)' = Settled(b) + Log(i).amount
  BY <1>3, <1>5, <1>7, <1>8, <1>9
<1>12. \A b : b # Log(i).from => Settled(b)' = Settled(b)
  BY <1>7, <1>8, <1>10
<1> QED
  BY <1>6, <1>11, <1>12

LEMMA ReturnAdded ==
  ASSUME returns \in Seq(Seq(Keys)), \A p \in Entries(returns) \cup {path} : Bottleneck(p) \in Nat,
         path \in Seq(Keys), returns' = Append(returns, path), UNCHANGED history
  PROVE  ReturnedInAll' = ReturnedInAll + Bottleneck(path) /\ ReturnedInAll \in Nat
<1>1. PICK last : last = Len(returns) + 1
  OBVIOUS
<1>2. /\ DOMAIN returns' = DOMAIN returns \cup {last} /\ last \notin DOMAIN returns
      /\ returns'[last] = path
      /\ \A k \in DOMAIN returns : returns'[k] = returns[k]
  BY <1>1, Appended
<1>3. \A p : Bottleneck(p)' = Bottleneck(p)
  BY DEF Bottleneck, Log, Entries
<1>4. PICK g : g = [k \in DOMAIN returns |-> Bottleneck(returns[k])]
  OBVIOUS
<1>5. PICK h : h = [k \in DOMAIN returns' |-> Bottleneck(returns'[k])]
  OBVIOUS
<1>6. PICK D : D = DOMAIN returns
  OBVIOUS
<1>7. IsFiniteSet(D)
  <2>1. Len(returns) \in Nat /\ DOMAIN returns = 1 .. Len(returns)
    OBVIOUS
  <2> QED
    BY <1>6, <2>1, FS_Interval
<1>8. g \in [D -> Nat] /\ h \in [D \cup {last} -> Nat] /\ h[last] = Bottleneck(path)
      /\ \A k \in D : h[k] = g[k]
  <2>1. \A k \in D : returns[k] \in Entries(returns)
    BY <1>6 DEF Entries
  <2> QED
    BY <1>2, <1>4, <1>5, <1>6, <2>1
<1>9. SumFunction(h) = SumFunction(g) + h[last] /\ SumFunction(g) \in Nat
  <2>1. last \notin D
    BY <1>2, <1>6
  <2>2. SumFunction(g) \in Nat
    BY <1>7, <1>8, SumType
  <2>3. g \in [D -> Nat] /\ h \in [D \cup {last} -> Nat]
    BY <1>8
  <2>4. Same(D, g, h)
    BY <1>8 DEF Same
  <2>5. SumFunction(h) = SumFunction(g) + h[last]
    BY <1>7, <2>1, <2>3, <2>4, SumOfMore
  <2> QED
    BY <2>2, <2>5
<1>10. ReturnedInAll' = SumFunction(h)
  BY <1>3, <1>5 DEF ReturnedInAll
<1>11. ReturnedInAll = SumFunction(g)
  BY <1>4 DEF ReturnedInAll
<1> QED
  BY <1>8, <1>9, <1>10, <1>11

-----------------------------------------------------------------------------
(* The invariant of the rules.                                             *)

LEMMA NothingListed ==
  ASSUME Init
  PROVE  /\ FundingLogs = {} /\ ReturnLogs = {}
         /\ Entries(settlements) = {} /\ Entries(path) = {} /\ Entries(returns) = {}
         /\ TransfersOf(DOMAIN fundings) = {} /\ ReturnedInAll = 0
         /\ \A b : FundingsOf(b) = {} /\ TransfersOf(FundingsOf(b)) = {}
<1> USE DEF Init
<1>1. /\ DOMAIN fundings = {} /\ DOMAIN settlements = {} /\ DOMAIN returns = {} /\ DOMAIN path = {}
  OBVIOUS
<1>2. ReturnedInAll = 0
  <2>1. DOMAIN [k \in DOMAIN returns |-> Bottleneck(returns[k])] = {}
    BY <1>1
  <2> QED
    BY <2>1, SumOfNone DEF ReturnedInAll
<1> QED
  BY <1>1, <1>2 DEF FundingLogs, ReturnLogs, Entries, TransfersOf, FundingsOf

LEMMA RulesInit == Init => RulesInv
<1> SUFFICES ASSUME Init PROVE RulesInv
  OBVIOUS
<1>1. SumsMatch
  <2>1. \A a : Funded(a) = 0 /\ Settled(a) = 0
    <3>1. \A a : {i \in {} : Log(i).from = a} = {}
      OBVIOUS
    <3> QED
      BY <3>1, NothingListed, AmountNone DEF Funded, Settled
  <2>2. FundedInAll = 0 /\ SettledInAll = 0
    BY NothingListed, AmountNone DEF FundedInAll, SettledInAll
  <2> QED
    BY <2>1, <2>2, NothingListed DEF Init, SumsMatch
<1>2. UsedMatches /\ FirstTimesLeast
  BY NothingListed DEF Init, UsedMatches, FirstTimesLeast
<1>3. LoopSoFar /\ PairSoFar
  <2>1. Path(path)
    BY NothingListed, EvidenceAssumption DEF Init, Path
  <2> QED
    BY <2>1, NothingListed, EvidenceAssumption
       DEF Init, LoopSoFar, PairSoFar, LoopFundingsListed, LoopSettlementsListed,
           LoopReturnsListed, PairSettlementsListed, PairDepositsListed
<1>4. LoopPhase /\ PairPhase
  BY DEF Init, LoopPhase, PairPhase
<1>5. FundingsSplit
  <2>1. \A b : Funded(b) = 0 /\ DirectlyFunded(b) = 0 /\ AmountOf(DepositsOf(FundingsOf(b))) = 0
    <3>1. \A b : {k \in FundingsOf(b) : Direct(fundings[k])} = {} /\ DepositsOf(FundingsOf(b)) = {}
      BY NothingListed DEF DepositsOf
    <3>2. TransfersOf({}) = {}
      BY DEF TransfersOf
    <3> QED
      BY <3>1, <3>2, NothingListed, AmountNone DEF Funded, DirectlyFunded
  <2>2. FundedInAll = 0 /\ AmountOf(DepositsOf(DOMAIN fundings)) = 0
    <3>1. DepositsOf(DOMAIN fundings) = {}
      BY DEF Init, DepositsOf
    <3> QED
      BY <3>1, NothingListed, AmountNone DEF FundedInAll
  <2> QED
    BY <2>1, <2>2 DEF FundingsSplit
<1> QED
  BY <1>1, <1>2, <1>3, <1>4, <1>5
     DEF Init, RulesInv, RulesSoFar, LoopMatchesRule, PairMatchesRule

-----------------------------------------------------------------------------
(* A step that lists no evidence leaves the rules what they were.          *)

LEMMA SameSets ==
  ASSUME UNCHANGED <<history, claim, lists>>
  PROVE  /\ Keys' = Keys /\ \A i : Log(i)' = Log(i) /\ Time(i)' = Time(i)
         /\ \A b : FundingsOf(b)' = FundingsOf(b)
         /\ \A K : TransfersOf(K)' = TransfersOf(K) /\ DepositsOf(K)' = DepositsOf(K)
         /\ FundingLogs' = FundingLogs /\ ReturnLogs' = ReturnLogs
         /\ EvidenceDistinct' = EvidenceDistinct
         /\ \A i : UsdcTransfer(i)' = UsdcTransfer(i) /\ ChannelSettled(i)' = ChannelSettled(i)
                   /\ InPeriod(i)' = InPeriod(i)
         /\ \A i, j, m : ProtocolDeposit(i, j, m)' = ProtocolDeposit(i, j, m)
         /\ \A p : Bottleneck(p)' = Bottleneck(p)
<1> USE DEF lists
<1>1. Keys' = Keys /\ \A i : Log(i)' = Log(i) /\ Time(i)' = Time(i)
  BY DEF Keys, Log, Time
<1>2. \A b : FundingsOf(b)' = FundingsOf(b)
  BY DEF FundingsOf
<1>3. \A K : TransfersOf(K)' = TransfersOf(K) /\ DepositsOf(K)' = DepositsOf(K)
  BY DEF TransfersOf, DepositsOf
<1>4. FundingLogs' = FundingLogs /\ ReturnLogs' = ReturnLogs
  BY DEF FundingLogs, ReturnLogs, Entries
<1>5. EvidenceDistinct' = EvidenceDistinct
  BY DEF EvidenceDistinct, FundingsDistinct, PathsDistinct, RolesDistinct, FundingLogs,
         ReturnLogs, Entries, Distinct
<1>6. \A i : UsdcTransfer(i)' = UsdcTransfer(i) /\ ChannelSettled(i)' = ChannelSettled(i)
             /\ InPeriod(i)' = InPeriod(i)
  BY DEF UsdcTransfer, ChannelSettled, InPeriod, Log
<1>7. \A i, j, m : ProtocolDeposit(i, j, m)' = ProtocolDeposit(i, j, m)
  BY DEF ProtocolDeposit, UsdcTransfer, InPeriod, Log
<1>8. \A p : Bottleneck(p)' = Bottleneck(p)
  BY DEF Bottleneck, Log, Entries
<1> QED
  BY <1>1, <1>2, <1>3, <1>4, <1>5, <1>6, <1>7, <1>8

LEMMA SameTotals ==
  ASSUME UNCHANGED <<history, claim, lists>>
  PROVE  /\ \A b : Funded(b)' = Funded(b) /\ Settled(b)' = Settled(b)
                   /\ DirectlyFunded(b)' = DirectlyFunded(b) /\ Sold(b)' = Sold(b)
         /\ FundedInAll' = FundedInAll /\ SettledInAll' = SettledInAll
         /\ ReturnedInAll' = ReturnedInAll
<1> USE DEF lists
<1>1. \A b : Funded(b)' = Funded(b)
  BY DEF Funded, AmountOf, TransfersOf, FundingsOf, Log
<1>2. \A b : Settled(b)' = Settled(b) /\ Sold(b)' = Sold(b)
  BY DEF Settled, Sold, AmountOf, Entries, Log
<1>3. \A b : DirectlyFunded(b)' = DirectlyFunded(b)
  BY DEF DirectlyFunded, AmountOf, TransfersOf, FundingsOf, Log
<1>4. FundedInAll' = FundedInAll /\ SettledInAll' = SettledInAll
  BY DEF FundedInAll, SettledInAll, AmountOf, TransfersOf, Entries, Log
<1>5. ReturnedInAll' = ReturnedInAll
  BY DEF ReturnedInAll, Bottleneck, Entries, Log
<1> QED
  BY <1>1, <1>2, <1>3, <1>4, <1>5

LEMMA SameRules ==
  ASSUME UNCHANGED <<history, claim, lists>>
  PROVE  /\ LoopClaimRule' = LoopClaimRule /\ LoopFundingsRule' = LoopFundingsRule
         /\ LoopSettlementsRule' = LoopSettlementsRule /\ LoopLedgerRule' = LoopLedgerRule
         /\ LoopReturnsRule' = LoopReturnsRule
         /\ PairSettlementsRule' = PairSettlementsRule /\ PairDepositsRule' = PairDepositsRule
         /\ LoopSoFar' = LoopSoFar /\ PairSoFar' = PairSoFar
<1> USE DEF lists
<1>1. LoopClaimRule' = LoopClaimRule
  BY DEF LoopClaimRule
<1>2. \A f, S, d : PaidBy(f, S, d)' = PaidBy(f, S, d)
  BY DEF PaidBy, ProtocolDeposit, UsdcTransfer, InPeriod, Log
<1>3. \A p : Path(p)' = Path(p) /\ ReturnPath(p)' = ReturnPath(p)
  BY DEF Path, Forwards, ReturnPath, UsdcTransfer, InPeriod, Log, Entries, Time
<1>4. Pair' = Pair /\ EvidenceDistinct' = EvidenceDistinct
  BY SameSets DEF Pair
<1>5. LoopFundingsListed' = LoopFundingsListed /\ PairDepositsListed' = PairDepositsListed
  BY <1>2, <1>4 DEF LoopFundingsListed, PairDepositsListed
<1>6. /\ LoopSettlementsListed' = LoopSettlementsListed
      /\ PairSettlementsListed' = PairSettlementsListed
  BY <1>4, SameSets DEF LoopSettlementsListed, PairSettlementsListed, Entries
<1>7. LoopReturnsListed' = LoopReturnsListed
  BY <1>3 DEF LoopReturnsListed, Entries
<1>8. LoopFundingsRule' = LoopFundingsRule
  <2>1. (\A b \in claim.buyers : FundingsOf(b) # {})' = (\A b \in claim.buyers : FundingsOf(b) # {})
    BY SameSets
  <2> QED
    BY <1>4, <1>5, <2>1, SameTotals DEF LoopFundingsRule
<1>9. LoopSettlementsRule' = LoopSettlementsRule
  BY <1>4, <1>6, SameTotals DEF LoopSettlementsRule
<1>10. LoopLedgerRule' = LoopLedgerRule
  BY SameTotals DEF LoopLedgerRule
<1>11. LoopReturnsRule' = LoopReturnsRule
  BY <1>4, <1>7, SameTotals DEF LoopReturnsRule
<1>12. PairSettlementsRule' = PairSettlementsRule
  <2>1. PairSales' = PairSales
    BY SameTotals DEF PairSales
  <2> QED
    BY <1>4, <1>6, <2>1, SameTotals DEF PairSettlementsRule
<1>13. PairDepositsRule' = PairDepositsRule
  <2>1. Ending(Pair)' = Ending(Pair)
    BY <1>4, SameSums
  <2> QED
    BY <1>4, <1>5, <2>1, SameTotals DEF PairDepositsRule
<1>14. LoopSoFar' = LoopSoFar /\ PairSoFar' = PairSoFar
  BY <1>5, <1>6, <1>7 DEF LoopSoFar, PairSoFar
<1> QED
  BY <1>1, <1>8, <1>9, <1>10, <1>11, <1>12, <1>13, <1>14

\* Running state and evidence agree after a step that changes neither.
LEMMA SameMatch ==
  ASSUME UNCHANGED <<history, claim, lists, sums>>
  PROVE  /\ SumsMatch' = SumsMatch /\ UsedMatches' = UsedMatches
         /\ FirstTimesLeast' = FirstTimesLeast
<1> USE DEF sums, fundingSums, settlementSums, returnSums
<1>1. SumsMatch' = SumsMatch
  BY SameSets, SameTotals DEF SumsMatch, lists
<1>2. UsedMatches' = UsedMatches
  BY SameSets DEF UsedMatches, lists, Entries
<1>3. FirstTimesLeast' = FirstTimesLeast
  BY SameSets DEF FirstTimesLeast, lists, Entries
<1> QED
  BY <1>1, <1>2, <1>3

LEMMA SameSplit ==
  ASSUME UNCHANGED <<history, claim, lists>>, FundingsSplit, verdict # "rejected"
  PROVE  FundingsSplit'
<1>1. \A b : AmountOf(DepositsOf(FundingsOf(b)))' = AmountOf(DepositsOf(FundingsOf(b)))
  BY DEF lists, AmountOf, DepositsOf, FundingsOf, Log
<1>2. AmountOf(DepositsOf(DOMAIN fundings))' = AmountOf(DepositsOf(DOMAIN fundings))
  BY DEF lists, AmountOf, DepositsOf, Log
<1> QED
  BY <1>1, <1>2, SameTotals DEF FundingsSplit

-----------------------------------------------------------------------------
(* While a claim has not been rejected its evidence so far keeps to the    *)
(* rules, which at the end are the rules.                                  *)

Standing == verdict # "rejected"

LEMMA JournalRules ==
  ClaimInv /\ RulesSoFar /\ Standing => LoopMatchesRule /\ PairMatchesRule
<1> SUFFICES ASSUME ClaimInv, RulesSoFar, verdict # "rejected"
             PROVE  LoopMatchesRule /\ PairMatchesRule
  BY DEF Standing
<1>1. EvidenceDistinct /\ TypeOK
  BY DEF ClaimInv, NoLogCountedTwice
<1>2. Fits(FundedInAll) /\ Fits(SettledInAll) /\ Fits(ReturnedInAll)
  BY <1>1, EvidenceAssumption DEF RulesSoFar, SumsMatch, TypeOK, Fits
<1>3. LoopMatchesRule
  <2> SUFFICES ASSUME claim.kind = "closed-loop", phase = "journal"
               PROVE  /\ LoopClaimRule /\ LoopFundingsRule /\ LoopSettlementsRule
                      /\ LoopLedgerRule /\ LoopReturnsRule
    BY DEF LoopMatchesRule
  <2>1. LoopSoFar /\ LoopPhase
    BY DEF RulesSoFar
  <2> QED
    BY <1>1, <1>2, <2>1
       DEF LoopSoFar, LoopPhase, LoopFundingsRule, LoopSettlementsRule, LoopReturnsRule
<1>4. PairMatchesRule
  <2> SUFFICES ASSUME claim.kind = "reciprocal", phase = "journal"
               PROVE  PairSettlementsRule /\ PairDepositsRule
    BY DEF PairMatchesRule
  <2> QED
    BY DEF RulesSoFar, PairPhase
<1> QED
  BY <1>3, <1>4

LEMMA NotRejected ==
  ASSUME ClaimInv', RulesSoFar', verdict' # "rejected", FundingsSplit'
  PROVE  RulesInv'
<1>1. Standing'
  BY DEF Standing
<1>2. LoopMatchesRule' /\ PairMatchesRule'
  BY <1>1, JournalRules, PTL
<1> QED
  BY <1>2 DEF RulesInv

\* A check that passes leaves only the phase's part of the rules to show.
LEMMA CheckPasses ==
  ASSUME ClaimInv', RulesInv, verdict = "pending", verdict' # "rejected",
         UNCHANGED <<history, claim, lists, sums>>,
         claim.kind = "closed-loop" => LoopPhase', claim.kind = "reciprocal" => PairPhase'
  PROVE  RulesInv'
<1>1. RulesSoFar'
  BY SameMatch, SameRules DEF RulesInv, RulesSoFar
<1>2. FundingsSplit'
  BY SameSplit DEF RulesInv
<1> QED
  BY <1>1, <1>2, NotRejected

\* A rejection is right if the rule of its phase does not hold.
LEMMA LoopRejects ==
  ASSUME Reject, claim.kind = "closed-loop", phase # "journal",
         phase = "claim" => ~LoopClaimRule', phase = "fundings" => ~LoopFundingsRule',
         phase = "settlements" => ~LoopSettlementsRule', phase = "ledger" => ~LoopLedgerRule',
         phase = "returns" => ~LoopReturnsRule'
  PROVE  RulesInv'
<1> USE DEF Reject
<1>1. LoopMatchesRule'
  BY DEF LoopMatchesRule
<1>2. PairMatchesRule' /\ RulesSoFar' /\ FundingsSplit'
  BY DEF PairMatchesRule, RulesSoFar, FundingsSplit
<1> QED
  BY <1>1, <1>2 DEF RulesInv

LEMMA PairRejects ==
  ASSUME Reject, claim.kind = "reciprocal", phase # "journal",
         phase = "claim" => (Zero \in Pair \/ claim.a >= claim.b)',
         phase = "settlements" => ~PairSettlementsRule', phase = "deposits" => ~PairDepositsRule'
  PROVE  RulesInv'
<1> USE DEF Reject
<1>1. PairMatchesRule'
  BY DEF PairMatchesRule
<1>2. LoopMatchesRule' /\ RulesSoFar' /\ FundingsSplit'
  BY DEF LoopMatchesRule, RulesSoFar, FundingsSplit
<1> QED
  BY <1>1, <1>2 DEF RulesInv

LEMMA LoopState ==
  ASSUME RulesInv, verdict = "pending", claim.kind = "closed-loop"
  PROVE  SumsMatch /\ UsedMatches /\ FirstTimesLeast /\ LoopSoFar /\ LoopPhase
BY DEF RulesInv, RulesSoFar

\* A closed loop's phase part after a check that passes, from the one before.
LEMMA LoopPhaseMoves ==
  ASSUME LoopPhase, UNCHANGED <<history, claim, lists>>
  PROVE  /\ LoopClaimRule' = LoopClaimRule /\ LoopLedgerRule' = LoopLedgerRule
         /\ (\A b \in claim.buyers : FundingsOf(b) # {})'
              = (\A b \in claim.buyers : FundingsOf(b) # {})
         /\ FundedInAll' = FundedInAll /\ SettledInAll' = SettledInAll
         /\ ReturnedInAll' = ReturnedInAll
         /\ UNCHANGED <<claim, fundings, settlements, returns, path>>
BY SameRules, SameTotals, SameSets DEF lists

LEMMA AddressesFinite == IsFiniteSet(Addresses)
<1>1. MaxAddress \in Nat
  BY EvidenceAssumption
<1> QED
  BY <1>1, FS_Interval DEF Addresses

LEMMA LoopMembers ==
  ASSUME ClaimInv, claim.kind = "closed-loop"
  PROVE  /\ claim.buyers \in SUBSET Addresses /\ IsFiniteSet(claim.buyers)
         /\ claim.seller \in Addresses /\ claim.funder \in Addresses
<1>1. claim \in LoopClaims
  BY DEF ClaimInv, TypeOK, IsClaim, PairClaims
<1> QED
  BY <1>1, AddressesFinite, FS_Subset DEF LoopClaims

LEMMA LoopHeaderRules ==
  ASSUME ClaimInv, ClaimInv', RulesInv, LoopHeader
  PROVE  RulesInv'
<1> USE DEF LoopHeader, Verifying, Check
<1>1. LoopSoFar /\ LoopPhase
  BY LoopState
<1>2. LoopClaimRule <=> /\ Zero \notin {claim.seller, claim.funder} \cup claim.buyers
                        /\ Cardinality(claim.buyers) \in 1 .. MaxBuyers
                        /\ claim.funder \notin claim.buyers
  <2>1. IsFiniteSet(claim.buyers)
    BY LoopMembers
  <2>2. Cardinality(claim.buyers) \in Nat /\ (Cardinality(claim.buyers) = 0 <=> claim.buyers = {})
    BY <2>1, FS_CardinalityType, FS_EmptySet
  <2> QED
    BY <2>2, EvidenceAssumption DEF LoopClaimRule
<1>3. CASE Reject
  <2>1. ~LoopClaimRule'
    BY <1>2, <1>3, LoopPhaseMoves, <1>1 DEF Reject
  <2> QED
    BY <1>3, <2>1, LoopRejects
<1>4. CASE phase' = "fundings" /\ UNCHANGED <<history, claim, verdict, sums>> /\ LoopClaimRule
  <2>1. LoopPhase'
    BY <1>1, <1>4, LoopPhaseMoves DEF LoopPhase
  <2> QED
    BY <1>4, <2>1, CheckPasses
<1> QED
  BY <1>2, <1>3, <1>4

LEMMA FundingsEndRules ==
  ASSUME ClaimInv, ClaimInv', RulesInv, FundingsEnd
  PROVE  RulesInv'
<1> USE DEF FundingsEnd, Verifying, Check
<1>1. FirstTimesLeast /\ LoopSoFar /\ LoopPhase
  BY LoopState
<1>2. ASSUME NEW b \in claim.buyers
      PROVE  firstFunded[b] # Never <=> FundingsOf(b) # {}
  <2>1. b \in Addresses
    BY LoopMembers
  <2>2. firstFunded[b] # Never => FundingsOf(b) # {}
    BY <2>1 DEF ClaimInv, FirstTimes, FundingsOf
  <2>3. ASSUME NEW k \in FundingsOf(b) PROVE firstFunded[b] # Never
    <3>1. firstFunded[b] <= Time(fundings[k].transfer) /\ InPeriod(fundings[k].transfer)
      BY <1>1 DEF FirstTimesLeast, FundingsOf
    <3> QED
      BY <3>1, EvidenceAssumption DEF InPeriod, Time, Never
  <2> QED
    BY <2>2, <2>3
<1>3. CASE Reject
  <2>1. PICK b \in claim.buyers : FundingsOf(b) = {}
    BY <1>2, <1>3 DEF Reject
  <2>2. ~LoopFundingsRule'
    BY <1>1, <1>3, <2>1, LoopPhaseMoves DEF LoopFundingsRule, Reject
  <2> QED
    BY <1>3, <2>2, LoopRejects
<1>4. CASE /\ phase' = "settlements" /\ UNCHANGED <<history, claim, verdict, sums>>
           /\ \A b \in claim.buyers : FundingsOf(b) # {}
  <2>1. LoopPhase'
    BY <1>1, <1>4, LoopPhaseMoves DEF LoopPhase
  <2> QED
    BY <1>4, <2>1, CheckPasses
<1> QED
  BY <1>2, <1>3, <1>4

LEMMA SettlementsEndRules ==
  ASSUME ClaimInv, ClaimInv', RulesInv, SettlementsEnd
  PROVE  RulesInv'
<1> USE DEF SettlementsEnd, Verifying, Check
<1>1. SumsMatch /\ LoopSoFar /\ LoopPhase
  BY LoopState
<1>2. fundTotal = FundedInAll /\ settledTotal = SettledInAll
  BY <1>1 DEF SumsMatch
<1>3. CASE Reject
  <2>1. settlements = <<>> \/ ~MeetsRatio(FundedInAll, SettledInAll, AlphaFundBps)
    BY <1>2, <1>3 DEF Reject
  <2>2. ~LoopSettlementsRule
    BY <2>1 DEF LoopSettlementsRule
  <2>3. ~LoopSettlementsRule'
    BY <1>3, <2>2, SameRules DEF Reject
  <2> QED
    BY <1>3, <2>3, LoopRejects
<1>4. CASE /\ phase' = "ledger" /\ UNCHANGED <<history, claim, verdict, sums>>
           /\ settlements # <<>> /\ MeetsRatio(FundedInAll, SettledInAll, AlphaFundBps)
  <2>1. LoopPhase'
    BY <1>1, <1>4, LoopPhaseMoves DEF LoopPhase
  <2> QED
    BY <1>4, <2>1, CheckPasses
<1> QED
  BY <1>2, <1>3, <1>4

LEMMA LedgersRules ==
  ASSUME ClaimInv, ClaimInv', RulesInv, VerifyLedgers
  PROVE  RulesInv'
<1>1. /\ verdict = "pending" /\ claim.kind = "closed-loop" /\ phase = "ledger" /\ UNCHANGED lists
  BY DEF VerifyLedgers, Verifying, Check
<1>2. SumsMatch /\ LoopSoFar /\ LoopPhase
  BY <1>1, LoopState
<1>3. LoopLedgerRule
        <=> \A b \in claim.buyers :
              (history.end[b] + settledBy[b]) * 10000 <= fundedBy[b] * (10000 + EpsilonLedgerBps)
  <2>1. \A b \in claim.buyers : fundedBy[b] = Funded(b) /\ settledBy[b] = Settled(b)
    BY <1>1, <1>2, LoopMembers DEF SumsMatch
  <2>2. 10000 + EpsilonLedgerBps = 10500
    BY DEF EpsilonLedgerBps
  <2> QED
    BY <2>1, <2>2 DEF LoopLedgerRule
<1>4. CASE Reject /\ ~LoopLedgerRule
  <2>1. ~LoopLedgerRule'
    BY <1>1, <1>4, SameRules DEF Reject
  <2> QED
    BY <1>1, <1>4, <2>1, LoopRejects
<1>5. CASE phase' = "returns" /\ UNCHANGED <<history, claim, verdict, sums>> /\ LoopLedgerRule
  <2>1. LoopPhase'
    BY <1>1, <1>2, <1>5, LoopPhaseMoves DEF LoopPhase
  <2> QED
    BY <1>1, <1>5, <2>1, CheckPasses
<1> QED
  BY <1>3, <1>4, <1>5 DEF VerifyLedgers, Check

LEMMA ReturnsEndRules ==
  ASSUME ClaimInv, ClaimInv', RulesInv, ReturnsEnd
  PROVE  RulesInv'
<1> USE DEF ReturnsEnd, Verifying, Check, SelfFunded
<1>1. SumsMatch /\ LoopSoFar /\ LoopPhase
  BY LoopState
<1>2. returned = ReturnedInAll /\ settledTotal = SettledInAll
  BY <1>1 DEF SumsMatch
<1>3. CASE Reject
  <2>1. claim.seller # claim.funder /\ ~MeetsRatio(ReturnedInAll, SettledInAll, AlphaReturnBps)
    BY <1>2, <1>3 DEF Reject
  <2>2. ~LoopReturnsRule
    BY <2>1 DEF LoopReturnsRule
  <2>3. ~LoopReturnsRule'
    BY <1>3, <2>2, SameRules DEF Reject
  <2> QED
    BY <1>3, <2>3, LoopRejects
<1>4. CASE /\ phase' = "journal" /\ UNCHANGED <<history, claim, verdict, sums>>
           /\ \/ claim.seller = claim.funder
              \/ MeetsRatio(ReturnedInAll, SettledInAll, AlphaReturnBps)
  <2>1. LoopPhase'
    BY <1>1, <1>4, LoopPhaseMoves DEF LoopPhase
  <2> QED
    BY <1>4, <2>1, CheckPasses
<1> QED
  BY <1>2, <1>3, <1>4

-----------------------------------------------------------------------------
LEMMA PairState ==
  ASSUME RulesInv, verdict = "pending", claim.kind = "reciprocal"
  PROVE  SumsMatch /\ UsedMatches /\ FirstTimesLeast /\ PairSoFar /\ PairPhase
BY DEF RulesInv, RulesSoFar

LEMMA PairMembers ==
  ASSUME ClaimInv, claim.kind = "reciprocal"
  PROVE  claim.a \in Addresses /\ claim.b \in Addresses /\ claim.a \in Nat /\ claim.b \in Nat
<1>1. claim \in PairClaims
  BY DEF ClaimInv, TypeOK, IsClaim, LoopClaims
<1> QED
  BY <1>1 DEF PairClaims, Addresses

LEMMA PairHeaderRules ==
  ASSUME ClaimInv, ClaimInv', RulesInv, PairHeader
  PROVE  RulesInv'
<1> USE DEF PairHeader, Verifying, Check
<1>1. PairSoFar /\ PairPhase
  BY PairState
<1>2. claim.a \in Nat /\ claim.b \in Nat
  BY PairMembers
<1>3. CASE Reject
  <2>1. (Zero \in Pair \/ claim.a >= claim.b)'
    BY <1>2, <1>3 DEF Reject, Pair
  <2> QED
    BY <1>3, <2>1, PairRejects
<1>4. CASE /\ phase' = "settlements" /\ UNCHANGED <<history, claim, verdict, sums>>
           /\ Zero \notin Pair /\ claim.a < claim.b
  <2>1. PairPhase'
    BY <1>1, <1>4 DEF PairPhase, Pair, lists
  <2> QED
    BY <1>4, <2>1, CheckPasses
<1> QED
  BY <1>3, <1>4

\* What one of the pair sold the other bought.
LEMMA PairSells ==
  ASSUME ClaimInv, SumsMatch, PairSettlementsListed, claim.kind = "reciprocal", claim.a < claim.b
  PROVE  /\ Sold(claim.a) = settledBy[claim.b] /\ Sold(claim.b) = settledBy[claim.a]
         /\ settledBy[claim.a] \in Nat /\ settledBy[claim.b] \in Nat
<1>1. /\ claim.a \in Addresses /\ claim.b \in Addresses /\ claim.a # claim.b
  BY PairMembers
<1>2. settledBy[claim.a] \in Nat /\ settledBy[claim.b] \in Nat
  BY <1>1, EvidenceAssumption DEF ClaimInv, TypeOK
<1>3. \A i \in Entries(settlements) : /\ Log(i).to = claim.a <=> Log(i).from = claim.b
                                      /\ Log(i).to = claim.b <=> Log(i).from = claim.a
  BY <1>1 DEF PairSettlementsListed, Pair
<1>4. /\ {i \in Entries(settlements) : Log(i).to = claim.a}
           = {i \in Entries(settlements) : Log(i).from = claim.b}
      /\ {i \in Entries(settlements) : Log(i).to = claim.b}
           = {i \in Entries(settlements) : Log(i).from = claim.a}
  BY <1>3
<1>5. Sold(claim.a) = Settled(claim.b) /\ Sold(claim.b) = Settled(claim.a)
  BY <1>4 DEF Sold, Settled
<1> QED
  BY <1>1, <1>2, <1>5 DEF SumsMatch

LEMMA LeastMeetsMost ==
  ASSUME NEW x \in Nat, NEW y \in Nat
  PROVE  MeetsRatio(Min({x, y}), Max({x, y}), BetaReciprocalBps)
           <=> MeetsRatio(x, y, BetaReciprocalBps) /\ MeetsRatio(y, x, BetaReciprocalBps)
<1>1. Min({x, y}) = IF x <= y THEN x ELSE y
  <2>1. PICK m \in {x, y} : m = Min({x, y}) /\ m <= x /\ m <= y
    BY MinOf
  <2> QED
    BY <2>1
<1>2. Max({x, y}) = IF x <= y THEN y ELSE x
  <2>1. \E m \in {x, y} : \A z \in {x, y} : m >= z
    <3>1. CASE x <= y
      BY <3>1
    <3>2. CASE y <= x
      BY <3>2
    <3> QED
      BY <3>1, <3>2
  <2>2. PICK m \in {x, y} : m = Max({x, y}) /\ m >= x /\ m >= y
    BY <2>1 DEF Max
  <2> QED
    BY <2>2
<1> QED
  BY <1>1, <1>2 DEF MeetsRatio, BetaReciprocalBps

LEMMA PairSettlementsEndRules ==
  ASSUME ClaimInv, ClaimInv', RulesInv, PairSettlementsEnd
  PROVE  RulesInv'
<1>1. /\ verdict = "pending" /\ claim.kind = "reciprocal" /\ phase = "settlements"
      /\ UNCHANGED lists
  BY DEF PairSettlementsEnd, Verifying, Check
<1>2. SumsMatch /\ PairSoFar /\ PairPhase
  BY <1>1, PairState
<1>3. PairSettlementsRule <=> settlements # <<>> /\ Reciprocates
  <2>1. /\ Sold(claim.a) = settledBy[claim.b] /\ Sold(claim.b) = settledBy[claim.a]
        /\ settledBy[claim.a] \in Nat /\ settledBy[claim.b] \in Nat
    BY <1>1, <1>2, PairSells DEF PairSoFar, PairPhase
  <2>2. EvidenceDistinct /\ Fits(SettledInAll)
    BY <1>1, <1>2, EvidenceAssumption
       DEF ClaimInv, NoLogCountedTwice, SumsMatch, TypeOK, Fits
  <2>3. PICK x \in Nat : x = settledBy[claim.a]
    BY <2>1
  <2>4. PICK y \in Nat : y = settledBy[claim.b]
    BY <2>1
  <2>5. Reciprocates <=> MeetsRatio(x, y, BetaReciprocalBps) /\ MeetsRatio(y, x, BetaReciprocalBps)
    <3>1. /\ MeetsRatio(x, x, BetaReciprocalBps) /\ MeetsRatio(y, y, BetaReciprocalBps)
      BY DEF MeetsRatio, BetaReciprocalBps
    <3> QED
      BY <2>3, <2>4, <3>1 DEF Reciprocates, Pair
  <2>6. MeetsRatio(Min(PairSales), Max(PairSales), BetaReciprocalBps)
          <=> MeetsRatio(x, y, BetaReciprocalBps) /\ MeetsRatio(y, x, BetaReciprocalBps)
    <3>1. PairSales = {x, y}
      BY <2>1, <2>3, <2>4 DEF PairSales
    <3>2. MeetsRatio(Min({x, y}), Max({x, y}), BetaReciprocalBps)
            <=> MeetsRatio(x, y, BetaReciprocalBps) /\ MeetsRatio(y, x, BetaReciprocalBps)
      BY LeastMeetsMost
    <3> QED
      BY <3>1, <3>2
  <2> QED
    BY <1>2, <2>2, <2>5, <2>6 DEF PairSettlementsRule, PairSoFar
<1>4. CASE Reject /\ ~PairSettlementsRule
  <2>1. ~PairSettlementsRule'
    BY <1>1, <1>4, SameRules DEF Reject
  <2> QED
    BY <1>1, <1>4, <2>1, PairRejects
<1>5. CASE phase' = "deposits" /\ UNCHANGED <<history, claim, verdict, sums>> /\ PairSettlementsRule
  <2>1. PairSettlementsRule' /\ UNCHANGED <<claim, fundings, settlements>>
    BY <1>1, <1>5, SameRules DEF lists
  <2>2. PairPhase'
    BY <1>1, <1>2, <1>5, <2>1 DEF PairPhase, Pair
  <2> QED
    BY <1>1, <1>5, <2>2, CheckPasses
<1> QED
  BY <1>3, <1>4, <1>5 DEF PairSettlementsEnd, Check

LEMMA PairLedgerRules ==
  ASSUME ClaimInv, ClaimInv', RulesInv, VerifyPairLedger
  PROVE  RulesInv'
<1>1. /\ verdict = "pending" /\ claim.kind = "reciprocal" /\ phase = "deposits"
      /\ UNCHANGED lists
  BY DEF VerifyPairLedger, Verifying, Check
<1>2. SumsMatch /\ PairSoFar /\ PairPhase
  BY <1>1, PairState
<1>3. PairDepositsRule
        <=> (history.end[claim.a] + history.end[claim.b] + settledTotal) * 10000
              <= fundTotal * 10000 + settledTotal * (10000 - AlphaSelfBps)
  <2>1. claim.a # claim.b /\ claim.a \in Addresses /\ claim.b \in Addresses
    BY <1>1, <1>2, PairMembers DEF PairPhase
  <2>2. Ending(Pair) = history.end[claim.a] + history.end[claim.b]
    BY <2>1, EndingOfPair DEF ClaimInv, TypeOK, Pair
  <2>3. EvidenceDistinct /\ Fits(FundedInAll)
    BY <1>1, <1>2, EvidenceAssumption
       DEF ClaimInv, NoLogCountedTwice, SumsMatch, TypeOK, Fits
  <2>4. 10000 - AlphaSelfBps = 1000
    BY DEF AlphaSelfBps
  <2> QED
    BY <1>2, <2>2, <2>3, <2>4 DEF PairDepositsRule, PairSoFar, SumsMatch
<1>4. CASE Reject /\ ~PairDepositsRule
  <2>1. ~PairDepositsRule'
    BY <1>1, <1>4, SameRules DEF Reject
  <2> QED
    BY <1>1, <1>4, <2>1, PairRejects
<1>5. CASE phase' = "journal" /\ UNCHANGED <<history, claim, verdict, sums>> /\ PairDepositsRule
  <2>1. PairSettlementsRule' = PairSettlementsRule /\ PairDepositsRule'
        /\ UNCHANGED <<claim, fundings, settlements>>
    BY <1>1, <1>5, SameRules DEF lists
  <2>2. PairPhase'
    BY <1>1, <1>2, <1>5, <2>1 DEF PairPhase, Pair
  <2> QED
    BY <1>1, <1>5, <2>2, CheckPasses
<1> QED
  BY <1>3, <1>4, <1>5 DEF VerifyPairLedger, Check

LEMMA SellerRules ==
  ASSUME ClaimInv, ClaimInv', RulesInv, VerifySeller
  PROVE  RulesInv'
<1>1. /\ verdict = "pending" /\ phase = "journal" /\ phase' = "journal"
      /\ UNCHANGED <<history, claim, lists, sums>>
      /\ verdict' \in {"accepted", "rejected"}
  BY DEF VerifySeller
<1>2. CASE verdict' = "accepted"
  <2>1. claim.kind = "closed-loop" => LoopPhase'
    <3> SUFFICES ASSUME claim.kind = "closed-loop" PROVE LoopPhase'
      OBVIOUS
    <3>1. LoopPhase
      BY <1>1, LoopState
    <3> QED
      BY <1>1, <3>1, LoopPhaseMoves DEF LoopPhase
  <2>2. claim.kind = "reciprocal" => PairPhase'
    <3> SUFFICES ASSUME claim.kind = "reciprocal" PROVE PairPhase'
      OBVIOUS
    <3>1. PairPhase
      BY <1>1, PairState
    <3>2. /\ PairSettlementsRule' = PairSettlementsRule /\ PairDepositsRule' = PairDepositsRule
          /\ UNCHANGED <<claim, fundings, settlements>>
      BY <1>1, SameRules DEF lists
    <3> QED
      BY <1>1, <3>1, <3>2 DEF PairPhase, Pair
  <2> QED
    BY <1>1, <1>2, <2>1, <2>2, CheckPasses
<1>3. CASE verdict' = "rejected"
  <2>1. RulesSoFar' /\ FundingsSplit'
    BY <1>3 DEF RulesSoFar, FundingsSplit
  <2>2. LoopMatchesRule'
    BY <1>1, SameRules DEF RulesInv, LoopMatchesRule
  <2>3. PairMatchesRule'
    BY <1>1, SameRules DEF RulesInv, PairMatchesRule
  <2> QED
    BY <2>1, <2>2, <2>3 DEF RulesInv
<1> QED
  BY <1>1, <1>2, <1>3

LEMMA RulesStutter ==
  ASSUME ClaimInv, RulesInv, UNCHANGED vars
  PROVE  RulesInv'
<1>1. UNCHANGED <<history, claim, lists, sums, phase, verdict>>
  BY DEF vars
<1>2. LoopPhase' = LoopPhase
  BY <1>1, SameRules, SameTotals, SameSets DEF LoopPhase, lists
<1>3. PairPhase' = PairPhase
  BY <1>1, SameRules DEF PairPhase, Pair, lists
<1>4. RulesSoFar'
  BY <1>1, <1>2, <1>3, SameMatch, SameRules DEF RulesInv, RulesSoFar
<1>5. FundingsSplit'
  <2>1. CASE verdict = "rejected"
    BY <1>1, <2>1 DEF FundingsSplit
  <2>2. CASE verdict # "rejected"
    BY <1>1, <2>2, SameSplit DEF RulesInv
  <2> QED
    BY <2>1, <2>2
<1>6. LoopMatchesRule'
  BY <1>1, SameRules DEF RulesInv, LoopMatchesRule
<1>7. PairMatchesRule'
  BY <1>1, SameRules DEF RulesInv, PairMatchesRule, Pair
<1> QED
  BY <1>4, <1>5, <1>6, <1>7 DEF RulesInv

-----------------------------------------------------------------------------
(* One more funding.                                                       *)

LEMMA SameSettled ==
  ASSUME UNCHANGED <<history, settlements>>
  PROVE  /\ \A b : Settled(b)' = Settled(b)
         /\ SettledInAll' = SettledInAll /\ Entries(settlements)' = Entries(settlements)
BY DEF Settled, SettledInAll, AmountOf, Entries, Log

LEMMA SameReturned ==
  ASSUME UNCHANGED <<history, returns>>
  PROVE  /\ ReturnedInAll' = ReturnedInAll /\ ReturnLogs' = ReturnLogs
         /\ \A p : Bottleneck(p)' = Bottleneck(p)
BY DEF ReturnedInAll, Bottleneck, ReturnLogs, Entries, Log

LEMMA SameFunded ==
  ASSUME UNCHANGED <<history, fundings>>
  PROVE  /\ \A b : Funded(b)' = Funded(b) /\ FundingsOf(b)' = FundingsOf(b)
         /\ FundedInAll' = FundedInAll /\ FundingLogs' = FundingLogs
<1>1. \A b : Funded(b)' = Funded(b)
  BY DEF Funded, AmountOf, TransfersOf, FundingsOf, Log
<1>2. FundedInAll' = FundedInAll /\ FundingLogs' = FundingLogs
  BY DEF FundedInAll, AmountOf, TransfersOf, FundingLogs, Log
<1>3. \A b : FundingsOf(b)' = FundingsOf(b)
  BY DEF FundingsOf
<1> QED
  BY <1>1, <1>2, <1>3

LEMMA FundingMatches ==
  ASSUME ClaimInv, SumsMatch, UsedMatches, FirstTimesLeast,
         NEW f \in Fundings, fundings' = Append(fundings, f), CountFunding(f),
         UNCHANGED <<history, claim, settlements, returns, path>>,
         LogsOf(f) \cap used = {}, UsdcTransfer(f.transfer)
  PROVE  SumsMatch' /\ UsedMatches' /\ FirstTimesLeast'
<1>1. IsHistory(history) /\ fundings \in Seq(Fundings) /\ LogsOf(f) \cap FundingLogs = {}
  BY DEF ClaimInv, TypeOK, UsedMatches
<1>2. /\ FundedInAll' = FundedInAll + Log(f.transfer).amount
      /\ Funded(f.buyer)' = Funded(f.buyer) + Log(f.transfer).amount
      /\ \A b : b # f.buyer => Funded(b)' = Funded(b)
  BY <1>1, FundingAdded
<1>3. /\ fundTotal' = fundTotal + Log(f.transfer).amount
      /\ fundedBy' = [fundedBy EXCEPT ![f.buyer] = @ + Log(f.transfer).amount]
      /\ firstFunded' = [firstFunded EXCEPT ![f.buyer] = Smaller(@, Time(f.transfer))]
      /\ used' = used \cup LogsOf(f)
      /\ UNCHANGED <<settledBy, settledTotal, firstSettled, returned, credit>>
  BY DEF CountFunding, settlementSums, returnSums
<1>4. SumsMatch'
  <2>1. \A a \in Addresses : fundedBy'[a] = Funded(a)'
    BY <1>2, <1>3 DEF SumsMatch, ClaimInv, TypeOK
  <2>2. fundTotal' = FundedInAll'
    BY <1>2, <1>3 DEF SumsMatch
  <2>3. /\ \A a \in Addresses : settledBy'[a] = Settled(a)'
        /\ settledTotal' = SettledInAll' /\ returned' = ReturnedInAll'
        /\ credit' = IF path' = <<>> THEN AmountMax ELSE Bottleneck(path)'
    BY <1>3, SameSettled, SameReturned DEF SumsMatch
  <2> QED
    BY <2>1, <2>2, <2>3 DEF SumsMatch
<1>5. UsedMatches'
  <2>1. FundingLogs' = FundingLogs \cup LogsOf(f)
    BY <1>1, FundingListed
  <2>2. /\ Entries(settlements)' = Entries(settlements) /\ Entries(path)' = Entries(path)
        /\ ReturnLogs' = ReturnLogs
    BY SameSettled, SameReturned DEF Entries
  <2> QED
    BY <1>3, <2>1, <2>2 DEF UsedMatches
<1>6. FirstTimesLeast'
  <2> DEFINE last == Len(fundings) + 1
  <2>1. /\ DOMAIN fundings' = DOMAIN fundings \cup {last}
        /\ fundings'[last] = f
        /\ \A k \in DOMAIN fundings : fundings'[k] = fundings[k] /\ fundings[k] \in Fundings
    BY <1>1, Appended
  <2>2. \A i : Time(i)' = Time(i) /\ InPeriod(i)' = InPeriod(i)
    BY DEF Time, InPeriod, Log
  <2>3. /\ firstFunded \in [Addresses -> PeriodStart .. Never] /\ f.buyer \in Addresses
        /\ Time(f.transfer) \in PeriodStart .. Never
        /\ PeriodStart \in Nat /\ Never \in Nat
        /\ \A k \in DOMAIN fundings : fundings[k].buyer \in Addresses
    <3>1. Time(f.transfer) \in PeriodStart .. PeriodEnd /\ InPeriod(f.transfer)
      BY DEF UsdcTransfer, InPeriod, Time
    <3>2. firstFunded \in [Addresses -> PeriodStart .. Never]
      BY DEF ClaimInv, TypeOK
    <3>3. PeriodStart \in Nat /\ PeriodEnd \in Nat /\ Never = PeriodEnd + 1
      BY EvidenceAssumption DEF Never
    <3>4. f.buyer \in Addresses /\ \A k \in DOMAIN fundings : fundings[k].buyer \in Addresses
      BY <2>1 DEF Fundings
    <3> QED
      BY <3>1, <3>2, <3>3, <3>4
  <2>4. \A b \in Addresses : firstFunded'[b] <= firstFunded[b]
    <3> SUFFICES ASSUME NEW b \in Addresses PROVE firstFunded'[b] <= firstFunded[b]
      OBVIOUS
    <3>1. firstFunded[b] \in Nat /\ Time(f.transfer) \in Nat
      BY <2>3
    <3> QED
      BY <1>3, <2>3, <3>1 DEF Smaller
  <2>5. firstFunded'[f.buyer] <= Time(f.transfer) /\ InPeriod(f.transfer)
    <3>1. firstFunded[f.buyer] \in Nat /\ Time(f.transfer) \in Nat
      BY <2>3
    <3> QED
      BY <1>3, <2>3, <3>1 DEF Smaller, UsdcTransfer
  <2>6. ASSUME NEW k \in DOMAIN fundings
        PROVE  /\ InPeriod(fundings[k].transfer)
               /\ firstFunded'[fundings[k].buyer] <= Time(fundings[k].transfer)
    <3>1. PICK b \in Addresses : b = fundings[k].buyer
      BY <2>3
    <3>2. firstFunded[b] <= Time(fundings[k].transfer) /\ InPeriod(fundings[k].transfer)
      BY <3>1 DEF FirstTimesLeast
    <3>3. firstFunded'[b] <= firstFunded[b] /\ firstFunded[b] \in Nat
      BY <2>3, <2>4
    <3>4. firstFunded'[b] \in Nat /\ Time(fundings[k].transfer) \in Nat
      <4>1. Time(f.transfer) \in Nat
        BY <2>3
      <4>2. firstFunded'[b] \in Nat
        BY <1>3, <2>3, <3>3, <4>1 DEF Smaller
      <4>3. fundings[k].transfer \in Keys
        BY <2>1 DEF Fundings
      <4> QED
        BY <1>1, <4>2, <4>3, LogTypes
    <3> QED
      BY <3>1, <3>2, <3>3, <3>4
  <2>7. \A i \in Entries(settlements)' : (firstSettled <= Time(i))'
    BY <1>3, <2>2, SameSettled DEF FirstTimesLeast
  <2>8. \A k \in DOMAIN fundings' :
          /\ InPeriod(fundings'[k].transfer)
          /\ firstFunded'[fundings'[k].buyer] <= Time(fundings'[k].transfer)
    BY <2>1, <2>5, <2>6
  <2> QED
    BY <2>2, <2>7, <2>8 DEF FirstTimesLeast
<1> QED
  BY <1>4, <1>5, <1>6

LEMMA DepositsAreLogs ==
  ASSUME fundings \in Seq(Fundings), NEW K \in SUBSET DOMAIN fundings
  PROVE  DepositsOf(K) \in SUBSET Keys /\ DepositsOf(K) \in SUBSET FundingLogs
<1>1. \A k \in DOMAIN fundings : fundings[k] \in Fundings
  OBVIOUS
<1>2. \A k \in DOMAIN fundings :
        fundings[k].deposited # 0 => /\ fundings[k].deposited \in Keys
                                     /\ fundings[k].deposited \in LogsOf(fundings[k])
  BY <1>1 DEF Fundings, LogsOf
<1> QED
  BY <1>2 DEF DepositsOf, FundingLogs

DirectsOf(b) == {k \in FundingsOf(b) : Direct(fundings[k])}

LEMMA SplitKeeps ==
  ASSUME ClaimInv, UsedMatches, FundingsSplit, verdict = "pending",
         NEW f \in Fundings, fundings' = Append(fundings, f),
         UNCHANGED <<history, claim, verdict>>,
         LogsOf(f) \cap used = {},
         Direct(f) \/ Log(f.deposited).amount = Log(f.transfer).amount,
         claim.kind = "reciprocal" => ~Direct(f)
  PROVE  FundingsSplit'
<1>1. IsHistory(history) /\ fundings \in Seq(Fundings) /\ LogsOf(f) \cap FundingLogs = {}
  BY DEF ClaimInv, TypeOK, UsedMatches
<1>2. PICK n : n = Len(fundings) + 1
  OBVIOUS
<1>3. /\ DOMAIN fundings' = DOMAIN fundings \cup {n}
      /\ fundings'[n] = f
      /\ \A k \in DOMAIN fundings : fundings'[k] = fundings[k] /\ k # n
  BY <1>1, <1>2, Appended
<1>4. /\ FundingsOf(f.buyer)' = FundingsOf(f.buyer) \cup {n}
      /\ \A b : b # f.buyer => FundingsOf(b)' = FundingsOf(b)
      /\ \A b : FundingsOf(b) \in SUBSET DOMAIN fundings
  BY <1>3 DEF FundingsOf
<1>5. /\ FundedInAll' = FundedInAll + Log(f.transfer).amount
      /\ Funded(f.buyer)' = Funded(f.buyer) + Log(f.transfer).amount
      /\ \A b : b # f.buyer => Funded(b)' = Funded(b)
  BY <1>1, FundingAdded
<1>6. \A b : DirectlyFunded(b) = AmountOf(TransfersOf(DirectsOf(b)))
             /\ DirectsOf(b) \in SUBSET DOMAIN fundings
  BY <1>4 DEF DirectlyFunded, DirectsOf
<1>7. \A b : b # f.buyer =>
        /\ TransfersOf(DirectsOf(b))' = TransfersOf(DirectsOf(b))
        /\ DepositsOf(FundingsOf(b))' = DepositsOf(FundingsOf(b))
  BY <1>3, <1>4 DEF TransfersOf, DirectsOf, Direct, DepositsOf
<1>8. /\ TransfersOf(DirectsOf(f.buyer))'
           = TransfersOf(DirectsOf(f.buyer)) \cup (IF Direct(f) THEN {f.transfer} ELSE {})
      /\ DepositsOf(FundingsOf(f.buyer))'
           = DepositsOf(FundingsOf(f.buyer)) \cup (IF Direct(f) THEN {} ELSE {f.deposited})
  <2>1. DirectsOf(f.buyer)' = DirectsOf(f.buyer) \cup (IF Direct(f) THEN {n} ELSE {})
    BY <1>3, <1>4 DEF DirectsOf, Direct
  <2>2. TransfersOf(DirectsOf(f.buyer))'
          = TransfersOf(DirectsOf(f.buyer)) \cup (IF Direct(f) THEN {f.transfer} ELSE {})
    BY <1>3, <1>6, <2>1 DEF TransfersOf
  <2>3. DepositsOf(FundingsOf(f.buyer))'
          = DepositsOf(FundingsOf(f.buyer)) \cup (IF Direct(f) THEN {} ELSE {f.deposited})
    BY <1>3, <1>4 DEF DepositsOf, Direct
  <2> QED
    BY <2>2, <2>3
<1>9. DepositsOf(DOMAIN fundings)'
        = DepositsOf(DOMAIN fundings) \cup (IF Direct(f) THEN {} ELSE {f.deposited})
  BY <1>3 DEF DepositsOf, Direct
<1>10. /\ f.transfer \in Keys /\ f.transfer \in LogsOf(f)
       /\ ~Direct(f) => f.deposited \in Keys /\ f.deposited \in LogsOf(f)
  BY DEF Fundings, LogsOf, Keys, Direct
<1>11. PICK to : to = TransfersOf(DirectsOf(f.buyer))
  OBVIOUS
<1>12. PICK do : do = DepositsOf(FundingsOf(f.buyer))
  OBVIOUS
<1>13. PICK da : da = DepositsOf(DOMAIN fundings)
  OBVIOUS
<1>14. /\ to \in SUBSET Keys /\ do \in SUBSET Keys /\ da \in SUBSET Keys
       /\ f.transfer \notin to
       /\ ~Direct(f) => f.deposited \notin do /\ f.deposited \notin da
  BY <1>1, <1>4, <1>6, <1>10, <1>11, <1>12, <1>13, TransfersAreLogs, DepositsAreLogs
<1>15. AmountOf(to \cup {f.transfer}) = AmountOf(to) + Log(f.transfer).amount
  BY <1>1, <1>10, <1>14, AmountMore
<1>16. ~Direct(f) =>
         /\ AmountOf(do \cup {f.deposited}) = AmountOf(do) + Log(f.transfer).amount
         /\ AmountOf(da \cup {f.deposited}) = AmountOf(da) + Log(f.transfer).amount
  BY <1>1, <1>10, <1>14, AmountMore
<1>17. AmountOf(to) \in Nat /\ AmountOf(do) \in Nat /\ Log(f.transfer).amount \in Nat
  BY <1>1, <1>10, <1>14, AmountType, LogTypes, EvidenceAssumption DEF Logs
<1>18. \A b : DirectlyFunded(b)' = AmountOf(TransfersOf(DirectsOf(b)))'
  BY DEF DirectlyFunded, DirectsOf
<1>19. ASSUME NEW b \in Addresses
       PROVE  Funded(b)' = DirectlyFunded(b)' + AmountOf(DepositsOf(FundingsOf(b)))'
  <2>1. Funded(b) = AmountOf(TransfersOf(DirectsOf(b))) + AmountOf(DepositsOf(FundingsOf(b)))
    BY <1>6 DEF FundingsSplit
  <2>2. CASE b # f.buyer
    BY <1>5, <1>7, <1>18, <2>1, <2>2, SameSums
  <2>3. CASE b = f.buyer
    <3>1. /\ DirectlyFunded(b)' = AmountOf(to \cup (IF Direct(f) THEN {f.transfer} ELSE {}))
          /\ AmountOf(DepositsOf(FundingsOf(b)))'
               = AmountOf(do \cup (IF Direct(f) THEN {} ELSE {f.deposited}))
      BY <1>8, <1>11, <1>12, <1>18, <2>3, SameSums
    <3>2. Funded(b) = AmountOf(to) + AmountOf(do)
      BY <1>11, <1>12, <2>1, <2>3
    <3>3. CASE Direct(f)
      <4>1. do \cup {} = do
        OBVIOUS
      <4> QED
        BY <1>5, <1>15, <1>17, <2>3, <3>1, <3>2, <3>3, <4>1
    <3>4. CASE ~Direct(f)
      <4>1. to \cup {} = to
        OBVIOUS
      <4> QED
        BY <1>5, <1>16, <1>17, <2>3, <3>1, <3>2, <3>4, <4>1
    <3> QED
      BY <3>3, <3>4
  <2> QED
    BY <2>2, <2>3
<1>20. claim.kind = "reciprocal" => FundedInAll' = AmountOf(DepositsOf(DOMAIN fundings))'
  BY <1>5, <1>9, <1>13, <1>16, SameSums DEF FundingsSplit
<1> QED
  BY <1>19, <1>20 DEF FundingsSplit

\* What a log is does not depend on the evidence listed.
LEMMA SameLogs ==
  ASSUME UNCHANGED <<history, claim>>
  PROVE  /\ Keys' = Keys /\ Pair' = Pair /\ \A i : Log(i)' = Log(i) /\ Time(i)' = Time(i)
         /\ \A i : UsdcTransfer(i)' = UsdcTransfer(i) /\ ChannelSettled(i)' = ChannelSettled(i)
                   /\ InPeriod(i)' = InPeriod(i)
         /\ \A f, S, d : PaidBy(f, S, d)' = PaidBy(f, S, d)
<1>1. Keys' = Keys /\ Pair' = Pair /\ \A i : Log(i)' = Log(i) /\ Time(i)' = Time(i)
  BY DEF Keys, Log, Time, Pair
<1>2. \A i : UsdcTransfer(i)' = UsdcTransfer(i) /\ ChannelSettled(i)' = ChannelSettled(i)
             /\ InPeriod(i)' = InPeriod(i)
  BY DEF UsdcTransfer, ChannelSettled, InPeriod, Log
<1>3. \A f, S, d : PaidBy(f, S, d)' = PaidBy(f, S, d)
  BY DEF PaidBy, ProtocolDeposit, UsdcTransfer, InPeriod, Log
<1> QED
  BY <1>1, <1>2, <1>3

LEMMA FundingRules ==
  ASSUME ClaimInv, ClaimInv', RulesInv, VerifyFunding
  PROVE  RulesInv'
<1>1. /\ verdict = "pending" /\ claim.kind = "closed-loop" /\ phase = "fundings"
      /\ UNCHANGED <<settlements, returns, path>>
  BY DEF VerifyFunding, Verifying
<1>2. SumsMatch /\ UsedMatches /\ FirstTimesLeast /\ LoopSoFar /\ LoopPhase
  BY <1>1, LoopState
<1>3. settlements = <<>> /\ returns = <<>> /\ path = <<>> /\ LoopClaimRule
  BY <1>1, <1>2 DEF LoopPhase
<1>4. PICK f \in Fundings :
        /\ fundings' = Append(fundings, f)
        /\ \/ FundsBuyer(f) /\ CountFunding(f) /\ UNCHANGED <<history, claim, phase, verdict>>
           \/ ~FundsBuyer(f) /\ Reject
  BY DEF VerifyFunding, Take
<1>5. UNCHANGED <<history, claim, phase>> /\ IsHistory(history) /\ fundings \in Seq(Fundings)
  BY <1>4 DEF Reject, ClaimInv, TypeOK
<1>6. PICK n : n = Len(fundings) + 1
  OBVIOUS
<1>7. /\ DOMAIN fundings' = DOMAIN fundings \cup {n}
      /\ fundings'[n] = f
      /\ \A k \in DOMAIN fundings : fundings'[k] = fundings[k] /\ k # n
  BY <1>4, <1>5, <1>6, Appended
<1>8. LoopFundingsListed'
        <=> LoopFundingsListed /\ f.buyer \in claim.buyers /\ PaidBy(f, {claim.funder}, TRUE)
  <2>1. LoopFundingsListed'
          <=> \A k \in DOMAIN fundings' :
                fundings'[k].buyer \in claim.buyers /\ PaidBy(fundings'[k], {claim.funder}, TRUE)
    <3>1. \A g, S, d : PaidBy(g, S, d)' = PaidBy(g, S, d)
      BY <1>5, SameLogs
    <3> QED
      BY <1>5, <3>1 DEF LoopFundingsListed
  <2> QED
    BY <1>7, <2>1 DEF LoopFundingsListed
<1>9. CASE FundsBuyer(f) /\ CountFunding(f) /\ UNCHANGED <<history, claim, phase, verdict>>
  <2>1. /\ LogsOf(f) \cap used = {} /\ UsdcTransfer(f.transfer)
        /\ Direct(f) \/ Log(f.deposited).amount = Log(f.transfer).amount
        /\ f.buyer \in claim.buyers /\ PaidBy(f, {claim.funder}, TRUE)
    BY <1>9 DEF FundsBuyer, ProtocolDeposit, PaidBy
  <2>2. SumsMatch' /\ UsedMatches' /\ FirstTimesLeast'
    BY <1>1, <1>2, <1>4, <1>9, <2>1, FundingMatches
  <2>3. FundingsSplit'
    BY <1>1, <1>2, <1>4, <1>9, <2>1, SplitKeeps DEF RulesInv
  <2>4. LoopSoFar'
    <3>1. LoopFundingsListed'
      BY <1>2, <1>8, <2>1 DEF LoopSoFar
    <3>2. LoopSettlementsListed' /\ Entries(returns)' = {} /\ Path(path)'
      BY <1>1, <1>3, EvidenceAssumption DEF LoopSettlementsListed, Entries, Path
    <3> QED
      BY <1>1, <1>3, <3>1, <3>2, EvidenceAssumption DEF LoopSoFar, LoopReturnsListed
  <2>5. LoopPhase'
    BY <1>1, <1>3, <1>9 DEF LoopPhase, LoopClaimRule
  <2>6. RulesSoFar'
    BY <1>1, <1>9, <2>2, <2>4, <2>5 DEF RulesSoFar
  <2> QED
    BY <1>1, <1>9, <2>3, <2>6, NotRejected
<1>10. CASE ~FundsBuyer(f) /\ Reject
  <2> SUFFICES ASSUME LoopFundingsRule' PROVE FundsBuyer(f)
    BY <1>1, <1>10, LoopRejects
  <2>1. f.buyer \in claim.buyers /\ PaidBy(f, {claim.funder}, TRUE)
    BY <1>8 DEF LoopFundingsRule
  <2>2. LogsOf(f) \cap FundingLogs = {}
    <3>1. \A k, l \in DOMAIN fundings' :
            k # l => LogsOf(fundings'[k]) \cap LogsOf(fundings'[l]) = {}
      BY DEF LoopFundingsRule, EvidenceDistinct, FundingsDistinct, LogsOf
    <3> QED
      BY <1>7, <3>1 DEF FundingLogs
  <2>3. used = FundingLogs
    BY <1>2, <1>3 DEF UsedMatches, Entries, ReturnLogs
  <2>4. Fits(fundTotal + Log(f.transfer).amount)
    <3>1. FundedInAll' = FundedInAll + Log(f.transfer).amount
      BY <1>4, <1>5, <2>2, FundingAdded
    <3> QED
      BY <1>2, <3>1 DEF SumsMatch, LoopFundingsRule, Fits
  <2> QED
    BY <2>1, <2>2, <2>3, <2>4 DEF FundsBuyer, PaidBy
<1> QED
  BY <1>4, <1>9, <1>10

LEMMA PairDepositRules ==
  ASSUME ClaimInv, ClaimInv', RulesInv, VerifyPairDeposit
  PROVE  RulesInv'
<1>1. /\ verdict = "pending" /\ claim.kind = "reciprocal" /\ phase = "deposits"
      /\ UNCHANGED <<settlements, returns, path>>
  BY DEF VerifyPairDeposit, Verifying
<1>2. SumsMatch /\ UsedMatches /\ FirstTimesLeast /\ PairSoFar /\ PairPhase
  BY <1>1, PairState
<1>3. /\ returns = <<>> /\ path = <<>> /\ PairSettlementsRule
      /\ Zero \notin Pair /\ claim.a < claim.b
  BY <1>1, <1>2 DEF PairSoFar, PairPhase
<1>4. PICK f \in Fundings :
        /\ fundings' = Append(fundings, f) /\ ~Direct(f)
        /\ \/ DepositsInPair(f) /\ CountFunding(f) /\ UNCHANGED <<history, claim, phase, verdict>>
           \/ ~DepositsInPair(f) /\ Reject
  BY DEF VerifyPairDeposit, Take
<1>5. UNCHANGED <<history, claim, phase>> /\ IsHistory(history) /\ fundings \in Seq(Fundings)
  BY <1>4 DEF Reject, ClaimInv, TypeOK
<1>6. PICK n : n = Len(fundings) + 1
  OBVIOUS
<1>7. /\ DOMAIN fundings' = DOMAIN fundings \cup {n}
      /\ fundings'[n] = f
      /\ \A k \in DOMAIN fundings : fundings'[k] = fundings[k] /\ k # n
  BY <1>4, <1>5, <1>6, Appended
<1>8. PairDepositsListed' <=> PairDepositsListed /\ f.buyer \in Pair /\ PaidBy(f, Pair, FALSE)
  <2>1. PairDepositsListed'
          <=> \A k \in DOMAIN fundings' :
                fundings'[k].buyer \in Pair /\ PaidBy(fundings'[k], Pair, FALSE)
    <3>1. Pair' = Pair /\ \A g, S, d : PaidBy(g, S, d)' = PaidBy(g, S, d)
      BY <1>5, SameLogs
    <3> QED
      BY <3>1 DEF PairDepositsListed
  <2> QED
    BY <1>7, <2>1 DEF PairDepositsListed
<1>9. CASE DepositsInPair(f) /\ CountFunding(f) /\ UNCHANGED <<history, claim, phase, verdict>>
  <2>1. /\ LogsOf(f) \cap used = {} /\ UsdcTransfer(f.transfer)
        /\ Log(f.deposited).amount = Log(f.transfer).amount
        /\ f.buyer \in Pair /\ PaidBy(f, Pair, FALSE)
    BY <1>9 DEF DepositsInPair, ProtocolDeposit, PaidBy
  <2>2. SumsMatch' /\ UsedMatches' /\ FirstTimesLeast'
    BY <1>1, <1>2, <1>4, <1>9, <2>1, FundingMatches
  <2>3. FundingsSplit'
    BY <1>1, <1>2, <1>4, <1>9, <2>1, SplitKeeps DEF RulesInv
  <2>4. PairSettlementsListed' /\ SettledInAll' = SettledInAll /\ PairSales' = PairSales
    <3>1. /\ Pair' = Pair /\ \A i : ChannelSettled(i)' = ChannelSettled(i) /\ Log(i)' = Log(i)
      BY <1>5, SameLogs
    <3>2. Entries(settlements)' = Entries(settlements) /\ SettledInAll' = SettledInAll
      BY <1>1, <1>5, SameSettled
    <3>3. PairSettlementsListed'
      BY <1>3, <3>1, <3>2 DEF PairSettlementsRule, PairSettlementsListed
    <3>4. \A x : Sold(x)' = Sold(x)
      BY <1>1, <1>5 DEF Sold, AmountOf, Entries, Log
    <3> QED
      BY <1>5, <3>2, <3>3, <3>4 DEF PairSales
  <2>5. EvidenceDistinct'
    BY <1>1, <1>9 DEF ClaimInv, NoLogCountedTwice
  <2>6. PairSettlementsRule'
    BY <1>1, <1>3, <2>4, <2>5 DEF PairSettlementsRule
  <2>7. PairSoFar'
    BY <1>1, <1>2, <1>8, <2>1, <2>4 DEF PairSoFar
  <2>8. PairPhase'
    BY <1>1, <1>3, <1>9, <2>6 DEF PairPhase, Pair
  <2>9. RulesSoFar'
    BY <1>1, <1>9, <2>2, <2>7, <2>8 DEF RulesSoFar
  <2> QED
    BY <1>1, <1>9, <2>3, <2>9, NotRejected
<1>10. CASE ~DepositsInPair(f) /\ Reject
  <2> SUFFICES ASSUME PairDepositsRule' PROVE DepositsInPair(f)
    BY <1>1, <1>10, PairRejects
  <2>1. f.buyer \in Pair /\ PaidBy(f, Pair, FALSE)
    <3>1. PairDepositsListed'
      BY DEF PairDepositsRule
    <3> QED
      BY <1>8, <3>1
  <2>2. EvidenceDistinct' /\ UNCHANGED settlements
    BY <1>1 DEF PairDepositsRule
  <2>3. LogsOf(f) \cap FundingLogs = {}
    <3>1. \A k, l \in DOMAIN fundings' :
            k # l => LogsOf(fundings'[k]) \cap LogsOf(fundings'[l]) = {}
      BY <2>2 DEF EvidenceDistinct, FundingsDistinct, LogsOf
    <3> QED
      BY <1>7, <3>1 DEF FundingLogs
  <2>4. LogsOf(f) \cap Entries(settlements) = {}
    <3>1. FundingLogs' = FundingLogs \cup LogsOf(f) /\ Entries(settlements)' = Entries(settlements)
      BY <1>4, <1>5, <2>2, FundingListed DEF Entries
    <3> QED
      BY <2>2, <3>1 DEF EvidenceDistinct, RolesDistinct
  <2>5. used = FundingLogs \cup Entries(settlements)
    BY <1>2, <1>3 DEF UsedMatches, Entries, ReturnLogs
  <2>6. Fits(fundTotal + Log(f.transfer).amount)
    <3>1. FundedInAll' = FundedInAll + Log(f.transfer).amount
      BY <1>4, <1>5, <2>3, FundingAdded
    <3> QED
      BY <1>2, <3>1 DEF SumsMatch, PairDepositsRule, Fits
  <2> QED
    BY <1>4, <2>1, <2>3, <2>4, <2>5, <2>6 DEF DepositsInPair, PaidBy
<1> QED
  BY <1>4, <1>9, <1>10

\* One more settlement counted.
LEMMA SettlementMatches ==
  ASSUME ClaimInv, SumsMatch, UsedMatches, FirstTimesLeast,
         NEW i \in Keys \ used, settlements' = Append(settlements, i), CountSettlement(i),
         UNCHANGED <<history, claim, fundings, returns, path>>, ChannelSettled(i)
  PROVE  SumsMatch' /\ UsedMatches' /\ FirstTimesLeast'
<1>1. /\ IsHistory(history) /\ settlements \in Seq(Keys) /\ i \notin Entries(settlements)
      /\ settledBy \in [Addresses -> 0 .. AmountMax] /\ firstSettled \in PeriodStart .. Never
  BY DEF ClaimInv, TypeOK, UsedMatches
<1>2. /\ SettledInAll' = SettledInAll + Log(i).amount
      /\ \A b : Settled(b)' = IF b = Log(i).from THEN Settled(b) + Log(i).amount
                                                ELSE Settled(b)
  BY <1>1, SettlementAdded
<1>3. /\ settledTotal' = settledTotal + Log(i).amount
      /\ settledBy' = [settledBy EXCEPT ![Log(i).from] = @ + Log(i).amount]
      /\ firstSettled' = Smaller(firstSettled, Time(i))
      /\ used' = used \cup {i}
      /\ UNCHANGED <<fundedBy, fundTotal, firstFunded, returned, credit>>
  BY DEF CountSettlement, fundingSums, returnSums
<1>4. SumsMatch'
  <2>1. \A a \in Addresses : settledBy'[a] = Settled(a)'
    BY <1>1, <1>2, <1>3 DEF SumsMatch
  <2>2. settledTotal' = SettledInAll'
    BY <1>2, <1>3 DEF SumsMatch
  <2>3. /\ \A a \in Addresses : fundedBy'[a] = Funded(a)'
        /\ fundTotal' = FundedInAll' /\ returned' = ReturnedInAll'
        /\ credit' = IF path' = <<>> THEN AmountMax ELSE Bottleneck(path)'
    BY <1>3, SameFunded, SameReturned DEF SumsMatch
  <2> QED
    BY <2>1, <2>2, <2>3 DEF SumsMatch
<1>5. Entries(settlements)' = Entries(settlements) \cup {i}
  BY <1>1, Appended
<1>6. UsedMatches'
  <2>1. /\ FundingLogs' = FundingLogs /\ Entries(path)' = Entries(path)
        /\ ReturnLogs' = ReturnLogs
    BY SameFunded, SameReturned DEF Entries
  <2> QED
    BY <1>3, <1>5, <2>1 DEF UsedMatches
<1>7. FirstTimesLeast'
  <2>1. \A j : Time(j)' = Time(j) /\ InPeriod(j)' = InPeriod(j)
    BY SameLogs
  <2>2. \A j \in Entries(settlements) \cup {i} : firstSettled' <= Time(j)
    <3>1. firstSettled \in Nat /\ \A j \in Keys : Time(j) \in Nat
      BY <1>1, LogTypes, EvidenceAssumption DEF Never
    <3>2. \A j \in Entries(settlements) : j \in Keys /\ firstSettled <= Time(j)
      BY <1>1 DEF FirstTimesLeast, Entries
    <3> QED
      BY <1>3, <3>1, <3>2 DEF Smaller
  <2> QED
    BY <1>3, <1>5, <2>1, <2>2 DEF FirstTimesLeast
<1> QED
  BY <1>4, <1>6, <1>7

\* The fundings are split as they were when no funding is added.
LEMMA SplitStays ==
  ASSUME UNCHANGED <<history, claim, fundings>>, FundingsSplit, verdict # "rejected"
  PROVE  FundingsSplit'
<1>1. \A b : AmountOf(DepositsOf(FundingsOf(b)))' = AmountOf(DepositsOf(FundingsOf(b)))
  BY DEF AmountOf, DepositsOf, FundingsOf, Log
<1>2. AmountOf(DepositsOf(DOMAIN fundings))' = AmountOf(DepositsOf(DOMAIN fundings))
  BY DEF AmountOf, DepositsOf, Log
<1>3. \A b : DirectlyFunded(b)' = DirectlyFunded(b)
  BY DEF DirectlyFunded, AmountOf, TransfersOf, FundingsOf, Log
<1> QED
  BY <1>1, <1>2, <1>3, SameFunded DEF FundingsSplit

LEMMA FundingTime ==
  ASSUME ClaimInv, NEW k \in DOMAIN fundings
  PROVE  Time(fundings[k].transfer) \in Nat
<1>1. fundings \in Seq(Fundings) /\ IsHistory(history)
  BY DEF ClaimInv, TypeOK
<1>2. \A n \in DOMAIN fundings : fundings[n] \in Fundings
  BY <1>1
<1>3. fundings[k].transfer \in Keys
  BY <1>2 DEF Fundings
<1> QED
  BY <1>1, <1>3, LogTypes

LEMMA FirstTime ==
  ASSUME ClaimInv, NEW b \in Addresses
  PROVE  firstFunded[b] \in Nat
<1>1. firstFunded \in [Addresses -> PeriodStart .. Never]
  BY DEF ClaimInv, TypeOK
<1>2. PeriodStart \in Nat /\ Never \in Nat
  BY EvidenceAssumption DEF Never
<1>3. firstFunded[b] \in PeriodStart .. Never
  BY <1>1
<1> QED
  BY <1>2, <1>3

\* A settlement no list has yet is one that is not used, once the list has it.
LEMMA SettlementFresh ==
  ASSUME ClaimInv, UsedMatches, NEW i \in Keys, settlements' = Append(settlements, i),
         UNCHANGED fundings, returns = <<>>, path = <<>>, EvidenceDistinct'
  PROVE  i \notin used
<1>1. settlements \in Seq(Keys)
  BY DEF ClaimInv, TypeOK
<1>2. PICK n : n = Len(settlements) + 1
  OBVIOUS
<1>3. /\ DOMAIN settlements' = DOMAIN settlements \cup {n}
      /\ settlements'[n] = i
      /\ \A k \in DOMAIN settlements : settlements'[k] = settlements[k] /\ k # n
      /\ Entries(settlements') = Entries(settlements) \cup {i}
  BY <1>1, <1>2, Appended
<1>4. i \notin Entries(settlements)
  <2>1. \A k, l \in DOMAIN settlements' : settlements'[k] = settlements'[l] => k = l
    BY DEF EvidenceDistinct, Distinct
  <2> QED
    BY <1>3, <2>1 DEF Entries
<1>5. i \notin FundingLogs
  <2>1. FundingLogs' = FundingLogs /\ Entries(settlements)' = Entries(settlements) \cup {i}
    BY <1>3 DEF FundingLogs
  <2> QED
    BY <2>1 DEF EvidenceDistinct, RolesDistinct
<1>6. used = FundingLogs \cup Entries(settlements)
  BY DEF UsedMatches, Entries, ReturnLogs
<1> QED
  BY <1>4, <1>5, <1>6

LEMMA SettlementRules ==
  ASSUME ClaimInv, ClaimInv', RulesInv, VerifySettlement
  PROVE  RulesInv'
<1>1. /\ verdict = "pending" /\ claim.kind = "closed-loop" /\ phase = "settlements"
      /\ UNCHANGED <<fundings, returns, path>>
  BY DEF VerifySettlement, Verifying
<1>2. SumsMatch /\ UsedMatches /\ FirstTimesLeast /\ LoopSoFar /\ LoopPhase
  BY <1>1, LoopState
<1>3. /\ returns = <<>> /\ path = <<>> /\ LoopClaimRule
      /\ \A b \in claim.buyers : FundingsOf(b) # {}
  BY <1>1, <1>2 DEF LoopPhase
<1>4. PICK i \in Keys :
        /\ settlements' = Append(settlements, i)
        /\ \/ /\ SettlesWithSeller(i) /\ CountSettlement(i)
              /\ UNCHANGED <<history, claim, phase, verdict>>
           \/ ~SettlesWithSeller(i) /\ Reject
  BY DEF VerifySettlement, Take
<1>5. UNCHANGED <<history, claim, phase>> /\ IsHistory(history) /\ settlements \in Seq(Keys)
  BY <1>4 DEF Reject, ClaimInv, TypeOK
<1>6. Entries(settlements)' = Entries(settlements) \cup {i}
  BY <1>4, <1>5, Appended
<1>7. PICK b \in Addresses : b = Log(i).from
  BY <1>5, LogTypes DEF Logs
<1>8. LoopSettlementsListed'
        <=> /\ LoopSettlementsListed
            /\ ChannelSettled(i) /\ Log(i).to = claim.seller /\ b \in claim.buyers
            /\ \E k \in FundingsOf(b) : Time(fundings[k].transfer) < Time(i)
  <2>1. LoopSettlementsListed'
          <=> \A j \in Entries(settlements) \cup {i} :
                /\ ChannelSettled(j) /\ Log(j).to = claim.seller /\ Log(j).from \in claim.buyers
                /\ \E k \in FundingsOf(Log(j).from) : Time(fundings[k].transfer) < Time(j)
    <3>1. /\ \A j : ChannelSettled(j)' = ChannelSettled(j) /\ Log(j)' = Log(j) /\ Time(j)' = Time(j)
          /\ \A c : FundingsOf(c)' = FundingsOf(c)
      BY <1>1, <1>5, SameLogs, SameFunded
    <3> QED
      BY <1>1, <1>5, <1>6, <3>1 DEF LoopSettlementsListed
  <2> QED
    BY <1>7, <2>1 DEF LoopSettlementsListed
<1>9. CASE /\ SettlesWithSeller(i) /\ CountSettlement(i)
           /\ UNCHANGED <<history, claim, phase, verdict>>
  <2>1. /\ i \in Keys \ used /\ ChannelSettled(i) /\ Log(i).to = claim.seller
        /\ b \in claim.buyers /\ Time(i) > firstFunded[b]
    BY <1>4, <1>7, <1>9 DEF SettlesWithSeller
  <2>2. SumsMatch' /\ UsedMatches' /\ FirstTimesLeast'
    BY <1>1, <1>2, <1>4, <1>9, <2>1, SettlementMatches
  <2>3. FundingsSplit'
    BY <1>1, <1>9, SplitStays DEF RulesInv
  <2>4. \E k \in FundingsOf(b) : Time(fundings[k].transfer) < Time(i)
    <3>1. firstFunded[b] # Never
      <4>1. /\ Time(i) \in PeriodStart .. PeriodEnd /\ Never = PeriodEnd + 1
            /\ PeriodStart \in Nat /\ PeriodEnd \in Nat
        BY <2>1, EvidenceAssumption DEF ChannelSettled, InPeriod, Time, Never
      <4> QED
        BY <2>1, <4>1
    <3>2. PICK k \in DOMAIN fundings :
            fundings[k].buyer = b /\ Time(fundings[k].transfer) = firstFunded[b]
      BY <1>1, <1>7, <3>1 DEF ClaimInv, FirstTimes
    <3>3. Time(fundings[k].transfer) \in Nat /\ Time(i) \in Nat
      BY <1>4, <1>5, LogTypes, FundingTime
    <3> QED
      BY <2>1, <3>2, <3>3 DEF FundingsOf
  <2>5. LoopSoFar'
    <3>1. LoopSettlementsListed'
      BY <1>2, <1>8, <2>1, <2>4 DEF LoopSoFar
    <3>2. LoopFundingsListed'
      <4>1. \A g, S, d : PaidBy(g, S, d)' = PaidBy(g, S, d)
        BY <1>5, SameLogs
      <4> QED
        BY <1>1, <1>2, <1>5, <4>1 DEF LoopSoFar, LoopFundingsListed
    <3>3. Entries(returns)' = {} /\ Path(path)'
      BY <1>1, <1>3, EvidenceAssumption DEF Entries, Path
    <3> QED
      BY <1>1, <1>3, <3>1, <3>2, <3>3, EvidenceAssumption DEF LoopSoFar, LoopReturnsListed
  <2>6. LoopPhase'
    <3>1. \A c : FundingsOf(c)' = FundingsOf(c)
      BY <1>1, <1>5, SameFunded
    <3>2. (\A c \in claim.buyers : FundingsOf(c) # {})'
      BY <1>3, <1>5, <3>1
    <3> QED
      BY <1>1, <1>3, <1>9, <3>2 DEF LoopPhase, LoopClaimRule
  <2>7. RulesSoFar'
    BY <1>1, <1>9, <2>2, <2>5, <2>6 DEF RulesSoFar
  <2> QED
    BY <1>1, <1>9, <2>3, <2>7, NotRejected
<1>10. CASE ~SettlesWithSeller(i) /\ Reject
  <2> SUFFICES ASSUME LoopSettlementsRule' PROVE SettlesWithSeller(i)
    BY <1>1, <1>10, LoopRejects
  <2>1. LoopSettlementsListed' /\ EvidenceDistinct' /\ Fits(SettledInAll)'
    BY DEF LoopSettlementsRule
  <2>2. i \notin used
    BY <1>1, <1>2, <1>3, <1>4, <2>1, SettlementFresh
  <2>3. /\ ChannelSettled(i) /\ Log(i).to = claim.seller /\ b \in claim.buyers
        /\ \E k \in FundingsOf(b) : Time(fundings[k].transfer) < Time(i)
    BY <1>8, <2>1
  <2>4. Time(i) > firstFunded[b]
    <3>1. PICK k \in DOMAIN fundings :
            fundings[k].buyer = b /\ Time(fundings[k].transfer) < Time(i)
      BY <2>3 DEF FundingsOf
    <3>2. firstFunded[b] <= Time(fundings[k].transfer)
      BY <1>2, <3>1 DEF FirstTimesLeast
    <3>3. Time(fundings[k].transfer) \in Nat /\ Time(i) \in Nat
      BY <1>4, <1>5, LogTypes, FundingTime
    <3>4. firstFunded[b] \in Nat
      BY FirstTime
    <3> QED
      BY <3>1, <3>2, <3>3, <3>4
  <2>5. Fits(settledTotal + Log(i).amount)
    <3>1. SettledInAll' = SettledInAll + Log(i).amount
      BY <1>2, <1>4, <1>5, <2>2, SettlementAdded DEF UsedMatches
    <3> QED
      BY <1>2, <2>1, <3>1 DEF SumsMatch, Fits
  <2> QED
    BY <1>7, <2>2, <2>3, <2>4, <2>5 DEF SettlesWithSeller
<1> QED
  BY <1>4, <1>9, <1>10

LEMMA PairSettlementRules ==
  ASSUME ClaimInv, ClaimInv', RulesInv, VerifyPairSettlement
  PROVE  RulesInv'
<1>1. /\ verdict = "pending" /\ claim.kind = "reciprocal" /\ phase = "settlements"
      /\ UNCHANGED <<fundings, returns, path>>
  BY DEF VerifyPairSettlement, Verifying
<1>2. SumsMatch /\ UsedMatches /\ FirstTimesLeast /\ PairSoFar /\ PairPhase
  BY <1>1, PairState
<1>3. /\ fundings = <<>> /\ returns = <<>> /\ path = <<>>
      /\ Zero \notin Pair /\ claim.a < claim.b
  BY <1>1, <1>2 DEF PairSoFar, PairPhase
<1>4. PICK i \in Keys :
        /\ settlements' = Append(settlements, i)
        /\ \/ /\ SettlesInPair(i) /\ CountSettlement(i)
              /\ UNCHANGED <<history, claim, phase, verdict>>
           \/ ~SettlesInPair(i) /\ Reject
  BY DEF VerifyPairSettlement, Take
<1>5. UNCHANGED <<history, claim, phase>> /\ IsHistory(history) /\ settlements \in Seq(Keys)
  BY <1>4 DEF Reject, ClaimInv, TypeOK
<1>6. Entries(settlements)' = Entries(settlements) \cup {i}
  BY <1>4, <1>5, Appended
<1>7. PairSettlementsListed'
        <=> PairSettlementsListed /\ ChannelSettled(i) /\ {Log(i).from, Log(i).to} = Pair
  <2>1. Pair' = Pair /\ \A j : ChannelSettled(j)' = ChannelSettled(j) /\ Log(j)' = Log(j)
    BY <1>5, SameLogs
  <2> QED
    BY <1>6, <2>1 DEF PairSettlementsListed
<1>8. CASE SettlesInPair(i) /\ CountSettlement(i) /\ UNCHANGED <<history, claim, phase, verdict>>
  <2>1. i \in Keys \ used /\ ChannelSettled(i) /\ {Log(i).from, Log(i).to} = Pair
    BY <1>4, <1>8 DEF SettlesInPair
  <2>2. SumsMatch' /\ UsedMatches' /\ FirstTimesLeast'
    BY <1>1, <1>2, <1>4, <1>8, <2>1, SettlementMatches
  <2>3. FundingsSplit'
    BY <1>1, <1>8, SplitStays DEF RulesInv
  <2>4. PairSoFar'
    BY <1>1, <1>2, <1>3, <1>7, <2>1 DEF PairSoFar, PairDepositsListed
  <2>5. PairPhase'
    BY <1>1, <1>3, <1>8 DEF PairPhase, Pair
  <2>6. RulesSoFar'
    BY <1>1, <1>8, <2>2, <2>4, <2>5 DEF RulesSoFar
  <2> QED
    BY <1>1, <1>8, <2>3, <2>6, NotRejected
<1>9. CASE ~SettlesInPair(i) /\ Reject
  <2> SUFFICES ASSUME PairSettlementsRule' PROVE SettlesInPair(i)
    BY <1>1, <1>9, PairRejects
  <2>1. PairSettlementsListed' /\ EvidenceDistinct' /\ Fits(SettledInAll)'
    BY DEF PairSettlementsRule
  <2>2. i \notin used
    BY <1>1, <1>2, <1>3, <1>4, <2>1, SettlementFresh
  <2>3. Fits(settledTotal + Log(i).amount)
    <3>1. SettledInAll' = SettledInAll + Log(i).amount
      BY <1>2, <1>4, <1>5, <2>2, SettlementAdded DEF UsedMatches
    <3> QED
      BY <1>2, <2>1, <3>1 DEF SumsMatch, Fits
  <2> QED
    BY <1>7, <2>1, <2>2, <2>3 DEF SettlesInPair
<1> QED
  BY <1>4, <1>8, <1>9

-----------------------------------------------------------------------------
(* One more hop, one more path.                                            *)

\* What a return path does not change.
LEMMA ReturnsFrame ==
  ASSUME UNCHANGED <<history, claim, fundings, settlements>>
  PROVE  /\ LoopClaimRule' = LoopClaimRule /\ LoopLedgerRule' = LoopLedgerRule
         /\ (\A b \in claim.buyers : FundingsOf(b) # {})'
              = (\A b \in claim.buyers : FundingsOf(b) # {})
         /\ FundedInAll' = FundedInAll /\ SettledInAll' = SettledInAll
         /\ LoopFundingsListed' = LoopFundingsListed
         /\ LoopSettlementsListed' = LoopSettlementsListed
         /\ \A p : Path(p)' = Path(p) /\ ReturnPath(p)' = ReturnPath(p)
<1>1. LoopClaimRule' = LoopClaimRule
  BY DEF LoopClaimRule
<1>2. /\ \A b : Funded(b)' = Funded(b) /\ FundingsOf(b)' = FundingsOf(b)
      /\ \A b : Settled(b)' = Settled(b)
      /\ FundedInAll' = FundedInAll /\ SettledInAll' = SettledInAll
  BY SameFunded, SameSettled
<1>3. LoopLedgerRule' = LoopLedgerRule
  BY <1>2 DEF LoopLedgerRule
<1>4. (\A b \in claim.buyers : FundingsOf(b) # {})' = (\A b \in claim.buyers : FundingsOf(b) # {})
  BY <1>2
<1>5. LoopFundingsListed' = LoopFundingsListed
  <2>1. \A f, S, d : PaidBy(f, S, d)' = PaidBy(f, S, d)
    BY SameLogs
  <2> QED
    BY <2>1 DEF LoopFundingsListed
<1>6. LoopSettlementsListed' = LoopSettlementsListed
  BY <1>2, SameLogs DEF LoopSettlementsListed, Entries
<1>7. \A p : Path(p)' = Path(p) /\ ReturnPath(p)' = ReturnPath(p)
  BY DEF Path, Forwards, ReturnPath, UsdcTransfer, InPeriod, Log, Entries, Time
<1> QED
  BY <1>1, <1>2, <1>3, <1>4, <1>5, <1>6, <1>7

\* Path p goes on with i: the first hop leaves the seller after a settlement.
GoesOn(p, i) ==
  IF p = <<>>
  THEN Log(i).from = claim.seller /\ \E j \in Entries(settlements) : Time(j) < Time(i)
  ELSE LET last == p[Len(p)] IN
       /\ last < i /\ Log(last).to = Log(i).from
       /\ MeetsRatio(Log(i).amount, Log(last).amount, RhoHopBps)
       /\ Time(i) <= Time(p[1]) + PathSeconds

LEMMA PathLonger ==
  ASSUME NEW p \in Seq(Keys), NEW i \in Keys
  PROVE  Path(Append(p, i))
           <=> /\ Path(p) /\ Len(p) < MaxHops
               /\ UsdcTransfer(i) /\ Log(i).from # Log(i).to /\ GoesOn(p, i)
<1>1. PICK q : q = Append(p, i)
  OBVIOUS
<1>2. /\ Len(q) = Len(p) + 1 /\ Len(p) \in Nat /\ q # <<>> /\ q[Len(p) + 1] = i
      /\ \A n \in 1 .. Len(p) : q[n] = p[n]
      /\ Entries(q) = Entries(p) \cup {i}
  BY <1>1, Appended
<1>3. Len(q) <= MaxHops <=> Len(p) <= MaxHops /\ Len(p) < MaxHops
  BY <1>2, EvidenceAssumption
<1>4. (\A j \in Entries(q) : UsdcTransfer(j) /\ Log(j).from # Log(j).to)
        <=> /\ \A j \in Entries(p) : UsdcTransfer(j) /\ Log(j).from # Log(j).to
            /\ UsdcTransfer(i) /\ Log(i).from # Log(i).to
  BY <1>2
<1>5. CASE p = <<>>
  <2>1. q[1] = i /\ 2 .. Len(q) = {} /\ Len(p) = 0
    BY <1>2, <1>5
  <2> QED
    BY <1>1, <1>2, <1>3, <1>4, <1>5, <2>1, EvidenceAssumption DEF Path, GoesOn
<1>6. CASE p # <<>>
  <2>1. PICK n \in Nat \ {0} : n = Len(p)
    BY <1>2, <1>6
  <2>2. /\ q[1] = p[1] /\ q[n] = p[n] /\ q[n + 1] = i /\ (n + 1) - 1 = n
        /\ Len(q) = n + 1 /\ 2 .. n + 1 = 2 .. n \cup {n + 1}
        /\ \A k \in 2 .. n : q[k] = p[k] /\ q[k - 1] = p[k - 1]
    BY <1>2, <2>1
  <2>3. Forwards(q, n + 1) <=> GoesOn(p, i)
    BY <1>6, <2>1, <2>2 DEF GoesOn, Forwards
  <2>4. \A k \in 2 .. n : Forwards(q, k) <=> Forwards(p, k)
    BY <2>2 DEF Forwards
  <2>5. (\A k \in 2 .. Len(q) : Forwards(q, k))
          <=> (\A k \in 2 .. n : Forwards(p, k)) /\ GoesOn(p, i)
    BY <2>2, <2>3, <2>4
  <2> QED
    BY <1>1, <1>2, <1>3, <1>4, <1>6, <2>1, <2>2, <2>5 DEF Path
<1> QED
  BY <1>5, <1>6

LEMMA PathNow ==
  ASSUME UNCHANGED <<history, claim, settlements>>, NEW q, path' = q
  PROVE  Path(path)' <=> Path(q)
BY DEF Path, Forwards, UsdcTransfer, InPeriod, Log, Entries, Time

\* A hop continues the path of the claim just if the rule has the path go on with it.
LEMMA ContinuesPath ==
  ASSUME ClaimInv, FirstTimesLeast, verdict = "pending", NEW i \in Keys, UsdcTransfer(i)
  PROVE  Continues(i) <=> GoesOn(path, i) /\ (path = <<>> => Len(returns) < MaxReturns)
<1>1. /\ IsHistory(history) /\ path \in Seq(Keys) /\ settlements \in Seq(Keys)
      /\ PathSeconds \in Nat
  BY EvidenceAssumption DEF ClaimInv, TypeOK
<1>2. CASE path = <<>>
  <2>1. firstSettled \in Nat /\ Time(i) \in Nat /\ Time(i) < Never
    <3>1. firstSettled \in PeriodStart .. Never
      BY DEF ClaimInv, TypeOK
    <3>2. Time(i) \in PeriodStart .. PeriodEnd
      BY DEF UsdcTransfer, InPeriod, Time
    <3> QED
      BY <3>1, <3>2, EvidenceAssumption DEF Never
  <2>2. \A j \in Entries(settlements) : Time(j) \in Nat /\ firstSettled <= Time(j)
    BY <1>1, LogTypes DEF FirstTimesLeast, Entries
  <2>3. firstSettled # Never => \E j \in Entries(settlements) : Time(j) = firstSettled
    BY DEF ClaimInv, FirstTimes, Entries
  <2>4. Time(i) > firstSettled <=> \E j \in Entries(settlements) : Time(j) < Time(i)
    BY <2>1, <2>2, <2>3 DEF Never
  <2> QED
    BY <1>2, <2>4 DEF Continues, GoesOn
<1>3. CASE path # <<>>
  <2>1. 1 \in DOMAIN path /\ Len(path) \in DOMAIN path
    BY <1>1, <1>3
  <2>2. path[1] \in Keys /\ path[Len(path)] \in Keys
    BY <1>1, <2>1
  <2>3. Time(path[1]) \in Nat /\ Time(i) \in Nat /\ path[Len(path)] \in Nat /\ i \in Nat
    BY <1>1, <2>2, LogTypes DEF Keys
  <2> QED
    BY <1>1, <1>3, <2>3 DEF Continues, GoesOn
<1> QED
  BY <1>2, <1>3

\* The bottleneck of a path with one more hop.
LEMMA BottleneckMore ==
  ASSUME IsHistory(history), NEW p \in Seq(Keys), NEW i \in Keys
  PROVE  /\ Bottleneck(Append(p, i)) \in 0 .. AmountMax
         /\ Bottleneck(Append(p, i))
              = IF p = <<>> THEN Log(i).amount ELSE Smaller(Bottleneck(p), Log(i).amount)
<1>1. PICK a : a = Log(i).amount
  OBVIOUS
<1>2. PICK T : T = {Log(j).amount : j \in Entries(p)}
  OBVIOUS
<1>3. \A j \in Keys : Log(j).amount \in 0 .. AmountMax
  BY LogTypes DEF Logs
<1>4. Entries(p) \in SUBSET Keys /\ Entries(Append(p, i)) = Entries(p) \cup {i}
      /\ (p = <<>> <=> Entries(p) = {})
  <2>1. p # <<>> => 1 \in DOMAIN p
    OBVIOUS
  <2> QED
    BY <2>1, Appended DEF Entries
<1>5. /\ T \in SUBSET (0 .. AmountMax) /\ a \in 0 .. AmountMax /\ 0 .. AmountMax \in SUBSET Nat
      /\ {Log(j).amount : j \in Entries(Append(p, i))} = T \cup {a}
      /\ p = <<>> <=> T = {}
  <2>1. T \in SUBSET (0 .. AmountMax) /\ (p = <<>> <=> T = {})
    BY <1>2, <1>3, <1>4
  <2>2. {Log(j).amount : j \in Entries(Append(p, i))} = T \cup {a}
    BY <1>1, <1>2, <1>4
  <2>3. a \in 0 .. AmountMax /\ 0 .. AmountMax \in SUBSET Nat
    BY <1>1, <1>3, EvidenceAssumption
  <2> QED
    BY <2>1, <2>2, <2>3
<1>6. Bottleneck(Append(p, i)) = Min(T \cup {a}) /\ Bottleneck(p) = Min(T)
  BY <1>2, <1>5 DEF Bottleneck
<1>7. CASE p = <<>>
  <2>1. T \cup {a} = {a}
    BY <1>5, <1>7
  <2>2. Min({a}) = a
    BY <1>5, MinOfOne
  <2> QED
    BY <1>1, <1>5, <1>6, <1>7, <2>1, <2>2
<1>8. CASE p # <<>>
  <2>1. T \in SUBSET Nat /\ T # {} /\ a \in Nat
    BY <1>5, <1>8
  <2>2. Min(T \cup {a}) = Smaller(Min(T), a) /\ Min(T) \in T
    BY <2>1, MinOf, MinOfMore
  <2>3. Smaller(Min(T), a) \in 0 .. AmountMax
    BY <1>5, <2>2 DEF Smaller
  <2> QED
    BY <1>1, <1>6, <1>8, <2>2, <2>3
<1> QED
  BY <1>7, <1>8

LEMMA HopMatches ==
  ASSUME ClaimInv, SumsMatch, UsedMatches, FirstTimesLeast,
         NEW i \in Keys, path' = Append(path, i), CountHop(i),
         UNCHANGED <<history, claim, fundings, settlements, returns>>
  PROVE  SumsMatch' /\ UsedMatches' /\ FirstTimesLeast'
<1>1. IsHistory(history) /\ path \in Seq(Keys)
  BY DEF ClaimInv, TypeOK
<1>2. /\ used' = used \cup {i} /\ credit' = Smaller(credit, Log(i).amount)
      /\ UNCHANGED <<fundedBy, fundTotal, firstFunded, settledBy, settledTotal, firstSettled,
                     returned>>
  BY DEF CountHop, fundingSums, settlementSums
<1>3. PICK q : q = Append(path, i)
  OBVIOUS
<1>4. path' = q /\ q # <<>> /\ Entries(path)' = Entries(path) \cup {i}
  <2>1. Entries(Append(path, i)) = Entries(path) \cup {i} /\ Append(path, i) # <<>>
    BY <1>1, Appended
  <2> QED
    BY <1>3, <2>1 DEF Entries
<1>5. SumsMatch'
  <2>1. Bottleneck(path)' = Bottleneck(q)
    BY <1>4 DEF Bottleneck, Log, Entries
  <2>2. credit' = Bottleneck(path)'
    <3>1. Bottleneck(q)
            = IF path = <<>> THEN Log(i).amount ELSE Smaller(Bottleneck(path), Log(i).amount)
      BY <1>1, <1>3, BottleneckMore
    <3>2. Log(i).amount \in 0 .. AmountMax /\ AmountMax \in Nat
      BY <1>1, LogTypes, EvidenceAssumption DEF Logs
    <3>3. Smaller(AmountMax, Log(i).amount) = Log(i).amount
      BY <3>2 DEF Smaller
    <3> QED
      BY <1>2, <2>1, <3>1, <3>3 DEF SumsMatch
  <2>3. /\ \A a \in Addresses : fundedBy'[a] = Funded(a)' /\ settledBy'[a] = Settled(a)'
        /\ fundTotal' = FundedInAll' /\ settledTotal' = SettledInAll' /\ returned' = ReturnedInAll'
    BY <1>2, SameFunded, SameSettled, SameReturned DEF SumsMatch
  <2> QED
    BY <1>4, <2>2, <2>3 DEF SumsMatch
<1>6. UsedMatches'
  <2>1. /\ FundingLogs' = FundingLogs /\ Entries(settlements)' = Entries(settlements)
        /\ ReturnLogs' = ReturnLogs
    BY SameFunded, SameSettled, SameReturned
  <2> QED
    BY <1>2, <1>4, <2>1 DEF UsedMatches
<1>7. FirstTimesLeast'
  <2>1. \A j : Time(j)' = Time(j) /\ InPeriod(j)' = InPeriod(j)
    BY SameLogs
  <2> QED
    BY <1>2, <2>1, SameSettled DEF FirstTimesLeast
<1> QED
  BY <1>5, <1>6, <1>7

LEMMA HopRules ==
  ASSUME ClaimInv, ClaimInv', RulesInv, VerifyHop
  PROVE  RulesInv'
<1>1. /\ verdict = "pending" /\ claim.kind = "closed-loop" /\ phase = "returns"
      /\ UNCHANGED <<fundings, settlements, returns>>
  BY DEF VerifyHop, Verifying
<1>2. SumsMatch /\ UsedMatches /\ FirstTimesLeast /\ LoopSoFar /\ LoopPhase
  BY <1>1, LoopState
<1>3. PICK i \in Keys :
        /\ path' = Append(path, i)
        /\ \/ HopCounts(i) /\ CountHop(i) /\ UNCHANGED <<history, claim, phase, verdict>>
           \/ ~HopCounts(i) /\ Reject
  BY DEF VerifyHop, Take
<1>4. /\ UNCHANGED <<history, claim, phase>> /\ IsHistory(history) /\ path \in Seq(Keys)
      /\ returns \in Seq(Seq(Keys))
  BY <1>3 DEF Reject, ClaimInv, TypeOK
<1>5. path' # <<>> /\ Entries(path)' = Entries(path) \cup {i} /\ Len(returns) \in Nat
  <2>1. Append(path, i) # <<>> /\ Entries(Append(path, i)) = Entries(path) \cup {i}
    BY <1>4, Appended
  <2> QED
    BY <1>3, <1>4, <2>1 DEF Entries
<1>6. LoopReturnsListed'
        <=> /\ Path(path) /\ Len(path) < MaxHops
            /\ UsdcTransfer(i) /\ Log(i).from # Log(i).to /\ GoesOn(path, i)
            /\ \A p \in Entries(returns) : ReturnPath(p)
            /\ Len(returns) < MaxReturns
  <2>1. Path(path)' <=> Path(Append(path, i))
    BY <1>1, <1>3, <1>4, PathNow
  <2>2. (\A p \in Entries(returns) : ReturnPath(p))' <=> \A p \in Entries(returns) : ReturnPath(p)
    <3>1. \A p : ReturnPath(p)' = ReturnPath(p)
      BY <1>1, <1>4, ReturnsFrame
    <3> QED
      BY <1>1, <3>1 DEF Entries
  <2>3. (Len(returns) + (IF path = <<>> THEN 0 ELSE 1) <= MaxReturns)' <=> Len(returns) < MaxReturns
    BY <1>1, <1>5, EvidenceAssumption
  <2> QED
    BY <1>4, <2>1, <2>2, <2>3, PathLonger DEF LoopReturnsListed
<1>7. CASE HopCounts(i) /\ CountHop(i) /\ UNCHANGED <<history, claim, phase, verdict>>
  <2>1. SumsMatch' /\ UsedMatches' /\ FirstTimesLeast'
    BY <1>1, <1>2, <1>3, <1>7, HopMatches
  <2>2. FundingsSplit'
    BY <1>1, <1>7, SplitStays DEF RulesInv
  <2>3. LoopReturnsListed' /\ claim.seller # claim.funder
    <3>1. /\ UsdcTransfer(i) /\ Log(i).from # Log(i).to /\ Len(path) < MaxHops
          /\ claim.seller # claim.funder /\ Continues(i)
      BY <1>7 DEF HopCounts, SelfFunded
    <3>2. GoesOn(path, i) /\ (path = <<>> => Len(returns) < MaxReturns)
      BY <1>1, <1>2, <3>1, ContinuesPath
    <3>3. path # <<>> => Len(returns) < MaxReturns
      BY <1>2, <1>5, EvidenceAssumption DEF LoopSoFar, LoopReturnsListed
    <3> QED
      BY <1>2, <1>6, <3>1, <3>2, <3>3 DEF LoopSoFar, LoopReturnsListed
  <2>4. LoopSoFar'
    <3>1. LoopFundingsListed' /\ LoopSettlementsListed'
      BY <1>1, <1>2, <1>4, ReturnsFrame DEF LoopSoFar
    <3> QED
      BY <1>4, <2>3, <3>1 DEF LoopSoFar
  <2>5. LoopPhase'
    <3>1. /\ LoopClaimRule' = LoopClaimRule /\ LoopLedgerRule' = LoopLedgerRule
          /\ (\A b \in claim.buyers : FundingsOf(b) # {})'
               = (\A b \in claim.buyers : FundingsOf(b) # {})
          /\ FundedInAll' = FundedInAll /\ SettledInAll' = SettledInAll
      BY <1>1, <1>4, ReturnsFrame
    <3> QED
      BY <1>1, <1>2, <1>4, <3>1 DEF LoopPhase
  <2>6. RulesSoFar'
    BY <1>1, <1>7, <2>1, <2>4, <2>5 DEF RulesSoFar
  <2> QED
    BY <1>1, <1>7, <2>2, <2>6, NotRejected
<1>8. CASE ~HopCounts(i) /\ Reject
  <2> SUFFICES ASSUME LoopReturnsRule' PROVE HopCounts(i)
    BY <1>1, <1>8, LoopRejects
  <2>1. LoopReturnsListed' /\ EvidenceDistinct' /\ claim.seller # claim.funder
    BY <1>4, <1>5 DEF LoopReturnsRule
  <2>2. i \notin used
    <3>1. PICK n : n = Len(path) + 1
      OBVIOUS
    <3>2. /\ DOMAIN path' = DOMAIN path \cup {n} /\ path'[n] = i
          /\ \A k \in DOMAIN path : path'[k] = path[k] /\ k # n
      BY <1>3, <1>4, <3>1, Appended
    <3>3. i \notin Entries(path)
      <4>1. \A k, l \in DOMAIN path' : path'[k] = path'[l] => k = l
        BY <2>1 DEF EvidenceDistinct, PathsDistinct, Distinct
      <4> QED
        BY <3>2, <4>1 DEF Entries
    <3>4. i \notin FundingLogs \cup Entries(settlements) \cup ReturnLogs
      <4>1. /\ FundingLogs' = FundingLogs /\ Entries(settlements)' = Entries(settlements)
            /\ ReturnLogs' = ReturnLogs
        BY <1>1, <1>4, SameFunded, SameSettled, SameReturned
      <4> QED
        BY <1>5, <2>1, <4>1 DEF EvidenceDistinct, RolesDistinct
    <3> QED
      BY <1>2, <3>3, <3>4 DEF UsedMatches
  <2>3. /\ UsdcTransfer(i) /\ Log(i).from # Log(i).to /\ Len(path) < MaxHops
        /\ GoesOn(path, i) /\ Len(returns) < MaxReturns
    BY <1>6, <2>1
  <2>4. Continues(i)
    BY <1>1, <1>2, <2>3, ContinuesPath
  <2> QED
    BY <2>1, <2>2, <2>3, <2>4 DEF HopCounts, SelfFunded
<1> QED
  BY <1>3, <1>7, <1>8

\* The bottleneck of a path is an amount.
LEMMA BottleneckType ==
  ASSUME IsHistory(history), NEW p \in Seq(Keys), p # <<>>
  PROVE  Bottleneck(p) \in Nat
<1>1. PICK T : T = {Log(j).amount : j \in Entries(p)}
  OBVIOUS
<1>2. T \in SUBSET Nat /\ T # {}
  <2>1. Entries(p) \in SUBSET Keys /\ p[1] \in Entries(p)
    BY DEF Entries
  <2>2. \A j \in Keys : Log(j).amount \in Nat
    BY LogTypes, EvidenceAssumption DEF Logs
  <2> QED
    BY <1>1, <2>1, <2>2
<1> QED
  BY <1>1, <1>2, MinOf DEF Bottleneck

\* A path that ended, listed with the returns.
LEMMA PathMatches ==
  ASSUME ClaimInv, SumsMatch, UsedMatches, FirstTimesLeast, path # <<>>,
         \A p \in Entries(returns) : p # <<>>,
         returns' = Append(returns, path), path' = <<>>, CountPath,
         UNCHANGED <<history, claim, fundings, settlements>>
  PROVE  SumsMatch' /\ UsedMatches' /\ FirstTimesLeast'
<1>1. IsHistory(history) /\ path \in Seq(Keys) /\ returns \in Seq(Seq(Keys))
  BY DEF ClaimInv, TypeOK
<1>2. /\ returned' = returned + credit /\ credit' = AmountMax
      /\ UNCHANGED <<used, fundedBy, fundTotal, firstFunded, settledBy, settledTotal, firstSettled>>
  BY DEF CountPath, fundingSums, settlementSums
<1>3. SumsMatch'
  <2>1. \A p \in Entries(returns) \cup {path} : Bottleneck(p) \in Nat
    <3>1. \A p \in Entries(returns) \cup {path} : p \in Seq(Keys) /\ p # <<>>
      BY <1>1 DEF Entries
    <3> QED
      BY <1>1, <3>1, BottleneckType
  <2>2. ReturnedInAll' = ReturnedInAll + Bottleneck(path)
    BY <1>1, <2>1, ReturnAdded
  <2>3. returned' = ReturnedInAll'
    BY <1>2, <2>2 DEF SumsMatch
  <2>4. /\ \A a \in Addresses : fundedBy'[a] = Funded(a)' /\ settledBy'[a] = Settled(a)'
        /\ fundTotal' = FundedInAll' /\ settledTotal' = SettledInAll'
    BY <1>2, SameFunded, SameSettled DEF SumsMatch
  <2> QED
    BY <1>2, <2>3, <2>4 DEF SumsMatch
<1>4. UsedMatches'
  <2>1. /\ FundingLogs' = FundingLogs /\ Entries(settlements)' = Entries(settlements)
    BY SameFunded, SameSettled
  <2>2. ReturnLogs' = ReturnLogs \cup Entries(path) /\ Entries(path)' = {}
    <3>1. PICK n : n = Len(returns) + 1
      OBVIOUS
    <3>2. /\ DOMAIN returns' = DOMAIN returns \cup {n} /\ returns'[n] = path
          /\ \A k \in DOMAIN returns : returns'[k] = returns[k]
      BY <1>1, <3>1, Appended
    <3> QED
      BY <3>2 DEF ReturnLogs, Entries
  <2> QED
    BY <1>2, <2>1, <2>2 DEF UsedMatches
<1>5. FirstTimesLeast'
  <2>1. \A j : Time(j)' = Time(j) /\ InPeriod(j)' = InPeriod(j)
    BY SameLogs
  <2> QED
    BY <1>2, <2>1, SameSettled DEF FirstTimesLeast
<1> QED
  BY <1>3, <1>4, <1>5

LEMMA PathRules ==
  ASSUME ClaimInv, ClaimInv', RulesInv, PathEnds
  PROVE  RulesInv'
<1>1. /\ verdict = "pending" /\ claim.kind = "closed-loop" /\ phase = "returns"
      /\ returns' = Append(returns, path) /\ path' = <<>> /\ UNCHANGED <<fundings, settlements>>
  BY DEF PathEnds, Verifying
<1>2. SumsMatch /\ UsedMatches /\ FirstTimesLeast /\ LoopSoFar /\ LoopPhase
  BY <1>1, LoopState
<1>3. PICK ok : ok = (/\ path # <<>> /\ Log(path[Len(path)]).to = claim.funder
                      /\ Fits(returned + credit))
  OBVIOUS
<1>4. \/ ok /\ CountPath /\ UNCHANGED <<history, claim, phase, verdict>>
      \/ ~ok /\ Reject
  BY <1>3 DEF PathEnds, Take
<1>5. /\ UNCHANGED <<history, claim, phase>> /\ IsHistory(history) /\ path \in Seq(Keys)
      /\ returns \in Seq(Seq(Keys)) /\ Len(returns) \in Nat /\ MaxReturns \in Nat
  BY <1>4, EvidenceAssumption DEF Reject, ClaimInv, TypeOK
<1>6. /\ Entries(returns)' = Entries(returns) \cup {path} /\ Len(returns') = Len(returns) + 1
      /\ returns' # <<>>
  <2>1. PICK q : q = Append(returns, path)
    OBVIOUS
  <2>2. Entries(q) = Entries(returns) \cup {path}
    BY <1>5, <2>1, Appended
  <2>3. Len(q) = Len(returns) + 1 /\ q # <<>>
    <3>1. PICK paths : paths = Seq(Keys)
      OBVIOUS
    <3>2. returns \in Seq(paths) /\ path \in paths /\ q = Append(returns, path)
      BY <1>5, <2>1, <3>1
    <3> QED
      BY <3>2
  <2>4. returns' = q
    BY <1>1, <2>1
  <2>5. Entries(returns)' = Entries(q)
    BY <2>4 DEF Entries
  <2> QED
    BY <2>2, <2>3, <2>4, <2>5
<1>7. \A p \in Entries(returns) : p \in Seq(Keys) /\ p # <<>> /\ ReturnPath(p)
  <2>1. \A p \in Entries(returns) : p \in Seq(Keys)
    BY <1>5 DEF Entries
  <2> QED
    BY <1>2, <2>1 DEF LoopSoFar, LoopReturnsListed, ReturnPath
<1>8. \A p : ReturnPath(p)' = ReturnPath(p)
  BY <1>1, <1>5, ReturnsFrame
<1>9. CASE ok /\ CountPath /\ UNCHANGED <<history, claim, phase, verdict>>
  <2>1. SumsMatch' /\ UsedMatches' /\ FirstTimesLeast'
    BY <1>1, <1>2, <1>3, <1>7, <1>9, PathMatches
  <2>2. FundingsSplit'
    BY <1>1, <1>9, SplitStays DEF RulesInv
  <2>3. claim.seller # claim.funder /\ ReturnPath(path) /\ Len(returns) + 1 <= MaxReturns
    BY <1>2, <1>3, <1>9 DEF LoopSoFar, LoopReturnsListed, ReturnPath
  <2>4. LoopReturnsListed'
    <3>1. (\A p \in Entries(returns) : ReturnPath(p))'
      BY <1>6, <1>7, <1>8, <2>3
    <3>2. Path(path)'
      BY <1>1, EvidenceAssumption DEF Path, Entries
    <3>3. (Len(returns) + (IF path = <<>> THEN 0 ELSE 1) <= MaxReturns)'
      BY <1>1, <1>5, <1>6, <2>3
    <3> QED
      BY <3>1, <3>2, <3>3 DEF LoopReturnsListed
  <2>5. LoopSoFar'
    <3>1. LoopFundingsListed' /\ LoopSettlementsListed'
      BY <1>1, <1>2, <1>5, ReturnsFrame DEF LoopSoFar
    <3> QED
      BY <1>5, <2>3, <2>4, <3>1 DEF LoopSoFar
  <2>6. LoopPhase'
    <3>1. /\ LoopClaimRule' = LoopClaimRule /\ LoopLedgerRule' = LoopLedgerRule
          /\ (\A b \in claim.buyers : FundingsOf(b) # {})'
               = (\A b \in claim.buyers : FundingsOf(b) # {})
          /\ FundedInAll' = FundedInAll /\ SettledInAll' = SettledInAll
      BY <1>1, <1>5, ReturnsFrame
    <3> QED
      BY <1>1, <1>2, <1>5, <3>1 DEF LoopPhase
  <2>7. RulesSoFar'
    BY <1>1, <1>9, <2>1, <2>5, <2>6 DEF RulesSoFar
  <2> QED
    BY <1>1, <1>9, <2>2, <2>7, NotRejected
<1>10. CASE ~ok /\ Reject
  <2> SUFFICES ASSUME LoopReturnsRule' PROVE ok
    BY <1>1, <1>10, LoopRejects
  <2>1. LoopReturnsListed' /\ Fits(ReturnedInAll)'
    BY <1>6 DEF LoopReturnsRule
  <2>2. ReturnPath(path)
    <3>1. \A p \in Entries(returns)' : ReturnPath(p)'
      BY <2>1 DEF LoopReturnsListed
    <3> QED
      BY <1>6, <1>8, <3>1
  <2>3. path # <<>> /\ Log(path[Len(path)]).to = claim.funder
    BY <2>2 DEF ReturnPath
  <2>4. ReturnedInAll' = ReturnedInAll + Bottleneck(path)
    <3>1. \A p \in Entries(returns) \cup {path} : Bottleneck(p) \in Nat
      BY <1>5, <1>7, <2>3, BottleneckType
    <3> QED
      BY <1>1, <1>5, <3>1, ReturnAdded
  <2>5. Fits(returned + credit)
    BY <1>2, <2>1, <2>3, <2>4 DEF SumsMatch, Fits
  <2> QED
    BY <1>3, <2>3, <2>5
<1> QED
  BY <1>4, <1>9, <1>10

-----------------------------------------------------------------------------
LEMMA RulesStep == ClaimInv /\ RulesInv /\ [Next]_vars => RulesInv'
<1> SUFFICES ASSUME ClaimInv, RulesInv, [Next]_vars PROVE RulesInv'
  OBVIOUS
<1>1. ClaimInv'
  BY InvStep
<1>2. CASE LoopNext
  BY <1>1, <1>2, LoopHeaderRules, FundingRules, FundingsEndRules, SettlementRules,
     SettlementsEndRules, LedgersRules, HopRules, PathRules, ReturnsEndRules DEF LoopNext
<1>3. CASE PairNext
  BY <1>1, <1>3, PairHeaderRules, PairSettlementRules, PairSettlementsEndRules,
     PairDepositRules, PairLedgerRules DEF PairNext
<1>4. CASE VerifySeller
  BY <1>1, <1>4, SellerRules
<1>5. CASE UNCHANGED vars
  BY <1>5, RulesStutter
<1> QED
  BY <1>2, <1>3, <1>4, <1>5 DEF Next, Done

\* The running state of a verification is a function of the evidence listed so far, and
\* that evidence keeps to the rules of the claim.
THEOREM RulesInvariant == Spec => []RulesInv
<1>1. Init => ClaimInv /\ RulesInv
  BY InvInit, RulesInit
<1>2. ClaimInv /\ RulesInv /\ [Next]_vars => ClaimInv' /\ RulesInv'
  BY InvStep, RulesStep
<1> QED
  BY <1>1, <1>2, PTL DEF Spec

\* The verification of a closed loop decides exactly the rule over its lists.
THEOREM LoopRule == Spec => []LoopMatchesRule
BY RulesInvariant, PTL DEF RulesInv

\* The verification of a reciprocal claim decides exactly the rule over its lists.
THEOREM PairRule == Spec => []PairMatchesRule
BY RulesInvariant, PTL DEF RulesInv

-----------------------------------------------------------------------------
(* What a verdict says of the accounts of the contracts.                   *)

\* Only a complete verification accepts, and only for one of its subjects.
VerdictInv ==
  /\ history \in Histories
  /\ verdict = "accepted" => phase = "journal" /\ claim.target \in Subjects

LEMMA VerdictStep == VerdictInv /\ [Next]_vars => VerdictInv'
<1> SUFFICES ASSUME VerdictInv, [Next]_vars PROVE VerdictInv'
  OBVIOUS
<1>1. CASE VerifySeller
  BY <1>1 DEF VerifySeller, VerdictInv, Subjects, Pair
<1>2. CASE UNCHANGED vars
  BY <1>2 DEF vars, VerdictInv, Subjects, Pair
<1>3. CASE LoopNext \/ PairNext
  <2>1. UNCHANGED history /\ verdict' # "accepted"
    BY <1>3
       DEF LoopNext, PairNext, LoopHeader, VerifyFunding, FundingsEnd, VerifySettlement,
           SettlementsEnd, VerifyLedgers, VerifyHop, PathEnds, ReturnsEnd, PairHeader,
           VerifyPairSettlement, PairSettlementsEnd, VerifyPairDeposit, VerifyPairLedger,
           Verifying, Check, Take, Reject
  <2> QED
    BY <2>1 DEF VerdictInv
<1> QED
  BY <1>1, <1>2, <1>3 DEF Next, Done

\* What an accepted claim has been checked for.
LEMMA AcceptedLoop ==
  ASSUME ClaimInv, RulesInv, VerdictInv, verdict = "accepted", claim.kind = "closed-loop"
  PROVE  /\ SumsMatch /\ LoopFundingsListed /\ LoopSettlementsListed /\ LoopLedgerRule
         /\ FundingsSplit /\ claim.target = claim.seller
BY DEF RulesInv, RulesSoFar, LoopSoFar, LoopMatchesRule, VerdictInv, Subjects

LEMMA AcceptedPair ==
  ASSUME ClaimInv, RulesInv, VerdictInv, verdict = "accepted", claim.kind = "reciprocal"
  PROVE  /\ SumsMatch /\ PairSettlementsListed /\ PairDepositsListed /\ PairDepositsRule
         /\ FundingsSplit /\ claim.a < claim.b
         /\ claim.target = claim.a \/ claim.target = claim.b
<1>1. PairPhase /\ PairSoFar /\ SumsMatch /\ FundingsSplit
  BY DEF RulesInv, RulesSoFar
<1>2. phase = "journal" /\ claim.target \in Pair
  BY DEF VerdictInv, Subjects
<1> QED
  BY <1>1, <1>2 DEF PairPhase, PairSoFar, Pair

SoldBy(a) == {i \in Keys : Log(i).kind = "settled" /\ Log(i).to = a}

LEMMA CounterOf ==
  ASSUME CountersAddUp, VerdictInv, NEW a \in Addresses
  PROVE  history.volume[a] = AmountOf(SoldBy(a))
<1>1. PICK h \in Histories : h = history
  BY DEF VerdictInv
<1>2. h.volume[a] = SumFunction([i \in {n \in 1 .. Len(h.logs) : h.logs[n].kind = "settled"
                                                              /\ h.logs[n].to = a}
                                 |-> h.logs[i].amount])
  BY DEF CountersAddUp
<1>3. {n \in 1 .. Len(h.logs) : h.logs[n].kind = "settled" /\ h.logs[n].to = a} = SoldBy(a)
  BY <1>1 DEF SoldBy, Keys, Log
<1> QED
  BY <1>1, <1>2, <1>3 DEF AmountOf, Log

LEMMA WithinTotal ==
  ASSUME CountersAddUp, ClaimInv, RulesInv, VerdictInv
  PROVE  ProvenWithinTotal
<1> SUFFICES ASSUME verdict = "accepted"
             PROVE  WashVolume(claim.target) <= history.volume[claim.target]
  BY DEF ProvenWithinTotal
<1>1. IsHistory(history) /\ settlements \in Seq(Keys)
  BY DEF ClaimInv, TypeOK
<1>2. Entries(settlements) \in SUBSET Keys
  BY <1>1 DEF Entries
<1>3. \A a : SoldBy(a) \in SUBSET Keys
  BY DEF SoldBy
<1>4. CASE claim.kind = "closed-loop"
  <2>1. /\ SumsMatch /\ LoopSettlementsListed /\ claim.target = claim.seller
    BY <1>4, AcceptedLoop
  <2>2. claim.seller \in Addresses
    BY <1>4, LoopMembers
  <2>3. Entries(settlements) \in SUBSET SoldBy(claim.seller)
    BY <1>2, <2>1 DEF LoopSettlementsListed, SoldBy, ChannelSettled
  <2>4. AmountOf(Entries(settlements)) <= AmountOf(SoldBy(claim.seller))
    BY <1>1, <1>3, <2>3, AmountPart
  <2>5. WashVolume(claim.target) = AmountOf(Entries(settlements))
    BY <1>4, <2>1 DEF WashVolume, SumsMatch, SettledInAll
  <2> QED
    BY <2>1, <2>2, <2>4, <2>5, CounterOf
<1>5. CASE claim.kind = "reciprocal"
  <2>1. /\ SumsMatch /\ PairSettlementsListed /\ claim.a < claim.b
        /\ claim.target = claim.a \/ claim.target = claim.b
    BY <1>5, AcceptedPair
  <2>2. claim.a \in Addresses /\ claim.b \in Addresses /\ claim.a # claim.b
    BY <1>5, <2>1, PairMembers
  <2>3. WashVolume(claim.target) = Sold(claim.target)
    BY <1>5, <2>1, <2>2, PairSells DEF WashVolume
  <2>4. {i \in Entries(settlements) : Log(i).to = claim.target} \in SUBSET SoldBy(claim.target)
    BY <1>2, <2>1 DEF PairSettlementsListed, SoldBy, ChannelSettled
  <2>5. Sold(claim.target) <= AmountOf(SoldBy(claim.target))
    BY <1>1, <1>3, <2>4, AmountPart DEF Sold
  <2> QED
    BY <2>1, <2>2, <2>3, <2>5, CounterOf
<1> QED
  BY <1>4, <1>5 DEF ClaimInv, TypeOK, IsClaim, LoopClaims, PairClaims

LEMMA OpeningType ==
  ASSUME VerdictInv, NEW S \in SUBSET Addresses
  PROVE  Opening(S) \in Nat
<1>1. PICK g : g = [a \in S |-> history.opening[a]]
  OBVIOUS
<1>2. history.opening \in [Addresses -> Nat]
  BY OpeningAssumption DEF VerdictInv
<1>3. g \in [S -> Nat] /\ IsFiniteSet(S)
  BY <1>1, <1>2, AddressesFinite, FS_Subset
<1> QED
  BY <1>1, <1>3, SumType DEF Opening

\* Deposits that payers made in the period are not outside capital: with it they are at
\* most what came in, and what came in was settled, is left or went elsewhere.
LEMMA Financing ==
  ASSUME IsHistory(history), VerdictInv, settlements \in Seq(Keys),
         NEW S \in SUBSET Addresses, Ending(S) \in Nat, NEW payers,
         NEW dep \in SUBSET DepositLogs(S),
         \A j \in dep : InPeriod(j) /\ \E i \in Keys : Pays(i, j) /\ Log(i).from \in payers
  PROVE  /\ OutsideCapital(S, payers) \in Nat /\ OtherUses(S) \in Int
         /\ AmountOf(dep) \in Nat /\ AmountOf(Purchases(S) \cap Entries(settlements)) \in Nat
         /\ OutsideCapital(S, payers) + AmountOf(dep)
              <= OtherUses(S) + AmountOf(Purchases(S) \cap Entries(settlements)) + Ending(S)
<1>1. PICK out : out = {j \in DepositLogs(S) :
                          ~InPeriod(j) \/ ~\E i \in Keys : Pays(i, j) /\ Log(i).from \in payers}
  OBVIOUS
<1>2. PICK all : all = DepositLogs(S)
  OBVIOUS
<1>3. PICK sold : sold = Purchases(S) \cap Entries(settlements)
  OBVIOUS
<1>4. PICK rest : rest = Purchases(S) \ Entries(settlements)
  OBVIOUS
<1>5. /\ all \in SUBSET Keys /\ out \in SUBSET Keys /\ dep \in SUBSET Keys
      /\ sold \in SUBSET Keys /\ rest \in SUBSET Keys
      /\ out \cap dep = {} /\ out \cup dep \in SUBSET all
      /\ sold \cap rest = {} /\ sold \cup rest = Purchases(S)
  BY <1>1, <1>2, <1>3, <1>4 DEF DepositLogs, Purchases
<1>6. /\ AmountOf(all) \in Nat /\ AmountOf(out) \in Nat /\ AmountOf(dep) \in Nat
      /\ AmountOf(sold) \in Nat /\ AmountOf(rest) \in Nat
  BY <1>5, AmountType
<1>7. AmountOf(out) + AmountOf(dep) <= AmountOf(all)
  <2>1. AmountOf(out \cup dep) = AmountOf(out) + AmountOf(dep)
    BY <1>5, AmountUnion
  <2>2. AmountOf(out \cup dep) <= AmountOf(all)
    BY <1>5, AmountPart
  <2> QED
    BY <2>1, <2>2
<1>8. AmountOf(Purchases(S)) = AmountOf(sold) + AmountOf(rest)
  BY <1>5, AmountUnion
<1>9. Opening(S) \in Nat
  BY OpeningType
<1>10. OutsideCapital(S, payers) = Opening(S) + AmountOf(out)
  BY <1>1 DEF OutsideCapital
<1>11. OtherUses(S)
         = AmountOf(rest)
           + (Opening(S) + AmountOf(all) - (AmountOf(sold) + AmountOf(rest)) - Ending(S))
  BY <1>2, <1>4, <1>8 DEF OtherUses, Withdrawn
<1>12. PICK o, a, d, s, r, opening, ending \in Nat :
         /\ o = AmountOf(out) /\ a = AmountOf(all) /\ d = AmountOf(dep) /\ s = AmountOf(sold)
         /\ r = AmountOf(rest) /\ opening = Opening(S) /\ ending = Ending(S)
  BY <1>6, <1>9
<1>13. o + d <= a
  BY <1>7, <1>12
<1>14. PICK uses \in Int : uses = r + (opening + a - (s + r) - ending)
  OBVIOUS
<1>15. (opening + o) + d <= uses + s + ending
  BY <1>13, <1>14
<1>16. OutsideCapital(S, payers) = opening + o /\ OtherUses(S) = uses
  BY <1>10, <1>11, <1>12, <1>14
<1>17. opening + o \in Nat
  OBVIOUS
<1> QED
  BY <1>3, <1>12, <1>15, <1>16, <1>17

\* The deposits of fundings that payers made are deposits they made in the period.
LEMMA DepositsPaid ==
  ASSUME ClaimInv, NEW K \in SUBSET DOMAIN fundings, NEW payers, NEW S, NEW d,
         \A k \in K : PaidBy(fundings[k], payers, d) /\ fundings[k].buyer \in S
  PROVE  /\ DepositsOf(K) \in SUBSET DepositLogs(S)
         /\ \A j \in DepositsOf(K) :
              InPeriod(j) /\ \E i \in Keys : Pays(i, j) /\ Log(i).from \in payers
<1>1. fundings \in Seq(Fundings)
  BY DEF ClaimInv, TypeOK
<1>2. \A k \in DOMAIN fundings : fundings[k] \in Fundings
  BY <1>1
<1>3. ASSUME NEW j \in DepositsOf(K)
      PROVE  /\ j \in DepositLogs(S) /\ InPeriod(j)
             /\ \E i \in Keys : Pays(i, j) /\ Log(i).from \in payers
  <2>1. PICK k \in K : j = fundings[k].deposited /\ j # 0
    BY DEF DepositsOf
  <2>2. PICK i : i = fundings[k].transfer
    OBVIOUS
  <2>3. i \in Keys /\ j \in Keys
    BY <1>2, <2>1, <2>2 DEF Fundings
  <2>4. ProtocolDeposit(i, j, fundings[k].buyer) /\ Log(i).from \in payers
    BY <2>1, <2>2 DEF PaidBy, Direct
  <2> QED
    BY <2>1, <2>3, <2>4 DEF ProtocolDeposit, UsdcTransfer, InPeriod, DepositLogs, Pays
<1> QED
  BY <1>3

LEMMA PairFinanced ==
  ASSUME ClaimInv, RulesInv, VerdictInv
  PROVE  PairFinancedItself
<1> SUFFICES ASSUME verdict = "accepted", claim.kind = "reciprocal"
             PROVE  OutsideCapital(Pair, Pair) * 10000
                      <= settledTotal * 1000 + OtherUses(Pair) * 10000
  BY DEF PairFinancedItself
<1>1. /\ SumsMatch /\ PairSettlementsListed /\ PairDepositsListed /\ PairDepositsRule
      /\ FundingsSplit /\ claim.a < claim.b
  BY AcceptedPair
<1>2. IsHistory(history) /\ settlements \in Seq(Keys) /\ settledTotal \in Nat
  BY EvidenceAssumption DEF ClaimInv, TypeOK
<1>3. Pair \in SUBSET Addresses /\ Ending(Pair) \in Nat
  <2>1. claim.a \in Addresses /\ claim.b \in Addresses /\ claim.a # claim.b
    BY <1>1, PairMembers
  <2>2. Ending(Pair) = history.end[claim.a] + history.end[claim.b]
    BY <1>2, <2>1, EndingOfPair DEF Pair
  <2>3. history.end[claim.a] \in Nat /\ history.end[claim.b] \in Nat
    BY <1>2, <2>1 DEF IsHistory
  <2> QED
    BY <2>1, <2>2, <2>3 DEF Pair
<1>4. /\ DepositsOf(DOMAIN fundings) \in SUBSET DepositLogs(Pair)
      /\ \A j \in DepositsOf(DOMAIN fundings) :
           InPeriod(j) /\ \E i \in Keys : Pays(i, j) /\ Log(i).from \in Pair
  BY <1>1, DepositsPaid DEF PairDepositsListed
<1>5. Purchases(Pair) \cap Entries(settlements) = Entries(settlements)
  <2>1. Entries(settlements) \in SUBSET Keys
    BY <1>2 DEF Entries
  <2> QED
    BY <1>1, <2>1 DEF PairSettlementsListed, ChannelSettled, Purchases
<1>6. PICK dep : dep = DepositsOf(DOMAIN fundings)
  OBVIOUS
<1>7. /\ OutsideCapital(Pair, Pair) \in Nat /\ OtherUses(Pair) \in Int
      /\ AmountOf(dep) \in Nat
      /\ OutsideCapital(Pair, Pair) + AmountOf(dep)
           <= OtherUses(Pair) + AmountOf(Entries(settlements)) + Ending(Pair)
  BY <1>2, <1>3, <1>4, <1>5, <1>6, Financing
<1>8. FundedInAll = AmountOf(dep) /\ AmountOf(Entries(settlements)) = settledTotal
      /\ SettledInAll = settledTotal
  BY <1>1, <1>6 DEF FundingsSplit, SumsMatch, SettledInAll
<1>9. (Ending(Pair) + settledTotal) * 10000 <= AmountOf(dep) * 10000 + settledTotal * 1000
  BY <1>1, <1>8 DEF PairDepositsRule
<1>10. PICK o, d, s, ending \in Nat, u \in Int :
         /\ o = OutsideCapital(Pair, Pair) /\ d = AmountOf(dep) /\ s = settledTotal
         /\ ending = Ending(Pair) /\ u = OtherUses(Pair)
  BY <1>2, <1>3, <1>7
<1>11. o + d <= u + s + ending /\ (ending + s) * 10000 <= d * 10000 + s * 1000
  BY <1>7, <1>8, <1>9, <1>10
<1>12. o * 10000 <= s * 1000 + u * 10000
  BY <1>11
<1> QED
  BY <1>10, <1>12

LEMMA LoopFinanced ==
  ASSUME ClaimInv, RulesInv, VerdictInv
  PROVE  LoopFinancedByFunder
<1> SUFFICES ASSUME verdict = "accepted", claim.kind = "closed-loop", NEW b \in claim.buyers
             PROVE  OutsideCapital({b}, {claim.funder}) * 10000
                      <= (DirectlyFunded(b) + OtherUses({b})) * 10000
                         + Funded(b) * EpsilonLedgerBps
  BY DEF LoopFinancedByFunder
<1>1. /\ SumsMatch /\ LoopFundingsListed /\ LoopSettlementsListed /\ LoopLedgerRule
      /\ FundingsSplit
  BY AcceptedLoop
<1>2. /\ IsHistory(history) /\ settlements \in Seq(Keys) /\ fundings \in Seq(Fundings)
      /\ b \in Addresses
  BY LoopMembers DEF ClaimInv, TypeOK
<1>3. Ending({b}) = history.end[b] /\ history.end[b] \in Nat
  BY <1>2, EndingOfOne DEF IsHistory
<1>4. FundingsOf(b) \in SUBSET DOMAIN fundings
  BY DEF FundingsOf
<1>5. PICK dep : dep = DepositsOf(FundingsOf(b))
  OBVIOUS
<1>6. /\ dep \in SUBSET DepositLogs({b})
      /\ \A j \in dep :
           InPeriod(j) /\ \E i \in Keys : Pays(i, j) /\ Log(i).from \in {claim.funder}
  <2>1. \A k \in FundingsOf(b) :
          PaidBy(fundings[k], {claim.funder}, TRUE) /\ fundings[k].buyer \in {b}
    BY <1>1 DEF LoopFundingsListed, FundingsOf
  <2> QED
    BY <1>4, <1>5, <2>1, DepositsPaid
<1>7. AmountOf(Purchases({b}) \cap Entries(settlements)) = Settled(b)
  <2>1. Entries(settlements) \in SUBSET Keys
    BY <1>2 DEF Entries
  <2>2. Purchases({b}) \cap Entries(settlements) = {i \in Entries(settlements) : Log(i).from = b}
    BY <1>1, <2>1 DEF LoopSettlementsListed, ChannelSettled, Purchases
  <2> QED
    BY <2>2 DEF Settled
<1>8. /\ OutsideCapital({b}, {claim.funder}) \in Nat /\ OtherUses({b}) \in Int
      /\ AmountOf(dep) \in Nat /\ Settled(b) \in Nat
      /\ OutsideCapital({b}, {claim.funder}) + AmountOf(dep)
           <= OtherUses({b}) + Settled(b) + history.end[b]
  <2>1. {b} \in SUBSET Addresses
    BY <1>2
  <2> QED
    BY <1>2, <1>3, <1>6, <1>7, <2>1, Financing
<1>9. DirectlyFunded(b) \in Nat /\ Funded(b) = DirectlyFunded(b) + AmountOf(dep)
  <2>1. TransfersOf({k \in FundingsOf(b) : Direct(fundings[k])}) \in SUBSET Keys
    BY <1>2, <1>4, TransfersAreLogs
  <2>2. DirectlyFunded(b) \in Nat
    BY <1>2, <2>1, AmountType DEF DirectlyFunded
  <2> QED
    BY <1>1, <1>2, <1>5, <2>2 DEF FundingsSplit
<1>10. (history.end[b] + Settled(b)) * 10000 <= Funded(b) * 10500
  BY <1>1 DEF LoopLedgerRule
<1>11. EpsilonLedgerBps = 500
  BY DEF EpsilonLedgerBps
<1> QED
  BY <1>3, <1>8, <1>9, <1>10, <1>11

LEMMA VerdictInvariant == Spec => [](ClaimInv /\ RulesInv /\ VerdictInv)
<1>1. Init => VerdictInv
  BY DEF Init, VerdictInv
<1> QED
  BY <1>1, VerdictStep, ClaimInvariant, RulesInvariant, PTL DEF Spec

\* What an accepted claim proves of a seller is within the total of its counter, if the
\* counters of the histories add up the settlements.
THEOREM WithinCounter == ASSUME CountersAddUp PROVE Spec => []ProvenWithinTotal
<1>1. ClaimInv /\ RulesInv /\ VerdictInv => ProvenWithinTotal
  BY WithinTotal
<1> QED
  BY <1>1, VerdictInvariant, PTL

\* An accepted pair financed at least nine tenths of its sales to itself, counted from
\* the balances, deposits, purchases and withdrawals of the contracts.
THEOREM PairAccounts == Spec => []PairFinancedItself
<1>1. ClaimInv /\ RulesInv /\ VerdictInv => PairFinancedItself
  BY PairFinanced
<1> QED
  BY <1>1, VerdictInvariant, PTL

\* What the funder of an accepted loop did not deposit for a buyer is covered by its
\* transfers to the buyer, the tolerance, and what the buyer spent elsewhere.
THEOREM LoopAccounts == Spec => []LoopFinancedByFunder
<1>1. ClaimInv /\ RulesInv /\ VerdictInv => LoopFinancedByFunder
  BY LoopFinanced
<1> QED
  BY <1>1, VerdictInvariant, PTL

=============================================================================
