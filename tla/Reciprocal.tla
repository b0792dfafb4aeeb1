------------------------------- MODULE Reciprocal -------------------------------
(***************************************************************************)
(* verify_reciprocal (predicate/src/reciprocal.rs): a claim that a and b   *)
(* sold each other about the same volume and paid for it with capital they *)
(* recycled between themselves.  What a sold is what b bought, so          *)
(* sells_a = settledBy[b].                                                 *)
(***************************************************************************)
EXTENDS Evidence

BetaReciprocalBps == 8000
AlphaSelfBps == 9000

Pair == {claim.a, claim.b}

PairHeader ==
  /\ Verifying("reciprocal", "claim")
  /\ Check(Zero \notin Pair /\ claim.a < claim.b, "settlements")

-----------------------------------------------------------------------------
(* Measurement and reciprocity *)

SettlesInPair(i) ==
  /\ i \notin used
  /\ ChannelSettled(i)
  /\ {Log(i).from, Log(i).to} = Pair
  /\ Fits(settledTotal + Log(i).amount)

VerifyPairSettlement ==
  /\ Verifying("reciprocal", "settlements")
  /\ Len(settlements) < MaxSettlements
  /\ \E i \in Keys :
       /\ settlements' = Append(settlements, i)
       /\ Take(SettlesInPair(i), CountSettlement(i))
  /\ UNCHANGED <<fundings, returns, path>>

\* Mutant of Reciprocates: only one direction is compared with the other.
ReciprocatesA == MeetsRatio(settledBy[claim.a], settledBy[claim.b], BetaReciprocalBps)

\* Each side sold at least beta of what the other sold.
Reciprocates ==
  \A x, y \in Pair : MeetsRatio(settledBy[x], settledBy[y], BetaReciprocalBps)

PairSettlementsEnd ==
  /\ Verifying("reciprocal", "settlements")
  /\ Check(settlements # <<>> /\ Reciprocates, "deposits")

-----------------------------------------------------------------------------
(* Pair-internal financing *)

DepositsInPair(f) ==
  /\ f.buyer \in Pair
  /\ ~Direct(f) /\ LogsOf(f) \cap used = {}
  /\ ProtocolDeposit(f.transfer, f.deposited, f.buyer)
  /\ Log(f.transfer).from \in Pair
  /\ Fits(fundTotal + Log(f.transfer).amount)

VerifyPairDeposit ==
  /\ Verifying("reciprocal", "deposits")
  /\ Len(fundings) < MaxFundings
  /\ \E f \in Fundings :
       /\ ~Direct(f)
       /\ fundings' = Append(fundings, f)
       /\ Take(DepositsInPair(f), CountFunding(f))
  /\ UNCHANGED <<settlements, returns, path>>

\* Mutant of VerifyPairLedger: the end balances are left out.
VerifyPairSpending ==
  /\ Verifying("reciprocal", "deposits")
  /\ Check(settledTotal * 10000 <= fundTotal * 10000 + settledTotal * (10000 - AlphaSelfBps),
           "journal")

\* Sum of (balance_end + bought) <= internal deposits + (1 - alpha_self) * total
VerifyPairLedger ==
  /\ Verifying("reciprocal", "deposits")
  /\ Check((history.end[claim.a] + history.end[claim.b] + settledTotal) * 10000
             <= fundTotal * 10000 + settledTotal * (10000 - AlphaSelfBps),
           "journal")

PairNext ==
  \/ PairHeader
  \/ VerifyPairSettlement \/ PairSettlementsEnd
  \/ VerifyPairDeposit \/ VerifyPairLedger

=============================================================================
