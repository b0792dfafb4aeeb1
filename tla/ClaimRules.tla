------------------------------- MODULE ClaimRules -------------------------------
(***************************************************************************)
(* The rules the two predicates enforce, stated over the evidence lists as *)
(* wholes with sums over sets, and the properties that compare the verdict *)
(* of SellerClaim with them and with the accounting of the contracts.      *)
(***************************************************************************)
EXTENDS SellerClaim, FiniteSetsExt

AmountOf(S) == SumFunction([i \in S |-> Log(i).amount])
FundingsOf(b) == {k \in DOMAIN fundings : fundings[k].buyer = b}
TransfersOf(K) == {fundings[k].transfer : k \in K}
Funded(b) == AmountOf(TransfersOf(FundingsOf(b)))
FundedInAll == AmountOf(TransfersOf(DOMAIN fundings))
Settled(b) == AmountOf({i \in Entries(settlements) : Log(i).from = b})
SettledInAll == AmountOf(Entries(settlements))
Ending(S) == SumFunction([a \in S |-> history.end[a]])
Bottleneck(p) == Min({Log(i).amount : i \in Entries(p)})
ReturnedInAll == SumFunction([k \in DOMAIN returns |-> Bottleneck(returns[k])])

PaidBy(f, payers, direct) ==
  /\ Log(f.transfer).from \in payers
  /\ \/ ~Direct(f) /\ ProtocolDeposit(f.transfer, f.deposited, f.buyer)
     \/ direct /\ Direct(f) /\ UsdcTransfer(f.transfer) /\ Log(f.transfer).to = f.buyer

-----------------------------------------------------------------------------
LoopFundingsListed ==
  \A k \in DOMAIN fundings :
    fundings[k].buyer \in claim.buyers /\ PaidBy(fundings[k], {claim.funder}, TRUE)

LoopFundingsRule ==
  /\ EvidenceDistinct /\ LoopFundingsListed
  /\ Fits(FundedInAll)
  /\ \A b \in claim.buyers : FundingsOf(b) # {}

LoopSettlementsListed ==
  \A i \in Entries(settlements) :
    /\ ChannelSettled(i) /\ Log(i).to = claim.seller /\ Log(i).from \in claim.buyers
    /\ \E k \in FundingsOf(Log(i).from) : Time(fundings[k].transfer) < Time(i)

LoopSettlementsRule ==
  /\ EvidenceDistinct /\ LoopSettlementsListed
  /\ settlements # <<>>
  /\ Fits(SettledInAll)
  /\ MeetsRatio(FundedInAll, SettledInAll, AlphaFundBps)

LoopLedgerRule ==
  \A b \in claim.buyers : (history.end[b] + Settled(b)) * 10000 <= Funded(b) * 10500

\* Hop n of p is a later one that forwards enough of what hop n - 1 gave.
Forwards(p, n) ==
  /\ p[n - 1] < p[n] /\ Log(p[n - 1]).to = Log(p[n]).from
  /\ MeetsRatio(Log(p[n]).amount, Log(p[n - 1]).amount, RhoHopBps)
  /\ Time(p[n]) <= Time(p[1]) + PathSeconds

\* p is a path from the seller, whole or the beginning of one.
Path(p) ==
  /\ Len(p) <= MaxHops
  /\ \A i \in Entries(p) : UsdcTransfer(i) /\ Log(i).from # Log(i).to
  /\ p # <<>> =>
       /\ Log(p[1]).from = claim.seller
       /\ \E i \in Entries(settlements) : Time(i) < Time(p[1])
       /\ \A n \in 2 .. Len(p) : Forwards(p, n)

ReturnPath(p) == p # <<>> /\ Path(p) /\ Log(p[Len(p)]).to = claim.funder

LoopReturnsListed ==
  /\ Path(path) /\ \A p \in Entries(returns) : ReturnPath(p)
  /\ Len(returns) + (IF path = <<>> THEN 0 ELSE 1) <= MaxReturns

LoopReturnsRule ==
  IF claim.seller = claim.funder THEN returns = <<>> /\ path = <<>>
  ELSE /\ EvidenceDistinct /\ LoopReturnsListed
       /\ Fits(ReturnedInAll)
       /\ MeetsRatio(ReturnedInAll, SettledInAll, AlphaReturnBps)

LoopClaimRule ==
  /\ claim.seller # Zero /\ claim.funder # Zero /\ Zero \notin claim.buyers
  /\ claim.buyers # {} /\ Cardinality(claim.buyers) <= MaxBuyers
  /\ claim.funder \notin claim.buyers

\* The incremental verification of a closed loop decides exactly the rule over the
\* lists: it never stops at a part that satisfies the rule, and a journal is only
\* made when every part does (closed_loop.rs 38-100).
LoopMatchesRule ==
  claim.kind = "closed-loop" =>
    /\ phase = "journal" =>
         /\ LoopClaimRule /\ LoopFundingsRule /\ LoopSettlementsRule
         /\ LoopLedgerRule /\ LoopReturnsRule
    /\ verdict = "rejected" =>
         CASE phase = "claim" -> ~LoopClaimRule
           [] phase = "fundings" -> ~LoopFundingsRule
           [] phase = "settlements" -> ~LoopSettlementsRule
           [] phase = "ledger" -> ~LoopLedgerRule
           [] phase = "returns" -> ~LoopReturnsRule
           [] OTHER -> TRUE

-----------------------------------------------------------------------------
\* what x sold to the other of the pair
Sold(x) == AmountOf({i \in Entries(settlements) : Log(i).to = x})

PairSales == {Sold(claim.a), Sold(claim.b)}

PairSettlementsListed ==
  \A i \in Entries(settlements) : ChannelSettled(i) /\ {Log(i).from, Log(i).to} = Pair

PairSettlementsRule ==
  /\ EvidenceDistinct /\ PairSettlementsListed
  /\ settlements # <<>>
  /\ Fits(SettledInAll)
  /\ MeetsRatio(Min(PairSales), Max(PairSales), BetaReciprocalBps)

PairDepositsListed ==
  \A k \in DOMAIN fundings : fundings[k].buyer \in Pair /\ PaidBy(fundings[k], Pair, FALSE)

PairDepositsRule ==
  /\ EvidenceDistinct /\ PairDepositsListed
  /\ Fits(FundedInAll)
  /\ (Ending(Pair) + SettledInAll) * 10000 <= FundedInAll * 10000 + SettledInAll * 1000

\* The incremental verification of a reciprocal claim decides exactly the rule over the
\* lists (reciprocal.rs 53-212).
PairMatchesRule ==
  claim.kind = "reciprocal" =>
    /\ phase = "journal" => PairSettlementsRule /\ PairDepositsRule
    /\ verdict = "rejected" =>
         CASE phase = "claim" -> Zero \in Pair \/ claim.a >= claim.b
           [] phase = "settlements" -> ~PairSettlementsRule
           [] phase = "deposits" -> ~PairDepositsRule
           [] OTHER -> TRUE

-----------------------------------------------------------------------------
(* The verdict and the accounting of the contracts.  opening holds the     *)
(* Deposits balances before the first log, which no predicate reads.       *)

ASSUME OpeningAssumption == \A h \in Histories : h.opening \in [Addresses -> Nat]

\* The Channels contract adds up all settlements of a seller.
CountersAddUp ==
  \A h \in Histories : \A a \in Addresses :
    h.volume[a] = SumFunction([i \in {n \in 1 .. Len(h.logs) : h.logs[n].kind = "settled"
                                                              /\ h.logs[n].to = a}
                                 |-> h.logs[i].amount])

DepositLogs(S) == {j \in Keys : Log(j).kind = "deposited" /\ Log(j).to \in S}
Purchases(S) == {i \in Keys : Log(i).kind = "settled" /\ Log(i).from \in S}

\* Transfer i of the same receipt may have paid for the deposit of log j.
Pays(i, j) ==
  /\ Log(i).kind = "transfer" /\ Log(i).to = DepositsAddress /\ Log(i).amount = Log(j).amount
  /\ Log(i).block = Log(j).block /\ Log(i).tx = Log(j).tx /\ i < j

Opening(S) == SumFunction([a \in S |-> history.opening[a]])
Withdrawn(S) == Opening(S) + AmountOf(DepositLogs(S)) - AmountOf(Purchases(S)) - Ending(S)

\* Protocol capital of S that no one of payers put in during the period
OutsideCapital(S, payers) ==
  Opening(S)
  + AmountOf({j \in DepositLogs(S) :
                ~InPeriod(j) \/ ~\E i \in Keys : Pays(i, j) /\ Log(i).from \in payers})

\* What S did with its protocol capital other than to settle for this claim
OtherUses(S) == AmountOf(Purchases(S) \ Entries(settlements)) + Withdrawn(S)

\* A proven volume never exceeds the total of the seller's counter, which the
\* Channels contract adds up over all settlements (seller.rs 186-192).
ProvenWithinTotal == verdict = "accepted" => WashVolume(claim.target) <= history.volume[claim.target]

\* An accepted pair recycled its own capital: the capital others put into its two
\* accounts is at most a tenth of the proven volume plus what the pair spent elsewhere
\* or withdrew (reciprocal.rs 5-8, 162-183).
PairFinancedItself ==
  (verdict = "accepted" /\ claim.kind = "reciprocal") =>
    OutsideCapital(Pair, Pair) * 10000 <= settledTotal * 1000 + OtherUses(Pair) * 10000

DirectlyFunded(b) == AmountOf(TransfersOf({k \in FundingsOf(b) : Direct(fundings[k])}))

\* What an accepted closed loop says of each buyer: its protocol capital that the
\* funder did not deposit is at most what the funder transferred to its wallet, the
\* tolerance, and what the buyer spent elsewhere or withdrew (closed_loop.rs 267-304).
LoopFinancedByFunder ==
  (verdict = "accepted" /\ claim.kind = "closed-loop") =>
    \A b \in claim.buyers :
      OutsideCapital({b}, {claim.funder}) * 10000
        <= (DirectlyFunded(b) + OtherUses({b})) * 10000 + Funded(b) * EpsilonLedgerBps

\* closed_loop.rs 268-271: opening balances receive no credit, so only authenticated
\* in-period funding can finance the selected settlements.
OnlyFundingFinances ==
  (verdict = "accepted" /\ claim.kind = "closed-loop") =>
    \A b \in claim.buyers :
      Opening({b}) * 10000 <= OtherUses({b}) * 10000 + Funded(b) * EpsilonLedgerBps

-----------------------------------------------------------------------------
(* What makes the rules inductive: how much of them the evidence listed so *)
(* far keeps to, and that the running state is a function of it.           *)

SumsMatch ==
  /\ \A a \in Addresses : fundedBy[a] = Funded(a) /\ settledBy[a] = Settled(a)
  /\ fundTotal = FundedInAll /\ settledTotal = SettledInAll
  /\ returned = ReturnedInAll
  /\ credit = IF path = <<>> THEN AmountMax ELSE Bottleneck(path)

UsedMatches == used = FundingLogs \cup Entries(settlements) \cup ReturnLogs \cup Entries(path)

\* The first times are not later than those of the listed evidence.
FirstTimesLeast ==
  /\ \A k \in DOMAIN fundings :
       InPeriod(fundings[k].transfer)
       /\ firstFunded[fundings[k].buyer] <= Time(fundings[k].transfer)
  /\ \A i \in Entries(settlements) : firstSettled <= Time(i)

LoopSoFar ==
  /\ LoopFundingsListed /\ LoopSettlementsListed /\ LoopReturnsListed
  /\ claim.seller = claim.funder => returns = <<>> /\ path = <<>>

LoopPhase ==
  /\ phase \in {"claim", "fundings", "settlements", "ledger", "returns", "journal"}
  /\ phase = "claim" => fundings = <<>>
  /\ phase \in {"claim", "fundings"} => settlements = <<>>
  /\ phase \in {"claim", "fundings", "settlements", "ledger"} => returns = <<>> /\ path = <<>>
  /\ phase # "claim" => LoopClaimRule
  /\ phase \in {"settlements", "ledger", "returns", "journal"} =>
       \A b \in claim.buyers : FundingsOf(b) # {}
  /\ phase \in {"ledger", "returns", "journal"} =>
       settlements # <<>> /\ MeetsRatio(FundedInAll, SettledInAll, AlphaFundBps)
  /\ phase \in {"returns", "journal"} => LoopLedgerRule
  /\ phase = "journal" =>
       /\ path = <<>>
       /\ claim.seller = claim.funder \/ MeetsRatio(ReturnedInAll, SettledInAll, AlphaReturnBps)

PairSoFar ==
  /\ PairSettlementsListed /\ PairDepositsListed
  /\ returns = <<>> /\ path = <<>>

PairPhase ==
  /\ phase \in {"claim", "settlements", "deposits", "journal"}
  /\ phase = "claim" => settlements = <<>>
  /\ phase \in {"claim", "settlements"} => fundings = <<>>
  /\ phase # "claim" => Zero \notin Pair /\ claim.a < claim.b
  /\ phase \in {"deposits", "journal"} => PairSettlementsRule
  /\ phase = "journal" => PairDepositsRule

RulesSoFar ==
  verdict # "rejected" =>
    /\ SumsMatch /\ UsedMatches /\ FirstTimesLeast
    /\ claim.kind = "closed-loop" => LoopSoFar /\ LoopPhase
    /\ claim.kind = "reciprocal" => PairSoFar /\ PairPhase

\* The deposits that the fundings K name.
DepositsOf(K) == {fundings[k].deposited : k \in K} \ {0}

\* What an address was given is what reached its wallet and what was deposited for it.
FundingsSplit ==
  verdict # "rejected" =>
    /\ \A b \in Addresses :
         Funded(b) = DirectlyFunded(b) + AmountOf(DepositsOf(FundingsOf(b)))
    /\ claim.kind = "reciprocal" => FundedInAll = AmountOf(DepositsOf(DOMAIN fundings))

RulesInv == RulesSoFar /\ FundingsSplit /\ LoopMatchesRule /\ PairMatchesRule

=============================================================================
