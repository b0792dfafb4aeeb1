------------------------------- MODULE ClosedLoop -------------------------------
(***************************************************************************)
(* verify_closed_loop (predicate/src/closed_loop.rs): a claim that a funder*)
(* gave buyers the USDC they then settled with a seller, and that value    *)
(* flowed back from the seller to the funder.  One action per element of   *)
(* an evidence list, in the order the code walks the lists.                *)
(***************************************************************************)
EXTENDS Evidence

AlphaFundBps == 9000
AlphaReturnBps == 3000
RhoHopBps == 2800
EpsilonLedgerBps == 500

LoopHeader ==
  /\ Verifying("closed-loop", "claim")
  /\ Check(/\ Zero \notin {claim.seller, claim.funder} \cup claim.buyers
           /\ Cardinality(claim.buyers) \in 1 .. MaxBuyers
           /\ claim.funder \notin claim.buyers,
           "fundings")

-----------------------------------------------------------------------------
(* FUND *)

\* Direct funding is a transfer to the buyer, whoever signed it; a protocol deposit
\* is paid and signed by the funder.
FundsBuyer(f) ==
  /\ f.buyer \in claim.buyers
  /\ LogsOf(f) \cap used = {}
  /\ IF Direct(f) THEN UsdcTransfer(f.transfer) /\ Log(f.transfer).to = f.buyer
                  ELSE ProtocolDeposit(f.transfer, f.deposited, f.buyer)
  /\ Log(f.transfer).from = claim.funder
  /\ Fits(fundTotal + Log(f.transfer).amount)

VerifyFunding ==
  /\ Verifying("closed-loop", "fundings")
  /\ Len(fundings) < MaxFundings
  /\ \E f \in Fundings :
       /\ fundings' = Append(fundings, f)
       /\ Take(FundsBuyer(f), CountFunding(f))
  /\ UNCHANGED <<settlements, returns, path>>

FundingsEnd ==
  /\ Verifying("closed-loop", "fundings")
  /\ Check(\A b \in claim.buyers : firstFunded[b] # Never, "settlements")

-----------------------------------------------------------------------------
(* SETTLE *)

\* Mutant of SettlesWithSeller: a settlement in the block of the funding is late enough.
SettlesAtFunding(i) ==
  /\ i \notin used
  /\ ChannelSettled(i)
  /\ Log(i).to = claim.seller /\ Log(i).from \in claim.buyers
  /\ Time(i) >= firstFunded[Log(i).from]
  /\ Fits(settledTotal + Log(i).amount)

\* Mutant of SettlesWithSeller: a settlement may be listed twice.
SettlesAgain(i) ==
  /\ i \notin used \ Entries(settlements)
  /\ ChannelSettled(i)
  /\ Log(i).to = claim.seller /\ Log(i).from \in claim.buyers
  /\ Time(i) > firstFunded[Log(i).from]
  /\ Fits(settledTotal + Log(i).amount)

\* Mutant of SettlesWithSeller: the sum is not checked for overflow.
SettlesUnchecked(i) ==
  /\ i \notin used
  /\ ChannelSettled(i)
  /\ Log(i).to = claim.seller /\ Log(i).from \in claim.buyers
  /\ Time(i) > firstFunded[Log(i).from]


SettlesWithSeller(i) ==
  /\ i \notin used
  /\ ChannelSettled(i)
  /\ Log(i).to = claim.seller /\ Log(i).from \in claim.buyers
  /\ Time(i) > firstFunded[Log(i).from]
  /\ Fits(settledTotal + Log(i).amount)

VerifySettlement ==
  /\ Verifying("closed-loop", "settlements")
  /\ Len(settlements) < MaxSettlements
  /\ \E i \in Keys :
       /\ settlements' = Append(settlements, i)
       /\ Take(SettlesWithSeller(i), CountSettlement(i))
  /\ UNCHANGED <<fundings, returns, path>>

SettlementsEnd ==
  /\ Verifying("closed-loop", "settlements")
  /\ Check(settlements # <<>> /\ MeetsRatio(fundTotal, settledTotal, AlphaFundBps), "ledger")

-----------------------------------------------------------------------------
(* LEDGER *)

\* Mutant of VerifyLedgers: what a buyer still holds at the period end is left out.
VerifySpending ==
  /\ Verifying("closed-loop", "ledger")
  /\ Check(\A b \in claim.buyers :
             settledBy[b] * 10000 <= fundedBy[b] * (10000 + EpsilonLedgerBps),
           "returns")

\* balance_end + settled <= funded * (1 + epsilon), for each buyer
VerifyLedgers ==
  /\ Verifying("closed-loop", "ledger")
  /\ Check(\A b \in claim.buyers :
             (history.end[b] + settledBy[b]) * 10000 <= fundedBy[b] * (10000 + EpsilonLedgerBps),
           "returns")

-----------------------------------------------------------------------------
(* RETURN *)

SelfFunded == claim.seller = claim.funder

\* Mutant of Continues: the window is measured from the hop before.
ContinuesSoon(i) ==
  IF path = <<>>
  THEN Len(returns) < MaxReturns /\ Log(i).from = claim.seller /\ Time(i) > firstSettled
  ELSE LET last == path[Len(path)] IN
       /\ Log(i).from = Log(last).to /\ i > last
       /\ MeetsRatio(Log(i).amount, Log(last).amount, RhoHopBps)
       /\ Time(i) - Time(last) <= PathSeconds

\* A path leaves the seller after the first settlement counted; each further hop
\* continues from the last recipient, later, and forwards enough of what it got.
Continues(i) ==
  IF path = <<>>
  THEN Len(returns) < MaxReturns /\ Log(i).from = claim.seller /\ Time(i) > firstSettled
  ELSE LET last == path[Len(path)] IN
       /\ Log(i).from = Log(last).to /\ i > last
       /\ MeetsRatio(Log(i).amount, Log(last).amount, RhoHopBps)
       /\ Time(i) - Time(path[1]) <= PathSeconds

HopCounts(i) ==
  /\ ~SelfFunded /\ Len(path) < MaxHops
  /\ i \notin used
  /\ UsdcTransfer(i) /\ Log(i).from # Log(i).to
  /\ Continues(i)

CountHop(i) ==
  /\ used' = used \cup {i}
  /\ credit' = Smaller(credit, Log(i).amount)
  /\ UNCHANGED <<fundingSums, settlementSums, returned>>

VerifyHop ==
  /\ Verifying("closed-loop", "returns")
  /\ \E i \in Keys :
       /\ path' = Append(path, i)
       /\ Take(HopCounts(i), CountHop(i))
  /\ UNCHANGED <<fundings, settlements, returns>>

CountPath ==
  /\ returned' = returned + credit /\ credit' = AmountMax
  /\ UNCHANGED <<used, fundingSums, settlementSums>>

\* The path ends at the funder; a path without a transfer ends nowhere.
PathEnds ==
  /\ Verifying("closed-loop", "returns")
  /\ returns' = Append(returns, path) /\ path' = <<>>
  /\ LET ok == path # <<>> /\ Log(path[Len(path)]).to = claim.funder /\ Fits(returned + credit)
     IN Take(ok, CountPath)
  /\ UNCHANGED <<fundings, settlements>>

ReturnsEnd ==
  /\ Verifying("closed-loop", "returns") /\ path = <<>>
  /\ Check(SelfFunded \/ MeetsRatio(returned, settledTotal, AlphaReturnBps), "journal")

LoopNext ==
  \/ LoopHeader
  \/ VerifyFunding \/ FundingsEnd
  \/ VerifySettlement \/ SettlementsEnd
  \/ VerifyLedgers
  \/ VerifyHop \/ PathEnds \/ ReturnsEnd

=============================================================================
