------------------------------ MODULE ReportBundle ------------------------------
(***************************************************************************)
(* The draft of a proof bundle (scripts/build-unified-historical-bundle):  *)
(* for each case the analysis of a scan approved, a claim with all the     *)
(* evidence the scan has for it.                                           *)
(*                                                                         *)
(* A claim's identifier, its leaf and the report root hash what the claim  *)
(* or the bundle contains: here a claim is its contents, and a root is the *)
(* set of the claims below it.                                             *)
(***************************************************************************)
EXTENDS ReturnPaths

CONSTANTS
  PeriodStart, PeriodEnd, \* the first and the last block of the period
  HistoricalStart,        \* HISTORICAL_START_BLOCK, before the period
  MinFunding              \* 1_000_000: smaller transfers are not funding

InPeriod(i) == Log(i).block \in PeriodStart .. PeriodEnd

Located(hops) == [hops |-> hops, located |-> TRUE]

\* A funding is a buyer and a transfer of USDC to it, or to Deposits for it.
IsDeposit(f) == Log(f.transfer).to = DepositsAddress
FundedTime(fundings, b) == Min({Time(f.transfer) : f \in {g \in fundings : g.buyer = b}})
Buyers(fundings) == {f.buyer : f \in fundings}

\* raw/protocol-deposits.json of the scan: who paid into Deposits for whom
DepositRecords ==
  {f \in [buyer : {Log(j).to : j \in {k \in Keys : Log(k).kind = "deposited"}},
          transfer : {i \in Transfers : Log(i).to = DepositsAddress}] :
     \E j \in Keys : /\ Log(j).kind = "deposited" /\ Log(j).to = f.buyer
                     /\ SameTx(f.transfer, j) /\ Log(j).amount = Log(f.transfer).amount}

\* raw/antscan/settlementVolumes.ndjson of the scan: settlements of the period
SettlementRows == {i \in Keys : Log(i).kind = "settled" /\ InPeriod(i)}

-----------------------------------------------------------------------------
(* A closed loop: one seller, one funder, the buyers it funded *)

LoopFundings(case) ==
  {f \in DepositRecords \cup [buyer : case.buyers, transfer : Transfers] :
     /\ f.buyer \in case.buyers
     /\ Log(f.transfer).from = case.funder /\ Log(f.transfer).amount >= MinFunding
     /\ f \in DepositRecords \/ Log(f.transfer).to = f.buyer}

\* Settlements of funded buyers; those after the buyer's first funding make the volume.
LoopSettlements(case, fundings) ==
  {i \in SettlementRows : Log(i).to = case.seller /\ Log(i).from \in Buyers(fundings)}
Counted(settlements, fundings) ==
  {i \in settlements : Time(i) > FundedTime(fundings, Log(i).from)}

DirectReturns(seller, funder) ==
  {Located(<<i>>) : i \in {k \in Transfers : /\ Log(k).from = seller /\ Log(k).to = funder
                                             /\ Log(k).amount > 0}}
KnownReturns(seller, funder) ==
  {p \in {[hops |-> hops, located |-> FALSE] : hops \in history.known} :
     Log(p.hops[1]).from = seller /\ Log(p.hops[Len(p.hops)]).to = funder}

\* The returns that start after the first settlement, chosen to cover the volume at
\* bps; what is missing is searched for in the traces, past the transfers chosen.
LoopReturns(seller, funder, volume, after, bps) ==
  LET known == {p \in DirectReturns(seller, funder) \cup KnownReturns(seller, funder) :
                  Time(p.hops[1]) > after}
      required == RequiredReturn(volume, bps)
      first == SelectReturns(known, required, after, MaxReturns, {})
      found == Discover(seller, funder, after, required - first.returned,
                        MaxReturns - Cardinality(first.paths), first.used)
  IN IF first.returned >= required \/ funder \notin history.traced THEN first
     ELSE SelectReturns(first.paths \cup found, required, after, MaxReturns, {})

\* The draft claim of a case, or nothing if the evidence does not bear out the case.
DraftLoop(case, bps) ==
  LET fundings == LoopFundings(case)
      settlements == LoopSettlements(case, fundings)
      counted == Counted(settlements, fundings)
      after == Min({Time(i) : i \in counted})
      returns == LoopReturns(case.seller, case.funder, case.volume, after, bps)
      self == case.seller = case.funder
  IN IF \/ Cardinality(Buyers(fundings)) # case.count
        \/ AmountOf(counted) # case.volume \/ counted = {}
        \/ ~self /\ returns.returned < returns.required
     THEN {}
     ELSE {[kind |-> "closed-loop", seller |-> case.seller, funder |-> case.funder,
            buyers |-> Buyers(fundings), volume |-> case.volume, fundings |-> fundings,
            settlements |-> settlements, returns |-> IF self THEN {} ELSE returns.paths]}

-----------------------------------------------------------------------------
(* A reciprocal pair: what each sold the other, and their own deposits *)

Sales(settlements, seller) == AmountOf({i \in settlements : Log(i).to = seller})

DraftPair(case) ==
  LET pair == {case.a, case.b}
      settlements == {i \in SettlementRows : {Log(i).from, Log(i).to} = pair}
  IN IF Sales(settlements, case.a) # case.soldA \/ Sales(settlements, case.b) # case.soldB
     THEN {}
     ELSE {[kind |-> "reciprocal", a |-> case.a, b |-> case.b,
            soldA |-> case.soldA, soldB |-> case.soldB, settlements |-> settlements,
            fundings |-> {f \in DepositRecords : /\ f.buyer \in pair
                                                 /\ Log(f.transfer).from \in pair}]}

-----------------------------------------------------------------------------
Draft(case, bps) == IF case.kind = "closed-loop" THEN DraftLoop(case, bps) ELSE DraftPair(case)

\* The builder writes a bundle only if every approved case has a claim.
Drafts(bps) == UNION {Draft(case, bps) : case \in history.cases}
DraftFails(bps) == \E case \in history.cases : Draft(case, bps) = {}

=============================================================================
