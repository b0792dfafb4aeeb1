-------------------------------- MODULE Planner --------------------------------
(***************************************************************************)
(* Planning one claim (scripts/proof-planner.mjs): its evidence is looked  *)
(* up on chain, and of what is found the planner selects the evidence to   *)
(* prove.  A plan is the set of plans a call returns: one, or none where   *)
(* the code throws.                                                        *)
(*                                                                         *)
(* A claim is planned twice.  The first planning chooses how much of the   *)
(* draft can be proved, within the ledgers of its buyers, and makes the    *)
(* final claim of it; the second must find exactly that volume again.      *)
(***************************************************************************)
EXTENDS ReportBundle

-----------------------------------------------------------------------------
(* Looking evidence up (resolveDependency).  lost are the logs of receipts *)
(* the provider answered for with an error or not at all: the evidence is  *)
(* dropped with a note among the plan's rejected alternatives.             *)

\* The Deposited logs that match a deposit; there must be one, after the transfer.
DepositedLogs(f) ==
  {j \in Keys : /\ Log(j).kind = "deposited" /\ SameTx(f.transfer, j)
                /\ Log(j).to = f.buyer /\ Log(j).amount = Log(f.transfer).amount}
DepositFound(f) ==
  Cardinality(DepositedLogs(f)) = 1 /\ \A j \in DepositedLogs(f) : f.transfer < j

\* A log without an index is found if nothing else in its transaction looks the same.
HopFound(i, located) ==
  \/ located
  \/ ~\E k \in Transfers \ {i} : /\ SameTx(k, i) /\ Log(k).from = Log(i).from
                                 /\ Log(k).to = Log(i).to /\ Log(k).amount = Log(i).amount

\* Blocks before the first one supported are refused.
Found(i, lost) == i \notin lost /\ Log(i).block >= HistoricalStart

ResolvedFundings(c, lost) ==
  {f \in c.fundings : Found(f.transfer, lost) /\ (IsDeposit(f) => DepositFound(f))}
ResolvedSettlements(c, lost) == {i \in c.settlements : Found(i, lost) /\ InPeriod(i)}
ResolvedReturns(c, lost) ==
  {Located(p.hops) : p \in {q \in c.returns : \A i \in Entries(q.hops) :
                                                Found(i, lost) /\ HopFound(i, q.located)}}

\* authenticateClaim
Resolved(c, lost) ==
  IF c.kind = "reciprocal"
  THEN [c EXCEPT !.fundings = ResolvedFundings(c, lost),
                 !.settlements = ResolvedSettlements(c, lost)]
  ELSE [c EXCEPT !.fundings = ResolvedFundings(c, lost),
                 !.settlements = ResolvedSettlements(c, lost),
                 !.returns = ResolvedReturns(c, lost)]

\* The ledger of a buyer at the end of the period.
BalanceEnd(b) == history.end[b]

-----------------------------------------------------------------------------
(* Settlements that fit *)

\* In the order of the chain, each settlement that still fits below capacity.
WithinCapacity(S, capacity) ==
  LET take(i, kept) ==
        IF Log(i).amount > kept.left THEN kept
        ELSE [chosen |-> kept.chosen \cup {i}, left |-> kept.left - Log(i).amount]
  IN MapThenFoldSet(take, [chosen |-> {}, left |-> capacity], LAMBDA i : i, Max, S).chosen

FundedIn(fundings) == MapThenSumSet(LAMBDA f : Log(f.transfer).amount, fundings)

\* What the funding before the latest of a buyer's settlements allows it to settle.
LedgerCapacity(fundings, balance, S) ==
  LET funded == FundedIn({f \in fundings : f.transfer < Max(S)})
  IN Max({0, (funded * 10500) \div 10000 - balance})

\* A buyer's settlements within its ledger: dropping the latest lowers the capacity, so
\* the selection is repeated until nothing more is dropped.
WithinLedger(S, fundings, balance) ==
  LET kept[n \in 0 .. Cardinality(S)] ==
        IF n = 0 THEN S
        ELSE LET before == kept[n - 1] IN
             IF before = {} THEN {}
             ELSE WithinCapacity(before, LedgerCapacity(fundings, balance, before))
  IN kept[Cardinality(S)]

-----------------------------------------------------------------------------
Plan(c, fundings, settlements, returns) ==
  [claim |-> c, fundings |-> fundings, settlements |-> settlements, returns |-> returns]

\* The settlements amount to what the analysis said of the claim.
HasAnalysisVolume(c, settlements) ==
  IF c.kind = "reciprocal"
  THEN Sales(settlements, c.a) = c.soldA /\ Sales(settlements, c.b) = c.soldB
  ELSE AmountOf(settlements) = c.volume

-----------------------------------------------------------------------------
(* Closed loops.  d is the evidence found for claim c; ledger: the period- *)
(* end balances of its buyers are known; free: the volume may be chosen.   *)

SelfFunded(c) == c.seller = c.funder

ValidRelayPath(hops) ==
  /\ Len(hops) \in 1 .. 9
  /\ \A n \in 2 .. Len(hops) : hops[n - 1] < hops[n] /\ Retains(hops[n], hops[n - 1])
  /\ Time(hops[Len(hops)]) - Time(hops[1]) <= PathSeconds

\* Direct returns and relay paths of the period, as the planner judges them.
Closure(d) ==
  {p \in d.returns :
     /\ \A i \in Entries(p.hops) : InPeriod(i) /\ Log(i).amount > 0 /\ Log(i).from # Log(i).to
     /\ ValidRelayPath(p.hops)}

\* The paths counted: all that are disjoint, or as many as the volume needs.
ClosureSelected(c, closure, free, bps) ==
  SelectReturns(closure, IF free THEN Returned(closure) ELSE RequiredReturn(c.volume, bps),
                0, MaxReturns, {})

\* The volume the returns allow; without returns there is no limit.
ReturnCapacity(paths, bps) == (Returned(paths) * 10000) \div bps

FundingsOf(fundings, b) == {f \in fundings : f.buyer = b}

\* Mutant of Eligible: by position, also in the block of the first funding.
EligibleInBlock(d) ==
  {i \in d.settlements : \E f \in FundingsOf(d.fundings, Log(i).from) : f.transfer < i}

\* Settlements in a later block than the first funding of their buyer.
Eligible(d) ==
  {i \in d.settlements : \E f \in FundingsOf(d.fundings, Log(i).from) : Time(f.transfer) < Time(i)}

\* Settlements of each buyer within its ledger, then of all within the returns.
SelectSettlements(d, paths, ledger, bps) ==
  LET eligible == Eligible(d)
      of(b) == {i \in eligible : Log(i).from = b}
      funded == IF ~ledger THEN eligible
                ELSE UNION {WithinLedger(of(b), FundingsOf(d.fundings, b), BalanceEnd(b)) :
                              b \in Buyers(d.fundings)}
  IN IF paths = {} THEN funded ELSE WithinCapacity(funded, ReturnCapacity(paths, bps))

\* The fundings in a block before the latest selected settlement of their buyer.
KeptFundings(d, settlements) ==
  {f \in d.fundings : \E i \in settlements : Log(i).from = f.buyer /\ Time(f.transfer) < Time(i)}

ClosureOccursAfter(settlements, paths) ==
  \A p \in paths : \A i \in Entries(p.hops) : i > Min(settlements)
CoverageQualifies(paths, volume, bps) == paths # {} => Returned(paths) * 10000 >= volume * bps

\* Every hop comes after the first settlement, the returns cover the volume, and so
\* do the fundings kept, which only a planning with a ledger looks at.
Qualifies(plan, ledger, bps) ==
  LET volume == AmountOf(plan.settlements) IN
  /\ ClosureOccursAfter(plan.settlements, plan.returns)
  /\ CoverageQualifies(plan.returns, volume, bps)
  /\ ledger => FundedIn(plan.fundings) * 10000 >= volume * 9000

\* The returns counted for evidence d, unless there are none or too few of them.
ChosenReturns(c, d, free, bps) ==
  IF SelfFunded(c) THEN {{}}
  ELSE {chosen.paths : chosen \in
          {x \in {ClosureSelected(c, closure, free, bps) : closure \in {Closure(d)} \ {{}}} :
             free \/ x.returned >= x.required}}

\* The plan for evidence d of claim c, whose volume may differ from c's only if free.
PlanLoop(c, d, ledger, free, bps) ==
  LET select(paths) == [returns |-> paths, settlements |-> SelectSettlements(d, paths, ledger, bps)]
      plan(s) == Plan([c EXCEPT !.volume = AmountOf(s.settlements)],
                      KeptFundings(d, s.settlements), s.settlements, s.returns)
      selections == {select(paths) : paths \in ChosenReturns(c, d, free, bps)}
  IN {p \in {plan(s) : s \in {t \in selections : t.settlements # {}}} :
        (free \/ HasAnalysisVolume(c, p.settlements)) /\ Qualifies(p, ledger, bps)}

\* The first planning: the claim reduced to the evidence selected for it.
FinalClaim(c, lost, bps) ==
  {[p.claim EXCEPT !.buyers = Buyers(p.fundings), !.fundings = p.fundings,
                   !.settlements = p.settlements, !.returns = p.returns] :
     p \in UNION {PlanLoop(c, d, TRUE, TRUE, bps) : d \in {Resolved(c, lost)}}}

-----------------------------------------------------------------------------
(* Reciprocal pairs: all settlements, and at least 80 % reciprocity *)

VolumesQualify(x, y) == x > 0 /\ y > 0 /\ Min({x, y}) * 10000 >= Max({x, y}) * 8000

PlanPair(c, d) ==
  IF /\ VolumesQualify(Sales(d.settlements, c.a), Sales(d.settlements, c.b))
     /\ HasAnalysisVolume(c, d.settlements)
  THEN {Plan(c, d.fundings, d.settlements, {})}
  ELSE {}

=============================================================================
