-------------------------------- MODULE Evidence --------------------------------
(***************************************************************************)
(* What the predicates of predicate/src read and accumulate: the logs of   *)
(* an authenticated stretch of Base history, resolved by position          *)
(* (resolver.rs), the claim to verify, the evidence taken from its lists   *)
(* so far, and the running sums of one verification.                       *)
(*                                                                         *)
(* A log is its place in history.logs, which is its LogKey (block number,  *)
(* transaction, log): the numbers 1, 2, ... order logs as their keys do.   *)
(* A block number stands for the block's timestamp too, so that logs of    *)
(* one block have one time and different keys.  Addresses are numbers and  *)
(* 0 is the zero address.  A bad piece of evidence rejects the claim at    *)
(* once: it stays in its list, and phase says where verification stopped.  *)
(***************************************************************************)
EXTENDS Integers, Sequences, FiniteSets

CONSTANTS
  MaxAddress,      \* addresses are 0 .. MaxAddress
  DepositsAddress, \* the protocol's Deposits contract
  PeriodStart, PeriodEnd,
  Histories,       \* stretches of history to verify claims in
  Claims,          \* the claims made
  AmountMax,       \* the largest u128
  PathSeconds,     \* T_PATH_SECONDS
  MaxBuyers,       \* MAX_BUYERS
  MaxHops,         \* H_MAX_INTERMEDIATE_HOPS + 1
  MaxReturns,      \* MAX_RETURN_PATHS
  MaxFundings, MaxSettlements  \* bounds: length of the evidence lists

VARIABLES
  history,      \* logs, end balances and volume counters
  claim,        \* the claim's kind and subjects
  phase,        \* what is verified now
  verdict,      \* whether the claim was rejected there, or accepted at the end
  fundings,     \* evidence given so far: buyer, transfer and Deposited log (0 = none)
  settlements,  \* evidence given so far: settlement logs
  returns,      \* evidence given so far: completed paths of transfer logs
  path,         \* the return path given now
  used,         \* used_logs
  fundedBy,     \* [Addresses -> Nat]: usdc_per_buyer
  fundTotal,    \* total_usdc, internal_total
  firstFunded,  \* [Addresses -> Nat]: earliest_time per buyer, Never = no entry
  settledBy,    \* [Addresses -> Nat]: per_buyer
  settledTotal, \* total
  firstSettled, \* earliest_time, Never = u64::MAX
  returned,     \* returned
  credit        \* path_credit, AmountMax before the first hop

lists == <<fundings, settlements, returns, path>>
fundingSums == <<fundedBy, fundTotal, firstFunded>>
settlementSums == <<settledBy, settledTotal, firstSettled>>
returnSums == <<returned, credit>>
sums == <<used, fundingSums, settlementSums, returnSums>>
vars == <<history, claim, phase, verdict, lists, sums>>

Addresses == 0 .. MaxAddress
Zero == 0
Never == PeriodEnd + 1
Phases == {"claim", "fundings", "settlements", "deposits", "ledger", "returns", "journal"}
LogKinds == {"transfer", "deposited", "settled"}
Logs == [block : Nat, tx : Nat, kind : LogKinds, from : Addresses, to : Addresses,
         amount : 0 .. AmountMax, signer : Addresses]
LoopClaims == [kind : {"closed-loop"}, target : Addresses, seller : Addresses,
               funder : Addresses, buyers : SUBSET Addresses]
PairClaims == [kind : {"reciprocal"}, target : Addresses, a : Addresses, b : Addresses]
IsClaim(c) == c \in LoopClaims \/ c \in PairClaims

\* end: Deposits.buyers[a].balance at the period end; agent: the seller is staked;
\* volume: the settled-volume counter of its agent.
IsHistory(h) ==
  /\ h.logs \in Seq(Logs)
  /\ \A i, j \in 1 .. Len(h.logs) : i <= j => h.logs[i].block <= h.logs[j].block
  /\ h.end \in [Addresses -> Nat]
  /\ h.agent \in [Addresses -> BOOLEAN] /\ h.volume \in [Addresses -> Nat]

ASSUME EvidenceAssumption ==
  /\ MaxAddress \in Nat /\ DepositsAddress \in Addresses
  /\ PeriodStart \in Nat \ {0} /\ PeriodEnd \in Nat /\ PeriodStart <= PeriodEnd
  /\ AmountMax \in Nat /\ PathSeconds \in Nat
  /\ MaxBuyers \in Nat /\ MaxHops \in Nat /\ MaxReturns \in Nat
  /\ MaxFundings \in Nat /\ MaxSettlements \in Nat
  /\ \A h \in Histories : IsHistory(h)
  /\ \A c \in Claims : IsClaim(c)

Keys == 1 .. Len(history.logs)
Log(i) == history.logs[i]
Time(i) == Log(i).block

InPeriod(i) == Log(i).block \in PeriodStart .. PeriodEnd

\* numerator * 10_000 >= total * ratio_bps, in 256 bits
MeetsRatio(numerator, total, bps) == numerator * 10000 >= total * bps

\* checked_add does not overflow.
Fits(sum) == sum <= AmountMax

Smaller(s, t) == IF s < t THEN s ELSE t

UsdcTransfer(i) == Log(i).kind = "transfer" /\ InPeriod(i) /\ Log(i).amount > 0

\* A transfer into Deposits and the Deposited log of the same receipt that credits
\* member with it, in a transaction signed by the payer.
ProtocolDeposit(i, j, member) ==
  /\ UsdcTransfer(i) /\ Log(j).kind = "deposited"
  /\ Log(i).block = Log(j).block /\ Log(i).tx = Log(j).tx /\ i < j
  /\ Log(i).to = DepositsAddress
  /\ Log(j).to = member /\ Log(j).amount = Log(i).amount
  /\ Log(i).signer = Log(i).from

ChannelSettled(i) == Log(i).kind = "settled" /\ InPeriod(i) /\ Log(i).amount > 0

\* Deposited may also be the log a direct transfer leaves out: 0.
Fundings == [buyer : Addresses, transfer : Keys, deposited : Keys \cup {0}]
Direct(f) == f.deposited = 0
LogsOf(f) == {f.transfer, f.deposited} \ {0}

Init ==
  /\ history \in Histories /\ claim \in Claims
  /\ phase = "claim" /\ verdict = "pending"
  /\ fundings = <<>> /\ settlements = <<>> /\ returns = <<>> /\ path = <<>>
  /\ used = {}
  /\ fundedBy = [a \in Addresses |-> 0] /\ fundTotal = 0
  /\ firstFunded = [a \in Addresses |-> Never]
  /\ settledBy = [a \in Addresses |-> 0] /\ settledTotal = 0
  /\ firstSettled = Never
  /\ returned = 0 /\ credit = AmountMax

TypeOK ==
  /\ IsHistory(history) /\ IsClaim(claim)
  /\ phase \in Phases /\ verdict \in {"pending", "accepted", "rejected"}
  /\ fundings \in Seq(Fundings) /\ settlements \in Seq(Keys)
  /\ returns \in Seq(Seq(Keys)) /\ path \in Seq(Keys)
  /\ used \subseteq Keys
  /\ fundedBy \in [Addresses -> 0 .. AmountMax] /\ fundTotal \in 0 .. AmountMax
  /\ firstFunded \in [Addresses -> PeriodStart .. Never]
  /\ settledBy \in [Addresses -> 0 .. AmountMax] /\ settledTotal \in 0 .. AmountMax
  /\ firstSettled \in PeriodStart .. Never
  /\ returned \in 0 .. AmountMax /\ credit \in 0 .. AmountMax

Entries(s) == {s[n] : n \in DOMAIN s}

Verifying(kind, ph) == verdict = "pending" /\ claim.kind = kind /\ phase = ph

\* Mutant of CountFunding: only the transfer is marked as used, not its Deposited log.
CountTransferOnly(f) ==
  LET amount == Log(f.transfer).amount IN
  /\ used' = used \cup {f.transfer}
  /\ fundedBy' = [fundedBy EXCEPT ![f.buyer] = @ + amount]
  /\ fundTotal' = fundTotal + amount
  /\ firstFunded' = [firstFunded EXCEPT ![f.buyer] = Smaller(@, Time(f.transfer))]
  /\ UNCHANGED <<settlementSums, returnSums>>

\* A funding or a pair deposit counts: its logs are used, its amount is added.
CountFunding(f) ==
  LET amount == Log(f.transfer).amount IN
  /\ used' = used \cup LogsOf(f)
  /\ fundedBy' = [fundedBy EXCEPT ![f.buyer] = @ + amount]
  /\ fundTotal' = fundTotal + amount
  /\ firstFunded' = [firstFunded EXCEPT ![f.buyer] = Smaller(@, Time(f.transfer))]
  /\ UNCHANGED <<settlementSums, returnSums>>

\* A settlement counts: its buyer, Log(i).from, bought from Log(i).to.
CountSettlement(i) ==
  LET amount == Log(i).amount IN
  /\ used' = used \cup {i}
  /\ settledBy' = [settledBy EXCEPT ![Log(i).from] = @ + amount]
  /\ settledTotal' = settledTotal + amount
  /\ firstSettled' = Smaller(firstSettled, Time(i))
  /\ UNCHANGED <<fundingSums, returnSums>>

Reject == verdict' = "rejected" /\ UNCHANGED <<history, claim, phase, sums>>

\* Verification goes on to the next part if ok, and otherwise rejects the claim.
Check(ok, next) ==
  /\ UNCHANGED lists
  /\ \/ ok /\ phase' = next /\ UNCHANGED <<history, claim, verdict, sums>>
     \/ ~ok /\ Reject

\* One more piece of evidence counts if ok, and otherwise rejects the claim.
Take(ok, Count) ==
  \/ ok /\ Count /\ UNCHANGED <<history, claim, phase, verdict>>
  \/ ~ok /\ Reject

=============================================================================
