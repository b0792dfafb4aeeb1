----------------------------- MODULE SnapshotRules -----------------------------
(***************************************************************************)
(* What a snapshot promises: the guest, whose rules are those of           *)
(* ClaimRules, accepts its plans; kills, checkpoints and policies of       *)
(* earlier runs do not show in its bundle, and in a plan only through the  *)
(* balances a resumed claim is planned without; and a rerun always comes   *)
(* to an end.                                                              *)
(***************************************************************************)
EXTENDS Snapshot, MerkleTree, SequencesExt

CONSTANTS MaxAddress, AmountMax \* addresses are 0 .. MaxAddress; the largest u128

\* One type invariant: the files and the memory of the process.
TypeOK ==
  /\ policy \in Policies /\ stage \in Stages
  /\ bundleFile \in {Nothing, Torn} \/ \A c \in bundleFile : c.settlements \subseteq SettlementRows
  /\ planFile \in {Nothing, Torn} \/ Cardinality(planFile.plans) = Cardinality(planFile.root)
  /\ lockFile \in {Nothing, Torn} \/ DOMAIN lockFile = {"root", "bundle", "plan"}
  /\ \A saves \in {claimFiles, planFiles} :
       \A s, t \in saves : s.policy \in Policies /\ (s.source = t.source => s = t)
  /\ stage = "finalize" \/ pending \subseteq final
  /\ audited \subseteq final /\ {p.claim : p \in plans} \subseteq final
  /\ crew \in 0 .. ClaimWorkers
  /\ kills \in 0 .. MaxKills /\ faults \in 0 .. MaxFaults /\ changes \in 0 .. MaxChanges

-----------------------------------------------------------------------------
(* Plans and the predicate *)

GuestFundings(p) ==
  SetToSeq({[buyer |-> f.buyer, transfer |-> f.transfer,
             deposited |-> IF IsDeposit(f) THEN Min(DepositedLogs(f)) ELSE 0] : f \in p.fundings})
GuestClaim(c) ==
  IF c.kind = "reciprocal" THEN [kind |-> c.kind, target |-> c.a, a |-> c.a, b |-> c.b]
  ELSE [kind |-> c.kind, target |-> c.seller, seller |-> c.seller, funder |-> c.funder,
        buyers |-> c.buyers]

\* The predicate at the end of a plan's evidence; its running sums are not looked at.
Guest(p) ==
  INSTANCE ClaimRules WITH
    Claims <- {}, MaxBuyers <- 256, MaxHops <- 9, MaxFundings <- 0, MaxSettlements <- 0,
    claim <- GuestClaim(p.claim), phase <- "journal", verdict <- "pending",
    fundings <- GuestFundings(p), settlements <- SetToSeq(p.settlements),
    returns <- SetToSeq({r.hops : r \in p.returns}), path <- <<>>,
    used <- {}, fundedBy <- <<>>, fundTotal <- 0, firstFunded <- <<>>, settledBy <- <<>>,
    settledTotal <- 0, firstSettled <- 0, returned <- 0, credit <- 0

\* Where planner and predicate are known to differ: a funding before the period, a
\* deposit someone else signed, a return in the block of the first settlement
\* (proof-planner.mjs 172, 275, 554; closed_loop.rs 118, 186, 347).
Differs(p) ==
  \/ \E f \in p.fundings : ~InPeriod(f.transfer)
  \/ \E f \in p.fundings : IsDeposit(f) /\ Log(f.transfer).signer # Log(f.transfer).from
  \/ \E r \in p.returns : Time(r.hops[1]) = Time(Min(p.settlements))

\* A plan made with the ledgers satisfies all rules of a closed loop, at its policy.
LoopAccepted(p) ==
  /\ Guest(p)!LoopClaimRule /\ Guest(p)!LoopFundingsRule /\ Guest(p)!LoopReturnsRule
  /\ SelfFunded(p.claim) \/ Returned(p.returns) * 10000 >= AmountOf(p.settlements) * p.policy
  /\ p.ledger => Guest(p)!LoopSettlementsRule /\ Guest(p)!LoopLedgerRule

\* What the planner selects is what the predicate accepts: choosing evidence in two
\* greedy passes, it keeps to every rule the guest will check one by one, apart from the
\* known differences (proof-planner.mjs 318-432, closed_loop.rs 38-100).
PlanIsAccepted ==
  stage = "validate" =>
    \A p \in plans :
      IF p.claim.kind = "reciprocal" THEN Guest(p)!PairSettlementsRule
      ELSE Differs(p) \/ LoopAccepted(p)

\* proof-planner.test.mjs 23-34 and README.md 29-30: a buyer's selected settlements stay
\* within what its fundings and its period-end balance allow.
PlanWithinLedger ==
  stage = "validate" =>
    \A p \in plans : p.claim.kind = "reciprocal" \/ Differs(p) \/ Guest(p)!LoopLedgerRule

\* The evidence of a plan is among the dependencies of its claim, whose memberships lead to
\* the claim's root, as those of the claims lead to the report root, and no leaf has the path
\* of another (merkleMembershipIndex, attachMemberships).
PathsLeadToRoot(n) ==
  \A k, m \in 1 .. n : Climb(Leaf(k), Membership(n, m)) = RootOf(LeavesTo(n)) <=> k = m
Dependencies(c) ==
  Cardinality(c.fundings) + Cardinality(c.settlements)
  + IF c.kind = "reciprocal" THEN 0 ELSE Cardinality(c.returns)
MembershipsLeadToRoot ==
  stage = "validate" =>
    /\ PathsLeadToRoot(Cardinality(final)) /\ \A c \in final : PathsLeadToRoot(Dependencies(c))
    /\ \A p \in plans :
         /\ p.fundings \subseteq p.claim.fundings /\ p.settlements \subseteq p.claim.settlements
         /\ p.claim.kind = "reciprocal" \/ p.returns \subseteq p.claim.returns

\* What the settlements of a buyer and its balance amount to, its fundings of the plan cover.
LedgersKept(p) ==
  \A b \in p.claim.buyers :
    LET settled == AmountOf({i \in p.settlements : Log(i).from = b})
    IN settled > 0 =>
         (BalanceEnd(b) + settled) * 10000 <= FundedIn(FundingsOf(p.fundings, b)) * 10500

\* A plan proves its loop: all settlements and fundings of the claim, each settlement funded
\* before; disjoint valid returns after the settlements, enough of them at that policy; with the
\* ledgers at hand, within each of them.
ProvesLoop(p, bps, ledger) ==
  /\ p.settlements = p.claim.settlements /\ p.fundings = p.claim.fundings
  /\ p.claim.buyers = Buyers(p.fundings) /\ p.claim.volume = AmountOf(p.settlements)
  /\ p.settlements # {}
  /\ \A i \in p.settlements :
       \E f \in FundingsOf(p.fundings, Log(i).from) : Time(f.transfer) < Time(i)
  /\ \A r \in p.returns : ValidReturn(r, 0)
  /\ \A q, r \in p.returns : q # r => PathKeys(q) \cap PathKeys(r) = {}
  /\ Cardinality(p.returns) <= MaxReturns
  /\ ClosureOccursAfter(p.settlements, p.returns)
  /\ IF SelfFunded(p.claim) THEN p.returns = {}
     ELSE Returned(p.returns) * 10000 >= p.claim.volume * bps
  /\ ledger => LedgersKept(p) /\ FundedIn(p.fundings) * 10000 >= p.claim.volume * 9000

ProvesPair(p) ==
  /\ HasAnalysisVolume(p.claim, p.settlements)
  /\ VolumesQualify(Sales(p.settlements, p.claim.a), Sales(p.settlements, p.claim.b))

PlansAreComplete ==
  stage = "validate" =>
    \A p \in plans : IF p.claim.kind = "reciprocal" THEN ProvesPair(p)
                     ELSE ProvesLoop(p, p.policy, p.ledger)

\* Whether a plan was made now or by an earlier run, for a claim finalized now or then, it
\* proves its claim completely, keeps to the planner's own rules, which are chosen to
\* imply those of the predicate, and its evidence leads to the roots of claim and report
\* (proof-planner.mjs 344-428, 637-660, return-path-selection.mjs 24-54).
PlansProveClaims == PlansAreComplete /\ MembershipsLeadToRoot

-----------------------------------------------------------------------------
(* Checkpoints *)

\* A finalized claim that was saved can be planned again from its own evidence alone,
\* with the same settlements, so that a rerun never stops at it (proof-planner.mjs
\* 384-404, 740-751).
SavedClaimReplans ==
  \A s \in claimFiles :
    s.result = Torn
    \/ \E p \in PlanLoop(s.result, s.result, FALSE, FALSE, s.policy) :
         /\ p.claim = s.result /\ p.settlements = s.result.settlements
         /\ p.fundings = s.result.fundings

\* What the consumer of a snapshot accepts (generate-approved-development-proofs.mjs):
\* the plan has the root and exactly the claims of the bundle, with their volumes,
ApprovedVolume(c) == IF c.kind = "reciprocal" THEN c.soldA + c.soldB ELSE c.volume
PlanIsComplete(bundle, plan) ==
  /\ plan.root = bundle /\ {p.claim : p \in plan.plans} = bundle
  /\ \A p \in plan.plans : AmountOf(p.settlements) = ApprovedVolume(p.claim)

\* and the digests are those of the files.
LockAccepted ==
  /\ {bundleFile, planFile, lockFile} \cap {Nothing, Torn} = {}
  /\ lockFile.root = bundleFile /\ lockFile.bundle = bundleFile /\ lockFile.plan = planFile
  /\ PlanIsComplete(bundleFile, planFile)

\* Whatever was killed, torn or resumed, an accepted snapshot is of one piece: each case
\* has one plan, made under the plan file's policy and for this report root.
LockedSnapshotIsWhole ==
  LockAccepted =>
    /\ Cardinality(planFile.plans) = Cardinality(history.cases)
    /\ \A p \in planFile.plans : p.root = bundleFile /\ p.policy = planFile.policy

FreshBundle(bps) ==
  {c \in Drafts(bps) : c.kind = "reciprocal"}
  \cup UNION {FinalClaim(c, {}, bps) : c \in Loops(Drafts(bps))}

\* What a run plans for claim c of the bundle root, with or without its period-end balances.
FreshPlans(c, root, bps, ledger) ==
  LET made == IF c.kind = "reciprocal" THEN PlanPair(c, Resolved(c, {}))
              ELSE PlanLoop(c, c, ledger, FALSE, bps)
  IN {[claim |-> p.claim, fundings |-> p.fundings, settlements |-> p.settlements,
       returns |-> p.returns, root |-> root, policy |-> bps, ledger |-> ledger] : p \in made}

\* Unless the provider failed, kills, checkpoints and changes of the policy do not show in the
\* bundle of an accepted snapshot: it is the one a single run without checkpoints writes under
\* the plan's policy (README.md 180-181).  Each plan is that run's plan of its claim, or, if
\* the claim was resumed, the one made without its balances: with them that run may plan
\* otherwise, or throw and lock nothing, as in the history that violates PlanWithinLedger.
LockIsReproducible ==
  (LockAccepted /\ faults = 0) =>
    /\ bundleFile = FreshBundle(planFile.policy)
    /\ \A p \in planFile.plans : \E c \in bundleFile :
         p \in FreshPlans(c, bundleFile, planFile.policy, p.ledger)

Plannable ==
  /\ ~DraftFails(policy)
  /\ \A c \in Drafts(policy) :
       IF c.kind = "reciprocal" THEN PlanPair(c, Resolved(c, {})) # {}
       ELSE FinalClaim(c, {}, policy) # {}

\* While every case can be drafted and planned whenever the script is started, starting it
\* again comes to an accepted snapshot, whatever evidence the provider hid and wherever a
\* run was killed (proof-planner.mjs 740-751, 58-64).
SnapshotCompletes == <>[](stage = "idle" => Plannable) => <>LockAccepted

=============================================================================
