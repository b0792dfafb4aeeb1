---------------------------- MODULE SnapshotProofs ----------------------------
(***************************************************************************)
(* Proofs about Snapshot for any histories, policies, number of workers    *)
(* and bounds.                                                             *)
(*                                                                         *)
(* An accepted snapshot is of one piece.  That the plans of a run share a  *)
(* root and a policy is not enough, because a plan may come from a         *)
(* checkpoint, the files on disk may come from different runs, and the     *)
(* child of a killed run may write over one of them: WholeInv says what    *)
(* each file holds, whoever wrote it.                                      *)
(*                                                                         *)
(* And it is reproducible: ReproInv compares checkpoints, drafts, memory,  *)
(* plans and plan file with what is computed from the history alone.       *)
(*                                                                         *)
(* Its plans prove what they should, and its checkpoints can be used.      *)
(* MadeInv says of every file and of memory what claims and plans are made *)
(* of, and of a saved claim that it can be planned again: whatever the     *)
(* first planning found, the claim it leaves is one whose settlements are  *)
(* all eligible, whose fundings are all kept and whose returns cover its   *)
(* volume, so that the second planning has nothing left to choose.         *)
(***************************************************************************)
EXTENDS SnapshotRules, MerkleProofs

\* Plans exist only from planning on, and have the root and the policy of the run.
PlansOfRun ==
  /\ stage \notin {"plan", "validate", "lock"} => plans = {}
  /\ \A p \in plans : p.root = final /\ p.policy = policy

\* A checkpoint is labelled with the policy its plan was made under.
SavedPlans == \A s \in planFiles : s.result = Torn \/ s.result.policy = s.policy

\* A plan file has a plan for each claim of its root, all of them for it.
WrittenPlan ==
  planFile \in {Nothing, Torn}
  \/ /\ Cardinality(planFile.plans) = Cardinality(planFile.root)
     /\ \A p \in planFile.plans : p.root = planFile.root /\ p.policy = planFile.policy

\* A lock is written for a bundle with every approved case.
WrittenLock ==
  /\ stage = "lock" => Cardinality(final) = Cardinality(history.cases)
  /\ lockFile \in {Nothing, Torn} \/ Cardinality(lockFile.root) = Cardinality(history.cases)

WholeInv == PlansOfRun /\ SavedPlans /\ WrittenPlan /\ WrittenLock

\* A plan carries the root and the policy it was made under.
LEMMA PlanLabels ==
  ASSUME NEW c, NEW lost, NEW p \in PlansOf(c, lost)
  PROVE  p.root = final /\ p.policy = policy
<1> DEFINE made == IF c.kind = "reciprocal" THEN PlanPair(c, Resolved(c, lost))
                   ELSE PlanLoop(c, c, c \in audited, FALSE, policy)
<1>1. \E q \in made :
        p = [claim |-> q.claim, fundings |-> q.fundings, settlements |-> q.settlements,
             returns |-> q.returns, root |-> final, policy |-> policy, ledger |-> c \in audited]
  <2> HIDE DEF made
  <2>1. PlansOf(c, lost) =
          {[claim |-> q.claim, fundings |-> q.fundings, settlements |-> q.settlements,
            returns |-> q.returns, root |-> final, policy |-> policy,
            ledger |-> c \in audited] : q \in made}
    BY Zenon DEF PlansOf, made
  <2> QED
    BY <2>1
<1> HIDE DEF made
<1> QED
  BY <1>1

\* A save adds one checkpoint to those there were.
LEMMA SaveAdds ==
  ASSUME NEW saves, NEW new, NEW s \in Save(saves, new)
  PROVE  s \in saves \/ s = new
  BY DEF Save

\* What no step of a run, no kill and nothing in between changes.
LEMMA HistoryFixed ==
  ASSUME [Next]_vars
  PROVE  history' = history
<1> USE DEF vars
<1>1. CASE UNCHANGED vars
  BY <1>1
<1>2. CASE Start \/ Kill \/ OrphanWrites \/ ChangePolicy \/ DeleteTorn
  BY <1>2 DEF Start, Kill, OrphanWrites, ChangePolicy, DeleteTorn
<1>3. CASE BuildBundle \/ ReadBundle \/ FinalizeNext \/ FinalizeEnds \/ WriteBundle
  BY <1>3 DEF BuildBundle, ReadBundle, FinalizeNext, ResumeClaim, FinalizeClaim, FinalizeFails,
              FinalizeEnds, WriteBundle
<1>4. CASE PlanNext \/ PlanEnds \/ Validate \/ WriteLock
  BY <1>4 DEF PlanNext, ResumePlan, MakePlan, WorkerThrows, PlanEnds, Validate, WriteLock
<1> QED
  BY <1>1, <1>2, <1>3, <1>4 DEF Next, Run

\* A step that ends with no plan, or with the plans there were under the same root and
\* policy, keeps PlansOfRun.
LEMMA PlansKept ==
  ASSUME PlansOfRun,
         \/ plans' = {}
         \/ /\ stage' \in {"plan", "validate", "lock"}
            /\ plans' = plans /\ final' = final /\ policy' = policy
  PROVE  PlansOfRun'
  BY DEF PlansOfRun

LEMMA WholeInit ==
  ASSUME Init
  PROVE  WholeInv
  BY DEF Init, WholeInv, PlansOfRun, SavedPlans, WrittenPlan, WrittenLock

-----------------------------------------------------------------------------
(* One lemma per part of the invariant *)

LEMMA PlansOfRunStep ==
  ASSUME WholeInv, [Next]_vars
  PROVE  PlansOfRun'
<1> USE DEF WholeInv
<1>1. CASE UNCHANGED vars
  BY <1>1 DEF vars, memory, PlansOfRun
<1>2. CASE Start
  BY <1>2, PlansKept DEF Start, memory, PlansOfRun
<1>3. CASE BuildBundle
  BY <1>3, PlansKept DEF BuildBundle, Exit, memory, PlansOfRun
<1>4. CASE ReadBundle
  BY <1>4, PlansKept DEF ReadBundle, PlansOfRun
<1>5. CASE FinalizeNext
  <2>1. PICK c \in pending : ResumeClaim(c) \/ FinalizeClaim(c) \/ FinalizeFails(c)
    BY <1>5 DEF FinalizeNext
  <2>2. plans = {}
    BY <1>5 DEF FinalizeNext, PlansOfRun
  <2>3. plans' = {}
    BY <2>1, <2>2 DEF ResumeClaim, FinalizeClaim, FinalizeFails, Exit
  <2> QED
    BY <2>3, PlansKept
<1>6. CASE FinalizeEnds
  BY <1>6, PlansKept DEF FinalizeEnds, memory, PlansOfRun
<1>7. CASE WriteBundle
  BY <1>7, PlansKept DEF WriteBundle, PlansOfRun
<1>8. CASE PlanNext
  <2>1. PICK c \in pending : ResumePlan(c) \/ MakePlan(c) \/ WorkerThrows(c)
    BY <1>8 DEF PlanNext
  <2>2. stage = "plan" /\ stage' = "plan" /\ final' = final /\ policy' = policy
    BY <1>8, <2>1 DEF PlanNext, ResumePlan, MakePlan, WorkerThrows
  <2>3. CASE ResumePlan(c)
    <3>1. PICK s \in planFiles : PlanResumes(c, s) /\ plans' = plans \cup {s.result}
      BY <2>3 DEF ResumePlan, Planned
    <3>2. s.result.root = final /\ s.result.policy = policy
      BY <3>1 DEF PlanResumes, SavedPlans
    <3> QED
      BY <2>2, <3>1, <3>2 DEF PlansOfRun
  <2>4. CASE MakePlan(c)
    <3>1. CASE plans' = plans
      BY <2>2, <3>1, PlansKept
    <3>2. CASE \E lost : \E plan \in PlansOf(c, lost) : plans' = plans \cup {plan}
      BY <2>2, <3>2, PlanLabels DEF PlansOfRun
    <3> QED
      BY <2>4, <3>1, <3>2 DEF MakePlan, Planned
  <2>5. CASE WorkerThrows(c)
    BY <2>2, <2>5, PlansKept DEF WorkerThrows
  <2> QED
    BY <2>1, <2>3, <2>4, <2>5
<1>9. CASE PlanEnds \/ Validate
  BY <1>9, PlansKept DEF PlanEnds, Validate, Exit, memory
<1>10. CASE WriteLock \/ Kill
  BY <1>10, PlansKept DEF WriteLock, Kill, Exit
<1>11. CASE OrphanWrites
  BY <1>11 DEF OrphanWrites, memory, PlansOfRun
<1>12. CASE ChangePolicy \/ DeleteTorn
  BY <1>12, PlansKept DEF ChangePolicy, DeleteTorn, memory, PlansOfRun
<1> QED
  BY <1>1, <1>2, <1>3, <1>4, <1>5, <1>6, <1>7, <1>8, <1>9, <1>10, <1>11, <1>12 DEF Next, Run

LEMMA SavedPlansStep ==
  ASSUME WholeInv, [Next]_vars
  PROVE  SavedPlans'
<1> USE DEF WholeInv
<1>1. CASE planFiles' \subseteq planFiles
  BY <1>1 DEF SavedPlans
<1>2. CASE \E S : TearPlans(S)
  <2>1. PICK S : TearPlans(S)
    BY <1>2
  <2>2. \A s \in planFiles' : s \in planFiles \/ s.result = Torn
    BY <2>1 DEF TearPlans
  <2> QED
    BY <2>2 DEF SavedPlans
<1>3. CASE \E c, lost : \E plan \in PlansOf(c, lost) :
             planFiles' = Save(planFiles, [source |-> c, policy |-> policy, result |-> plan])
  <2>1. PICK c, lost : \E plan \in PlansOf(c, lost) :
               planFiles' = Save(planFiles, [source |-> c, policy |-> policy, result |-> plan])
    BY <1>3
  <2>2. PICK plan \in PlansOf(c, lost) :
               planFiles' = Save(planFiles, [source |-> c, policy |-> policy, result |-> plan])
    BY <2>1
  <2>3. SUFFICES ASSUME NEW s \in planFiles' PROVE s.result = Torn \/ s.result.policy = s.policy
    BY DEF SavedPlans
  <2>4. s \in planFiles \/ s = [source |-> c, policy |-> policy, result |-> plan]
    BY <2>2, <2>3, SaveAdds
  <2>5. plan.policy = policy
    BY PlanLabels
  <2> QED
    BY <2>4, <2>5 DEF SavedPlans
<1>4. CASE UNCHANGED vars
  BY <1>1, <1>4 DEF vars, files
<1>5. CASE Start \/ OrphanWrites \/ ChangePolicy \/ DeleteTorn
  BY <1>1, <1>5 DEF Start, OrphanWrites, ChangePolicy, DeleteTorn, files
<1>6. CASE BuildBundle \/ ReadBundle \/ FinalizeNext \/ FinalizeEnds \/ WriteBundle
  BY <1>1, <1>6 DEF BuildBundle, ReadBundle, FinalizeNext, ResumeClaim, FinalizeClaim,
                    FinalizeFails, FinalizeEnds, WriteBundle, files
<1>7. CASE PlanNext
  <2>1. PICK c \in pending : ResumePlan(c) \/ MakePlan(c) \/ WorkerThrows(c)
    BY <1>7 DEF PlanNext
  <2>2. CASE ResumePlan(c) \/ WorkerThrows(c)
    BY <1>1, <2>2 DEF ResumePlan, WorkerThrows, files
  <2>3. CASE MakePlan(c)
    <3>1. \/ planFiles' = planFiles
          \/ \E lost : \E plan \in PlansOf(c, lost) :
               planFiles' = Save(planFiles, [source |-> c, policy |-> policy, result |-> plan])
      BY <2>3 DEF MakePlan
    <3> QED
      BY <1>1, <1>3, <3>1
  <2> QED
    BY <2>1, <2>2, <2>3
<1>8. CASE PlanEnds \/ Validate \/ WriteLock
  BY <1>1, <1>8 DEF PlanEnds, Validate, WriteLock, files
<1>9. CASE Kill
  BY <1>1, <1>2, <1>9 DEF Kill, KilledWriting, TearClaim, files
<1> QED
  BY <1>4, <1>5, <1>6, <1>7, <1>8, <1>9 DEF Next, Run

LEMMA WrittenPlanStep ==
  ASSUME WholeInv, [Next]_vars
  PROVE  WrittenPlan'
<1> USE DEF WholeInv
<1>1. CASE planFile' = planFile \/ planFile' = Torn
  BY <1>1 DEF WrittenPlan
<1>2. CASE UNCHANGED vars
  BY <1>1, <1>2 DEF vars, files
<1>3. CASE Start \/ OrphanWrites \/ ChangePolicy \/ DeleteTorn
  BY <1>1, <1>3 DEF Start, OrphanWrites, ChangePolicy, DeleteTorn, files
<1>4. CASE BuildBundle \/ ReadBundle \/ FinalizeNext \/ FinalizeEnds \/ WriteBundle
  BY <1>1, <1>4 DEF BuildBundle, ReadBundle, FinalizeNext, ResumeClaim, FinalizeClaim,
                    FinalizeFails, FinalizeEnds, WriteBundle, files
<1>5. CASE PlanNext \/ Validate \/ WriteLock
  BY <1>1, <1>5 DEF PlanNext, ResumePlan, MakePlan, WorkerThrows, Validate, WriteLock, files
<1>6. CASE Kill
  BY <1>1, <1>6 DEF Kill, KilledWriting, files
<1>7. CASE PlanEnds
  <2>1. CASE planFile' = planFile
    BY <1>1, <2>1
  <2>2. CASE /\ Cardinality(plans) = Cardinality(final)
             /\ planFile' = [policy |-> policy, root |-> final, plans |-> plans]
    BY <2>2 DEF WrittenPlan, PlansOfRun
  <2> QED
    BY <1>7, <2>1, <2>2 DEF PlanEnds
<1> QED
  BY <1>2, <1>3, <1>4, <1>5, <1>6, <1>7 DEF Next, Run

LEMMA WrittenLockStep ==
  ASSUME WholeInv, [Next]_vars
  PROVE  WrittenLock'
<1> USE DEF WholeInv
<1>1. history' = history
  BY HistoryFixed
<1>2. CASE /\ stage' # "lock" \/ (stage = "lock" /\ final' = final)
           /\ lockFile' = lockFile \/ lockFile' = Torn
  BY <1>1, <1>2 DEF WrittenLock
<1>3. CASE UNCHANGED vars
  BY <1>2, <1>3 DEF vars, files, memory
<1>4. CASE Start \/ ChangePolicy \/ DeleteTorn
  BY <1>2, <1>4 DEF Start, ChangePolicy, DeleteTorn, files
<1>5. CASE OrphanWrites
  BY <1>2, <1>5 DEF OrphanWrites, memory
<1>6. CASE BuildBundle \/ ReadBundle \/ FinalizeNext \/ FinalizeEnds \/ WriteBundle
  BY <1>2, <1>6 DEF BuildBundle, ReadBundle, FinalizeNext, ResumeClaim, FinalizeClaim,
                    FinalizeFails, FinalizeEnds, WriteBundle, Exit, files
<1>7. CASE PlanNext \/ PlanEnds
  BY <1>2, <1>7 DEF PlanNext, ResumePlan, MakePlan, WorkerThrows, PlanEnds, Exit, files
<1>8. CASE Validate
  <2>1. CASE InputsAgree
    <3>1. lockFile' = lockFile /\ final' = final
      BY <1>8, <2>1 DEF Validate, files, memory
    <3>2. Cardinality(final) = Cardinality(history.cases)
      BY <2>1 DEF InputsAgree
    <3> QED
      BY <1>1, <3>1, <3>2 DEF WrittenLock
  <2>2. CASE ~InputsAgree
    BY <1>2, <1>8, <2>2 DEF Validate, Exit, files
  <2> QED
    BY <2>1, <2>2
<1>9. CASE WriteLock
  BY <1>1, <1>9 DEF WriteLock, Exit, WrittenLock
<1>10. CASE Kill
  BY <1>2, <1>10 DEF Kill, KilledWriting, Exit, files
<1> QED
  BY <1>3, <1>4, <1>5, <1>6, <1>7, <1>8, <1>9, <1>10 DEF Next, Run

-----------------------------------------------------------------------------
LEMMA WholeStep ==
  ASSUME WholeInv, [Next]_vars
  PROVE  WholeInv'
  BY PlansOfRunStep, SavedPlansStep, WrittenPlanStep, WrittenLockStep DEF WholeInv

LEMMA WholeImplies ==
  ASSUME WholeInv
  PROVE  LockedSnapshotIsWhole
<1> SUFFICES ASSUME LockAccepted
             PROVE  /\ Cardinality(planFile.plans) = Cardinality(history.cases)
                    /\ \A p \in planFile.plans : p.root = bundleFile /\ p.policy = planFile.policy
  BY DEF LockedSnapshotIsWhole
<1>1. planFile \notin {Nothing, Torn} /\ lockFile \notin {Nothing, Torn}
  BY DEF LockAccepted
<1>2. lockFile.root = bundleFile /\ planFile.root = bundleFile
  BY DEF LockAccepted, PlanIsComplete
<1> QED
  BY <1>1, <1>2 DEF WholeInv, WrittenPlan, WrittenLock

\* In every behaviour, with any number of kills, torn files, orphaned builders, provider
\* faults and changes of the policy, a snapshot the consumer accepts has one plan for
\* each approved case, all for its report root and under the policy it names.
THEOREM SnapshotIsWhole == Spec => []LockedSnapshotIsWhole
<1>1. Init => WholeInv
  BY WholeInit
<1>2. WholeInv /\ [Next]_vars => WholeInv'
  BY WholeStep
<1>3. WholeInv => LockedSnapshotIsWhole
  BY WholeImplies
<1> QED
  BY <1>1, <1>2, <1>3, PTL DEF Spec

-----------------------------------------------------------------------------
(* What is computed from the history alone stays the same                  *)

LEMMA SameSelection ==
  ASSUME history' = history
  PROVE  \A s, f, v, a, b : SelectReturns(s, f, v, a, b)' = SelectReturns(s, f, v, a, b)
  BY DEF SelectReturns, ValidReturn, Precedes, SameTx, PathKeys, TransferKey, Entries, Retains,
         Credit, Time, Log, MapThenFoldSet

\* Payments, and everything found from them, are functions of the history.
LEMMA SamePayments ==
  ASSUME history' = history
  PROVE  \A s, f, v : Payments(s, f, v)' = Payments(s, f, v)
  BY DEF Payments, Prefix, Log, Keys, Transfers, Time, Retains

LEMMA SameDiscovery ==
  ASSUME history' = history, NEW s, NEW f, NEW v, NEW a, NEW b, NEW r
  PROVE  Discover(s, f, v, a, b, r)' = Discover(s, f, v, a, b, r)
<1>1. PICK found : found = Payments(s, f, v) /\ Payments(s, f, v)' = found
  BY SamePayments
<1> QED
  BY <1>1 DEF Discover, Finishes, BestFinish, PathKeys, TransferKey, Entries, Retains, Credit,
              Time, Log, Keys, Transfers, MapThenFoldSet

LEMMA SameLoopReturns ==
  ASSUME history' = history, NEW s, NEW f, NEW v, NEW a, NEW b
  PROVE  LoopReturns(s, f, v, a, b)' = LoopReturns(s, f, v, a, b)
<1>1. PICK known :
        known = {p \in DirectReturns(s, f) \cup KnownReturns(s, f) : Time(p.hops[1]) > a}
  OBVIOUS
<1>2. {p \in DirectReturns(s, f) \cup KnownReturns(s, f) : Time(p.hops[1]) > a}' = known
  BY <1>1 DEF DirectReturns, KnownReturns, Transfers, Keys, Log, Time, Located
<1>3. PICK required : required = RequiredReturn(v, b) /\ RequiredReturn(v, b)' = required
  BY DEF RequiredReturn
<1>4. PICK first : /\ first = SelectReturns(known, required, a, MaxReturns, {})
                   /\ SelectReturns(known, required, a, MaxReturns, {})' = first
  BY SameSelection
<1>5. PICK found :
        /\ found = Discover(s, f, a, required - first.returned,
                            MaxReturns - Cardinality(first.paths), first.used)
        /\ Discover(s, f, a, required - first.returned,
                    MaxReturns - Cardinality(first.paths), first.used)' = found
  BY SameDiscovery
<1>6. SelectReturns(first.paths \cup found, required, a, MaxReturns, {})'
        = SelectReturns(first.paths \cup found, required, a, MaxReturns, {})
  BY SameSelection
<1> QED
  BY <1>1, <1>2, <1>3, <1>4, <1>5, <1>6 DEF LoopReturns

LEMMA SameAmounts ==
  ASSUME history' = history
  PROVE  \A S : AmountOf(S)' = AmountOf(S)
  BY SMT DEF AmountOf, Log, MapThenSumSet, MapThenFoldSet

LEMMA SameDraftLoop ==
  ASSUME history' = history, NEW case, NEW bps
  PROVE  DraftLoop(case, bps)' = DraftLoop(case, bps)
<1>1. PICK fundings : fundings = LoopFundings(case) /\ LoopFundings(case)' = fundings
  <2>1. LoopFundings(case)' = LoopFundings(case)
    BY DEF LoopFundings, DepositRecords, Transfers, SameTx, Keys, Log
  <2> QED
    BY <2>1
<1>2. PICK settlements : /\ settlements = LoopSettlements(case, fundings)
                         /\ LoopSettlements(case, fundings)' = settlements
  BY DEF LoopSettlements, SettlementRows, Buyers, InPeriod, Keys, Log
<1>3. PICK counted : /\ counted = Counted(settlements, fundings)
                     /\ Counted(settlements, fundings)' = counted
  <2>1. Counted(settlements, fundings)' = Counted(settlements, fundings)
    BY DEF Counted, FundedTime, Min, Time, Log
  <2> QED
    BY <2>1
<1>4. PICK after : /\ after = Min({Time(i) : i \in counted})
                   /\ Min({Time(i) : i \in counted})' = after
  BY DEF Min, Time, Log
<1>5. PICK returns : /\ returns = LoopReturns(case.seller, case.funder, case.volume, after, bps)
                     /\ LoopReturns(case.seller, case.funder, case.volume, after, bps)' = returns
  BY SameLoopReturns
<1>6. AmountOf(counted)' = AmountOf(counted) /\ Buyers(fundings)' = Buyers(fundings)
  BY SameAmounts DEF Buyers
<1> QED
  BY <1>1, <1>2, <1>3, <1>4, <1>5, <1>6 DEF DraftLoop

LEMMA SameDrafts ==
  ASSUME history' = history, NEW bps
  PROVE  Drafts(bps)' = Drafts(bps)
<1>1. \A case : DraftLoop(case, bps)' = DraftLoop(case, bps)
  BY SameDraftLoop
<1>2. \A case : DraftPair(case)' = DraftPair(case)
  BY SMT DEF DraftPair, Sales, AmountOf, SettlementRows, DepositRecords, Transfers, InPeriod,
             SameTx, Keys, Log, MapThenSumSet, MapThenFoldSet
<1>3. \A case : Draft(case, bps)' = Draft(case, bps)
  BY <1>1, <1>2 DEF Draft
<1> QED
  BY <1>3 DEF Drafts

LEMMA SameFinalClaims ==
  ASSUME history' = history, NEW c, NEW bps
  PROVE  FinalClaim(c, {}, bps)' = FinalClaim(c, {}, bps)
  BY SMT DEF FinalClaim, PlanLoop, Resolved, ResolvedFundings, ResolvedSettlements,
             ResolvedReturns, Found, HopFound, DepositFound, DepositedLogs, IsDeposit, InPeriod,
             BalanceEnd, WithinCapacity, FundedIn, LedgerCapacity, WithinLedger, Plan,
             HasAnalysisVolume, Sales, AmountOf, SelfFunded, ValidRelayPath, Closure,
             ClosureSelected, ReturnCapacity, FundingsOf, Eligible, SelectSettlements,
             KeptFundings, ClosureOccursAfter, CoverageQualifies, Qualifies, ChosenReturns, Buyers,
             Located, SelectReturns, ValidReturn, Precedes, SameTx, PathKeys, TransferKey, Entries,
             Retains, Credit, Returned, RequiredReturn, Time, Transfers, Keys,
             Log, MapThenSumSet, MapThenFoldSet

LEMMA SameFreshBundle ==
  ASSUME history' = history, NEW bps
  PROVE  FreshBundle(bps)' = FreshBundle(bps)
  BY SameDrafts, SameFinalClaims DEF FreshBundle, Loops

-----------------------------------------------------------------------------
(* A claim is finalized in one way only *)

LEMMA OneChoice ==
  ASSUME NEW c, NEW d, NEW free, NEW bps, NEW x \in ChosenReturns(c, d, free, bps),
         NEW y \in ChosenReturns(c, d, free, bps)
  PROVE  x = y
  BY DEF ChosenReturns

LEMMA OnePlan ==
  ASSUME NEW c, NEW d, NEW ledger, NEW free, NEW bps, NEW p \in PlanLoop(c, d, ledger, free, bps),
         NEW q \in PlanLoop(c, d, ledger, free, bps)
  PROVE  p = q
<1> DEFINE select(paths) ==
             [returns |-> paths, settlements |-> SelectSettlements(d, paths, ledger, bps)]
           plan(s) == Plan([c EXCEPT !.volume = AmountOf(s.settlements)],
                           KeptFundings(d, s.settlements), s.settlements, s.returns)
           Made == {plan(select(paths)) : paths \in ChosenReturns(c, d, free, bps)}
<1>1. PlanLoop(c, d, ledger, free, bps) \subseteq Made
  BY DEF PlanLoop
<1>2. \A a, b \in Made : a = b
  <2> HIDE DEF plan, select
  <2> QED
    BY OneChoice
<1> QED
  BY <1>1, <1>2

LEMMA OneFinalClaim ==
  ASSUME NEW c, NEW lost, NEW bps, NEW x \in FinalClaim(c, lost, bps),
         NEW y \in FinalClaim(c, lost, bps)
  PROVE  x = y
<1> DEFINE result(p) ==
             [p.claim EXCEPT !.buyers = Buyers(p.fundings), !.fundings = p.fundings,
                             !.settlements = p.settlements, !.returns = p.returns]
           Made == {result(p) : p \in PlanLoop(c, Resolved(c, lost), TRUE, TRUE, bps)}
<1>1. FinalClaim(c, lost, bps) = Made
  BY DEF FinalClaim
<1>2. PICK d : d = Resolved(c, lost)
  OBVIOUS
<1>3. \A p, q \in PlanLoop(c, d, TRUE, TRUE, bps) : p = q
  BY OnePlan
<1>4. \A a, b \in Made : a = b
  <2> HIDE DEF result
  <2> QED
    BY <1>2, <1>3
<1> QED
  BY <1>1, <1>4

LEMMA DraftKinds ==
  ASSUME NEW bps, NEW c \in Drafts(bps)
  PROVE  c.kind \in {"closed-loop", "reciprocal"}
<1>1. PICK case \in history.cases : c \in Draft(case, bps)
  BY DEF Drafts
<1>2. CASE case.kind = "closed-loop"
  <2>1. c \in DraftLoop(case, bps)
    BY <1>1, <1>2 DEF Draft
  <2> QED
    BY <2>1 DEF DraftLoop
<1>3. CASE case.kind # "closed-loop"
  <2>1. c \in DraftPair(case)
    BY <1>1, <1>3 DEF Draft
  <2> QED
    BY <2>1 DEF DraftPair
<1> QED
  BY <1>2, <1>3

-----------------------------------------------------------------------------
(* While no fault has happened, files and memory hold what an undisturbed run computes *)

\* A claim that was saved is the one its draft is finalized to.
SavedAsComputed(s) == s.result = Torn \/ s.result \in FinalClaim(s.source, {}, s.policy)
SavedClaims == \A s \in claimFiles : SavedAsComputed(s)

\* Whoever writes the draft bundle writes the same one until the policy changes.
DraftsAgree ==
  /\ \A draft \in orphans : draft = Drafts(policy)
  /\ stage = "read" => bundleFile = Drafts(policy)

\* The claims that are not closed loops, and the final form of those of S.
FinalOf(S, bps) ==
  (Drafts(bps) \ Loops(Drafts(bps))) \cup UNION {FinalClaim(c, {}, bps) : c \in S}
Finalizing ==
  stage = "finalize" =>
    /\ pending \subseteq Loops(Drafts(policy))
    /\ final = FinalOf(Loops(Drafts(policy)) \ pending, policy)

FreshFiles ==
  /\ stage \in {"bundle", "plan", "validate", "lock"} => final = FreshBundle(policy)
  /\ planFile \in {Nothing, Torn} \/ planFile.root = FreshBundle(planFile.policy)

\* A plan that a run makes of a claim of its root when no log is hidden.
IsFresh(p) == \E c \in p.root : p \in FreshPlans(c, p.root, p.policy, p.ledger)
FreshMade ==
  /\ stage = "plan" => pending \subseteq final
  /\ \A p \in plans : IsFresh(p)
  /\ \A s \in planFiles : s.result = Torn \/ IsFresh(s.result)
  /\ planFile \in {Nothing, Torn} \/ \A p \in planFile.plans : IsFresh(p)

Undisturbed == SavedClaims /\ DraftsAgree /\ Finalizing /\ FreshFiles /\ FreshMade
ReproInv == faults \in Nat /\ (faults = 0 => Undisturbed)

LEMMA AllFinal ==
  ASSUME NEW bps
  PROVE  FinalOf(Loops(Drafts(bps)), bps) = FreshBundle(bps)
<1>1. \A c \in Drafts(bps) : c.kind = "closed-loop" \/ c.kind = "reciprocal"
  BY DraftKinds
<1>2. Drafts(bps) \ Loops(Drafts(bps)) = {c \in Drafts(bps) : c.kind = "reciprocal"}
  BY <1>1 DEF Loops
<1> QED
  BY <1>2 DEF FinalOf, FreshBundle

LEMMA SameFinalOf ==
  ASSUME history' = history
  PROVE  \A S, bps : FinalOf(S, bps)' = FinalOf(S, bps)
  BY SameDrafts, SameFinalClaims DEF FinalOf, Loops

LEMMA SameSaved ==
  ASSUME history' = history, NEW s
  PROVE  SavedAsComputed(s)' <=> SavedAsComputed(s)
<1>1. FinalClaim(s.source, {}, s.policy)' = FinalClaim(s.source, {}, s.policy)
  BY SameFinalClaims
<1> QED
  BY <1>1 DEF SavedAsComputed

\* A step that hides nothing leaves the number of faults alone.
LEMMA FaultCounted ==
  ASSUME faults \in Nat, NEW lost, Fault(lost)
  PROVE  faults' \in Nat /\ (faults' = 0 => faults = 0 /\ lost = {})
  BY DEF Fault

LEMMA FaultsStay ==
  ASSUME faults \in Nat, [Next]_vars
  PROVE  faults' \in Nat /\ (faults' = 0 => faults = 0)
<1>1. CASE faults' = faults \/ faults' = faults + 1
  BY <1>1
<1>2. CASE UNCHANGED vars
  BY <1>1, <1>2 DEF vars, bounds
<1>3. CASE Start \/ Kill \/ OrphanWrites \/ ChangePolicy \/ DeleteTorn
  BY <1>1, <1>3 DEF Start, Kill, OrphanWrites, ChangePolicy, DeleteTorn, bounds
<1>4. CASE \/ BuildBundle \/ ReadBundle \/ FinalizeEnds \/ WriteBundle
           \/ PlanEnds \/ Validate \/ WriteLock
  BY <1>1, <1>4 DEF BuildBundle, ReadBundle, FinalizeEnds, WriteBundle, PlanEnds, Validate,
                    WriteLock, bounds
<1>5. CASE FinalizeNext
  <2>1. PICK c \in pending : ResumeClaim(c) \/ FinalizeClaim(c) \/ FinalizeFails(c)
    BY <1>5 DEF FinalizeNext
  <2> QED
    BY <1>1, <2>1, FaultCounted DEF ResumeClaim, FinalizeClaim, FinalizeFails, bounds
<1>6. CASE PlanNext
  <2>1. PICK c \in pending : ResumePlan(c) \/ MakePlan(c) \/ WorkerThrows(c)
    BY <1>6 DEF PlanNext
  <2>2. CASE MakePlan(c)
    <3>1. \E lost : Fault(lost)
      BY <2>2 DEF MakePlan
    <3> QED
      BY <3>1, FaultCounted
  <2> QED
    BY <1>1, <2>1, <2>2 DEF ResumePlan, WorkerThrows, bounds
<1> QED
  BY <1>2, <1>3, <1>4, <1>5, <1>6 DEF Next, Run

LEMMA SavedClaimsStep ==
  ASSUME ReproInv, [Next]_vars, faults' = 0
  PROVE  SavedClaims'
<1>1. SavedClaims /\ faults \in Nat /\ history' = history
  BY FaultsStay, HistoryFixed DEF ReproInv, Undisturbed
<1>2. SUFFICES ASSUME NEW s \in claimFiles' PROVE s \in claimFiles \/ SavedAsComputed(s)
  <2>1. \A s \in claimFiles' : SavedAsComputed(s)
    BY <1>1, <1>2 DEF SavedClaims
  <2>2. \A s \in claimFiles' : SavedAsComputed(s)'
    BY <1>1, <2>1, SameSaved
  <2> QED
    BY <2>2 DEF SavedClaims
<1>3. CASE claimFiles' \subseteq claimFiles
  BY <1>3
<1>4. CASE \E c : TearClaim(c)
  BY <1>4, SaveAdds DEF TearClaim, SavedAsComputed
<1>5. CASE \E c \in pending : FinalizeClaim(c)
  <2>1. PICK c \in pending : FinalizeClaim(c)
    BY <1>5
  <2>2. PICK lost : /\ Fault(lost)
                    /\ \/ claimFiles' = claimFiles
                       \/ \E saved \in FinalClaim(c, lost, policy) :
                            claimFiles' = Save(claimFiles, [source |-> c, policy |-> policy,
                                                            result |-> saved])
    BY <2>1 DEF FinalizeClaim
  <2>3. lost = {}
    BY <1>1, <2>2, FaultCounted
  <2>4. CASE claimFiles' # claimFiles
    <3>1. PICK saved \in FinalClaim(c, {}, policy) :
            claimFiles' = Save(claimFiles, [source |-> c, policy |-> policy, result |-> saved])
      BY <2>2, <2>3, <2>4
    <3>2. s \in claimFiles \/ s = [source |-> c, policy |-> policy, result |-> saved]
      BY <3>1, SaveAdds
    <3> QED
      BY <3>2 DEF SavedAsComputed
  <2> QED
    BY <1>3, <2>4
<1>6. CASE UNCHANGED vars
  BY <1>3, <1>6 DEF vars, files
<1>7. CASE Start \/ OrphanWrites \/ ChangePolicy \/ DeleteTorn
  BY <1>3, <1>7 DEF Start, OrphanWrites, ChangePolicy, DeleteTorn, files
<1>8. CASE \/ BuildBundle \/ ReadBundle \/ FinalizeEnds \/ WriteBundle
           \/ PlanEnds \/ Validate \/ WriteLock
  BY <1>3, <1>8 DEF BuildBundle, ReadBundle, FinalizeEnds, WriteBundle, PlanEnds, Validate,
                    WriteLock, files
<1>9. CASE FinalizeNext
  <2>1. PICK c \in pending : ResumeClaim(c) \/ FinalizeClaim(c) \/ FinalizeFails(c)
    BY <1>9 DEF FinalizeNext
  <2> QED
    BY <1>3, <1>5, <2>1 DEF ResumeClaim, FinalizeFails, files
<1>10. CASE PlanNext
  <2>1. PICK c \in pending : ResumePlan(c) \/ MakePlan(c) \/ WorkerThrows(c)
    BY <1>10 DEF PlanNext
  <2> QED
    BY <1>3, <2>1 DEF ResumePlan, MakePlan, WorkerThrows, files
<1>11. CASE Kill
  BY <1>3, <1>4, <1>11 DEF Kill, KilledWriting, files
<1> QED
  BY <1>6, <1>7, <1>8, <1>9, <1>10, <1>11 DEF Next, Run

LEMMA DraftsAgreeStep ==
  ASSUME ReproInv, [Next]_vars, faults' = 0
  PROVE  DraftsAgree'
<1>1. DraftsAgree /\ history' = history
  BY FaultsStay, HistoryFixed DEF ReproInv, Undisturbed
<1>2. \A bps : Drafts(bps)' = Drafts(bps)
  BY <1>1, SameDrafts
<1>3. CASE /\ policy' = policy /\ orphans' \subseteq orphans
           /\ stage' = "read" => bundleFile' = Drafts(policy)
  BY <1>1, <1>2, <1>3 DEF DraftsAgree
<1>4. CASE UNCHANGED vars
  BY <1>1, <1>3, <1>4 DEF vars, files, DraftsAgree
<1>5. CASE Start \/ DeleteTorn \/ BuildBundle
  BY <1>3, <1>5 DEF Start, DeleteTorn, BuildBundle, Exit
<1>6. CASE ReadBundle \/ FinalizeEnds \/ WriteBundle \/ PlanEnds \/ Validate \/ WriteLock
  BY <1>3, <1>6 DEF ReadBundle, FinalizeEnds, WriteBundle, PlanEnds, Validate, WriteLock, Exit
<1>7. CASE FinalizeNext
  BY <1>3, <1>7 DEF FinalizeNext, ResumeClaim, FinalizeClaim, FinalizeFails, Exit
<1>8. CASE PlanNext
  BY <1>3, <1>8 DEF PlanNext, ResumePlan, MakePlan, WorkerThrows
<1>9. CASE Kill
  <2>1. policy' = policy /\ stage' = "idle"
    BY <1>9 DEF Kill, Exit
  <2>2. orphans' \subseteq orphans \cup {Drafts(policy)}
    BY <1>9 DEF Kill, KilledWriting
  <2> QED
    BY <1>1, <1>2, <2>1, <2>2 DEF DraftsAgree
<1>10. CASE OrphanWrites
  BY <1>1, <1>3, <1>10 DEF OrphanWrites, DraftsAgree
<1>11. CASE ChangePolicy
  BY <1>11 DEF ChangePolicy, DraftsAgree
<1> QED
  BY <1>4, <1>5, <1>6, <1>7, <1>8, <1>9, <1>10, <1>11 DEF Next, Run

\* One more closed loop is finalized, to the only claim it can be finalized to.
LEMMA OneMoreFinal ==
  ASSUME Finalizing, stage = "finalize", NEW c \in pending, NEW saved \in FinalClaim(c, {}, policy),
         Finalized(c, saved)
  PROVE  /\ pending' \subseteq Loops(Drafts(policy))
         /\ final' = FinalOf(Loops(Drafts(policy)) \ pending', policy)
<1> DEFINE all == Loops(Drafts(policy))
<1>1. pending \subseteq all /\ final = FinalOf(all \ pending, policy)
  BY DEF Finalizing
<1>2. pending' = pending \ {c} /\ final' = final \cup {saved}
  BY DEF Finalized
<1>3. all \ (pending \ {c}) = (all \ pending) \cup {c}
  BY <1>1
<1>4. FinalClaim(c, {}, policy) = {saved}
  BY OneFinalClaim
<1>5. FinalOf((all \ pending) \cup {c}, policy) = FinalOf(all \ pending, policy) \cup {saved}
  BY <1>4 DEF FinalOf
<1> QED
  BY <1>1, <1>2, <1>3, <1>5

LEMMA FinalizingStep ==
  ASSUME ReproInv, [Next]_vars, faults' = 0
  PROVE  Finalizing'
<1>1. Undisturbed /\ faults \in Nat /\ history' = history
  BY FaultsStay, HistoryFixed DEF ReproInv
<1>2. \A bps : Drafts(bps)' = Drafts(bps) /\ \A S : FinalOf(S, bps)' = FinalOf(S, bps)
  BY <1>1, SameDrafts, SameFinalOf
<1>3. CASE stage' # "finalize"
  BY <1>3 DEF Finalizing
<1>4. CASE /\ policy' = policy
           /\ pending' \subseteq Loops(Drafts(policy))
           /\ final' = FinalOf(Loops(Drafts(policy)) \ pending', policy)
  BY <1>2, <1>4 DEF Finalizing, Loops
<1>5. CASE UNCHANGED vars
  BY <1>1, <1>3, <1>4, <1>5 DEF vars, memory, Undisturbed, Finalizing
<1>6. CASE Start \/ ChangePolicy
  BY <1>3, <1>6 DEF Start, ChangePolicy
<1>7. CASE OrphanWrites \/ DeleteTorn
  BY <1>1, <1>3, <1>4, <1>7 DEF OrphanWrites, DeleteTorn, memory, Undisturbed, Finalizing
<1>8. CASE BuildBundle \/ FinalizeEnds \/ WriteBundle \/ PlanEnds \/ Validate \/ WriteLock
  BY <1>3, <1>8 DEF BuildBundle, FinalizeEnds, WriteBundle, PlanEnds, Validate, WriteLock, Exit
<1>9. CASE PlanNext \/ Kill
  BY <1>3, <1>9 DEF PlanNext, ResumePlan, MakePlan, WorkerThrows, Kill, Exit
<1>10. CASE ReadBundle
  <2>1. bundleFile = Drafts(policy)
    BY <1>1, <1>10 DEF ReadBundle, Undisturbed, DraftsAgree
  <2>2. /\ pending' = Loops(Drafts(policy)) /\ policy' = policy
        /\ final' = Drafts(policy) \ Loops(Drafts(policy))
    BY <1>10, <2>1 DEF ReadBundle
  <2>3. FinalOf(Loops(Drafts(policy)) \ pending', policy) = Drafts(policy) \ Loops(Drafts(policy))
    BY <2>2 DEF FinalOf
  <2> QED
    BY <1>4, <2>2, <2>3
<1>11. CASE FinalizeNext
  <2>1. PICK c \in pending : ResumeClaim(c) \/ FinalizeClaim(c) \/ FinalizeFails(c)
    BY <1>11 DEF FinalizeNext
  <2>2. stage = "finalize" /\ Finalizing /\ SavedClaims
    BY <1>1, <1>11 DEF FinalizeNext, Undisturbed
  <2>3. CASE ResumeClaim(c)
    <3>1. PICK s \in claimFiles : ClaimResumes(c, s) /\ Finalized(c, s.result)
      BY <2>3 DEF ResumeClaim
    <3>2. s.result \in FinalClaim(c, {}, policy)
      BY <2>2, <3>1 DEF ClaimResumes, Saved, SavedClaims, SavedAsComputed
    <3>3. policy' = policy
      BY <2>3 DEF ResumeClaim
    <3> QED
      BY <1>4, <2>2, <3>1, <3>2, <3>3, OneMoreFinal
  <2>4. CASE FinalizeClaim(c)
    <3>1. PICK lost : /\ Fault(lost)
                      /\ \/ \E saved \in FinalClaim(c, lost, policy) : Finalized(c, saved)
                         \/ stage' = "idle"
      BY <2>4 DEF FinalizeClaim, Exit
    <3>2. lost = {}
      BY <1>1, <3>1, FaultCounted
    <3>3. policy' = policy
      BY <2>4 DEF FinalizeClaim
    <3> QED
      BY <1>3, <1>4, <2>2, <3>1, <3>2, <3>3, OneMoreFinal
  <2>5. CASE FinalizeFails(c)
    BY <1>3, <2>5 DEF FinalizeFails, Exit
  <2> QED
    BY <2>1, <2>3, <2>4, <2>5
<1> QED
  BY <1>5, <1>6, <1>7, <1>8, <1>9, <1>10, <1>11 DEF Next, Run

LEMMA FreshFilesStep ==
  ASSUME ReproInv, [Next]_vars, faults' = 0
  PROVE  FreshFiles'
<1>1. Undisturbed /\ history' = history
  BY FaultsStay, HistoryFixed DEF ReproInv
<1>2. \A bps : FreshBundle(bps)' = FreshBundle(bps)
  BY <1>1, SameFreshBundle
<1>3. FreshFiles
  BY <1>1 DEF Undisturbed
<1>4. CASE /\ \/ stage' \notin {"bundle", "plan", "validate", "lock"}
              \/ policy' = policy /\ final' = FreshBundle(policy)
           /\ \/ planFile' = planFile \/ planFile' = Torn
              \/ planFile'.root = FreshBundle(planFile'.policy)
  BY <1>2, <1>3, <1>4 DEF FreshFiles
<1>5. CASE UNCHANGED vars
  BY <1>3, <1>4, <1>5 DEF vars, files, memory, FreshFiles
<1>6. CASE Start \/ ChangePolicy
  BY <1>4, <1>6 DEF Start, ChangePolicy, files
<1>7. CASE OrphanWrites \/ DeleteTorn
  BY <1>3, <1>4, <1>7 DEF OrphanWrites, DeleteTorn, memory, FreshFiles
<1>8. CASE BuildBundle \/ ReadBundle
  BY <1>4, <1>8 DEF BuildBundle, ReadBundle, Exit, files
<1>9. CASE FinalizeNext
  BY <1>4, <1>9 DEF FinalizeNext, ResumeClaim, FinalizeClaim, FinalizeFails, Exit, files
<1>10. CASE FinalizeEnds
  <2>1. final = FinalOf(Loops(Drafts(policy)) \ {}, policy)
    BY <1>1, <1>10 DEF FinalizeEnds, Undisturbed, Finalizing
  <2>2. final = FreshBundle(policy)
    BY <2>1, AllFinal
  <2> QED
    BY <1>4, <1>10, <2>2 DEF FinalizeEnds, memory, files
<1>11. CASE WriteBundle
  BY <1>3, <1>4, <1>11 DEF WriteBundle, FreshFiles
<1>12. CASE PlanNext
  BY <1>3, <1>4, <1>12 DEF PlanNext, ResumePlan, MakePlan, WorkerThrows, files, FreshFiles
<1>13. CASE PlanEnds
  BY <1>3, <1>4, <1>13 DEF PlanEnds, Exit, memory, FreshFiles
<1>14. CASE Validate \/ WriteLock
  BY <1>3, <1>4, <1>14 DEF Validate, WriteLock, Exit, memory, files, FreshFiles
<1>15. CASE Kill
  BY <1>4, <1>15 DEF Kill, KilledWriting, Exit, files
<1> QED
  BY <1>5, <1>6, <1>7, <1>8, <1>9, <1>10, <1>11, <1>12, <1>13, <1>14, <1>15 DEF Next, Run

LEMMA SameFreshPlans ==
  ASSUME history' = history, NEW c, NEW root, NEW bps, NEW ledger
  PROVE  FreshPlans(c, root, bps, ledger)' = FreshPlans(c, root, bps, ledger)
<1>1. PlanLoop(c, c, ledger, FALSE, bps)' = PlanLoop(c, c, ledger, FALSE, bps)
  BY SMT DEF PlanLoop, BalanceEnd, WithinCapacity, FundedIn, LedgerCapacity, WithinLedger, Plan,
             HasAnalysisVolume, Sales, AmountOf, SelfFunded, ValidRelayPath, Closure, InPeriod,
             ClosureSelected, ReturnCapacity, FundingsOf, Eligible, SelectSettlements,
             KeptFundings, ClosureOccursAfter, CoverageQualifies, Qualifies, ChosenReturns, Buyers,
             SelectReturns, ValidReturn, Precedes, SameTx, PathKeys, TransferKey, Entries,
             Retains, Credit, Returned, RequiredReturn, Time, Log, MapThenSumSet, MapThenFoldSet
<1>2. PlanPair(c, Resolved(c, {}))' = PlanPair(c, Resolved(c, {}))
  BY SMT DEF PlanPair, VolumesQualify, Resolved, ResolvedFundings, ResolvedSettlements,
             ResolvedReturns, Found, HopFound, DepositFound, DepositedLogs, IsDeposit, InPeriod,
             HasAnalysisVolume, Sales, AmountOf, Plan, Located, SameTx, Entries, Transfers, Keys,
             Time, Log, Min, Max, MapThenSumSet, MapThenFoldSet
<1> QED
  BY <1>1, <1>2 DEF FreshPlans

LEMMA SameFresh ==
  ASSUME history' = history, NEW p
  PROVE  IsFresh(p)' <=> IsFresh(p)
  BY SameFreshPlans DEF IsFresh

\* Planning a claim of the final bundle while nothing is hidden.
LEMMA MadeIsFresh ==
  ASSUME NEW c \in final, NEW p \in PlansOf(c, {})
  PROVE  IsFresh(p)
<1>1. p \in FreshPlans(c, final, policy, c \in audited)
  BY DEF PlansOf, FreshPlans
<1>2. PICK ledger : ledger = (c \in audited)
  OBVIOUS
<1>3. p \in FreshPlans(c, final, policy, ledger)
  BY <1>1, <1>2
<1>4. p.root = final /\ p.policy = policy /\ p.ledger = ledger
  <2> DEFINE made == IF c.kind = "reciprocal" THEN PlanPair(c, Resolved(c, {}))
                     ELSE PlanLoop(c, c, ledger, FALSE, policy)
  <2>1. FreshPlans(c, final, policy, ledger) =
          {[claim |-> q.claim, fundings |-> q.fundings, settlements |-> q.settlements,
            returns |-> q.returns, root |-> final, policy |-> policy, ledger |-> ledger] :
             q \in made}
    BY Zenon DEF FreshPlans, made
  <2> HIDE DEF made
  <2> QED
    BY <1>3, <2>1
<1> QED
  BY <1>3, <1>4 DEF IsFresh

LEMMA FreshMadeStep ==
  ASSUME ReproInv, [Next]_vars, faults' = 0
  PROVE  FreshMade'
<1>1. FreshMade /\ faults \in Nat /\ history' = history
  BY FaultsStay, HistoryFixed DEF ReproInv, Undisturbed
<1>2. \A p : IsFresh(p)' <=> IsFresh(p)
  BY <1>1, SameFresh
<1>3. CASE /\ stage' = "plan" => pending' \subseteq final'
           /\ \A p \in plans' : IsFresh(p)
           /\ \A s \in planFiles' : s \in planFiles \/ s.result = Torn \/ IsFresh(s.result)
           /\ \/ planFile' = planFile \/ planFile' = Torn
              \/ \A p \in planFile'.plans : IsFresh(p)
  BY <1>1, <1>2, <1>3 DEF FreshMade
<1>4. CASE UNCHANGED vars
  BY <1>1, <1>3, <1>4 DEF vars, files, memory, FreshMade
<1>5. CASE Start \/ ChangePolicy \/ OrphanWrites \/ DeleteTorn
  BY <1>1, <1>3, <1>5 DEF Start, ChangePolicy, OrphanWrites, DeleteTorn, files, memory, FreshMade
<1>6. CASE BuildBundle \/ ReadBundle \/ FinalizeEnds \/ WriteBundle
  BY <1>1, <1>3, <1>6 DEF BuildBundle, ReadBundle, FinalizeEnds, WriteBundle, Exit, files, memory,
                          FreshMade
<1>7. CASE FinalizeNext
  BY <1>1, <1>3, <1>7 DEF FinalizeNext, ResumeClaim, FinalizeClaim, FinalizeFails, Exit, files,
                          FreshMade
<1>8. CASE PlanNext
  <2>1. PICK c \in pending : ResumePlan(c) \/ MakePlan(c) \/ WorkerThrows(c)
    BY <1>8 DEF PlanNext
  <2>2. c \in final /\ pending' \subseteq final'
    BY <1>1, <1>8, <2>1 DEF PlanNext, ResumePlan, MakePlan, WorkerThrows, Planned, FreshMade
  <2>3. CASE ResumePlan(c)
    <3>1. PICK s \in planFiles : PlanResumes(c, s) /\ Planned(c, s.result)
      BY <2>3 DEF ResumePlan
    <3>2. IsFresh(s.result)
      BY <1>1, <3>1 DEF PlanResumes, FreshMade
    <3> QED
      BY <1>1, <1>3, <2>2, <2>3, <3>1, <3>2 DEF ResumePlan, Planned, files, FreshMade
  <2>4. CASE MakePlan(c)
    <3>1. PICK lost :
            /\ Fault(lost)
            /\ \/ \E plan \in PlansOf(c, lost) :
                    /\ Planned(c, plan)
                    /\ planFiles' =
                         Save(planFiles, [source |-> c, policy |-> policy, result |-> plan])
               \/ UNCHANGED <<planFiles, plans>>
      BY <2>4 DEF MakePlan
    <3>2. lost = {}
      BY <1>1, <3>1, FaultCounted
    <3>3. planFile' = planFile
      BY <2>4 DEF MakePlan
    <3>4. CASE UNCHANGED <<planFiles, plans>>
      BY <1>1, <1>3, <2>2, <3>3, <3>4 DEF FreshMade
    <3>5. CASE \E plan \in PlansOf(c, lost) :
                 /\ Planned(c, plan)
                 /\ planFiles' =
                      Save(planFiles, [source |-> c, policy |-> policy, result |-> plan])
      <4>1. PICK plan \in PlansOf(c, {}) :
                 /\ Planned(c, plan)
                 /\ planFiles' =
                      Save(planFiles, [source |-> c, policy |-> policy, result |-> plan])
        BY <3>2, <3>5
      <4>2. IsFresh(plan)
        BY <2>2, MadeIsFresh
      <4>3. \A s \in planFiles' : s \in planFiles \/ s.result = plan
        BY <4>1, SaveAdds
      <4>4. plans' = plans \cup {plan}
        BY <4>1 DEF Planned
      <4> QED
        BY <1>1, <1>3, <2>2, <3>3, <4>2, <4>3, <4>4 DEF FreshMade
    <3> QED
      BY <3>1, <3>4, <3>5
  <2>5. CASE WorkerThrows(c)
    BY <1>1, <1>3, <2>2, <2>5 DEF WorkerThrows, files, FreshMade
  <2> QED
    BY <2>1, <2>3, <2>4, <2>5
<1>9. CASE PlanEnds
  BY <1>1, <1>3, <1>9 DEF PlanEnds, Exit, memory, FreshMade
<1>10. CASE Validate \/ WriteLock
  BY <1>1, <1>3, <1>10 DEF Validate, WriteLock, Exit, memory, files, FreshMade
<1>11. CASE Kill
  <2>1. \A s \in planFiles' : s \in planFiles \/ s.result = Torn
    BY <1>11 DEF Kill, KilledWriting, TearPlans, files
  <2>2. planFile' = planFile \/ planFile' = Torn
    BY <1>11 DEF Kill, KilledWriting, files
  <2>3. stage' = "idle" /\ plans' = {}
    BY <1>11 DEF Kill, Exit
  <2> QED
    BY <1>3, <2>1, <2>2, <2>3
<1> QED
  BY <1>4, <1>5, <1>6, <1>7, <1>8, <1>9, <1>10, <1>11 DEF Next, Run

LEMMA ReproInit ==
  ASSUME Init
  PROVE  ReproInv
  BY DEF Init, ReproInv, Undisturbed, SavedClaims, DraftsAgree, Finalizing, FreshFiles, FreshMade

LEMMA ReproStep ==
  ASSUME ReproInv, [Next]_vars
  PROVE  ReproInv'
<1>1. faults' \in Nat
  BY FaultsStay DEF ReproInv
<1>2. faults' = 0 => Undisturbed'
  BY SavedClaimsStep, DraftsAgreeStep, FinalizingStep, FreshFilesStep, FreshMadeStep
     DEF Undisturbed
<1> QED
  BY <1>1, <1>2 DEF ReproInv

\* Unless the provider failed, whatever was killed, torn or resumed and however often the
\* policy changed, an accepted snapshot has the bundle that one undisturbed run writes under
\* the policy the plan names (README.md 180-181), and each of its plans is one that a run
\* makes of its claim out of the whole history, with the period-end balances or, if the claim
\* was resumed, without.
THEOREM SnapshotIsReproducible == Spec => []LockIsReproducible
<1>1. Init => ReproInv
  BY ReproInit
<1>2. ReproInv /\ [Next]_vars => ReproInv'
  BY ReproStep
<1>3. ReproInv /\ LockedSnapshotIsWhole => LockIsReproducible
  <2>1. SUFFICES ASSUME ReproInv, LockedSnapshotIsWhole, LockAccepted, faults = 0
                 PROVE  /\ bundleFile = FreshBundle(planFile.policy)
                        /\ \A p \in planFile.plans : \E c \in bundleFile :
                             p \in FreshPlans(c, bundleFile, planFile.policy, p.ledger)
    BY DEF LockIsReproducible
  <2>2. planFile \notin {Nothing, Torn} /\ planFile.root = bundleFile
    BY <2>1 DEF LockAccepted, PlanIsComplete
  <2>3. bundleFile = FreshBundle(planFile.policy)
    BY <2>1, <2>2 DEF ReproInv, Undisturbed, FreshFiles
  <2>4. \A p \in planFile.plans : p.root = bundleFile /\ p.policy = planFile.policy
    BY <2>1 DEF LockedSnapshotIsWhole
  <2>5. \A p \in planFile.plans : IsFresh(p)
    BY <2>1, <2>2 DEF ReproInv, Undisturbed, FreshMade
  <2> QED
    BY <2>3, <2>4, <2>5 DEF IsFresh
<1>4. Spec => []LockedSnapshotIsWhole
  BY SnapshotIsWhole
<1> QED
  BY <1>1, <1>2, <1>3, <1>4, PTL DEF Spec

-----------------------------------------------------------------------------
(* Keys, and settlements that fit *)

\* The history planned in is a history.
TypedHistory == IsHistory(history)

LEMMA KeysFinite ==
  ASSUME TypedHistory
  PROVE  IsFiniteSet(Keys) /\ Keys \in SUBSET Nat
<1>1. PICK n \in Nat : n = Len(history.logs)
  BY DEF TypedHistory, IsHistory
<1>2. Keys = 1 .. n
  BY <1>1 DEF Keys
<1>3. 1 \in Int /\ n \in Int
  OBVIOUS
<1>4. IsFiniteSet(1 .. n)
  BY <1>3, FS_Interval
<1> QED
  BY <1>2, <1>4

LEMMA LogTypes ==
  ASSUME TypedHistory
  PROVE  \A i \in Keys : Log(i) \in Logs /\ Time(i) \in Nat /\ Log(i).amount \in Nat
<1>1. history.logs \in Seq(Logs)
  BY DEF TypedHistory, IsHistory
<1>2. \A i \in Keys : history.logs[i] \in Logs
  <2> HIDE DEF Logs
  <2> QED
    BY <1>1 DEF Keys
<1> QED
  BY <1>2 DEF Log, Time, Logs

\* What is greatest, or least, of finitely many numbers.
LEMMA MaxIn ==
  ASSUME NEW S \in SUBSET Int, IsFiniteSet(S), S # {}
  PROVE  Max(S) \in S /\ \A x \in S : x <= Max(S)
<1> DEFINE R == {pq \in S \X S : pq[1] >= pq[2]}
<1>1. \A x, y \in S : <<x, y>> \in R <=> x >= y
  OBVIOUS
<1>2. /\ \A x, y \in S : <<x, y>> \in R \/ <<y, x>> \in R
      /\ \A x, y, z \in S : <<x, y>> \in R /\ <<y, z>> \in R => <<x, z>> \in R
  <2> HIDE DEF R
  <2> QED
    BY <1>1
<1>3. \E x \in S : \A y \in S : <<x, y>> \in R
  <2> HIDE DEF R
  <2>1. \A s \in SUBSET S : s # {} => \E x \in s : \A y \in s : <<x, y>> \in R
    BY <1>2, Extreme
  <2> QED
    BY <2>1
<1>4. \E x \in S : \A y \in S : x >= y
  <2> HIDE DEF R
  <2> QED
    BY <1>1, <1>3
<1>5. Max(S) \in S /\ \A x \in S : Max(S) >= x
  BY <1>4 DEF Max
<1> QED
  BY <1>5

LEMMA MinIn ==
  ASSUME NEW S \in SUBSET Nat, S # {}
  PROVE  Min(S) \in S /\ \A x \in S : Min(S) <= x
<1>1. \E x \in S : \A y \in S : x <= y
  BY Least
<1> QED
  BY <1>1 DEF Min

\* One settlement is counted, if it fits what is left.
TakeUp(i, kept) ==
  IF Log(i).amount > kept.left THEN kept
  ELSE [chosen |-> kept.chosen \cup {i}, left |-> kept.left - Log(i).amount]

\* The recursion of WithinCapacity: h gives what is kept of each subset of S.
FillsUp(S, capacity, h) ==
  h = [s \in SUBSET S |-> IF s = {} THEN [chosen |-> {}, left |-> capacity]
                          ELSE TakeUp(Max(s), h[s \ {Max(s)}])]

\* It has a solution, which is what WithinCapacity chooses.
LEMMA FillsExist ==
  ASSUME TypedHistory, NEW S \in SUBSET Keys, NEW capacity \in Int
  PROVE  \E h : FillsUp(S, capacity, h)
<1> DEFINE V == [chosen : SUBSET S, left : Int]
           pick == [s \in SUBSET S |-> Max(s)]
           step == [pv \in S \X V |-> TakeUp(pv[1], pv[2])]
           base == [chosen |-> {}, left |-> capacity]
<1>1. IsFiniteSet(S) /\ \A s \in SUBSET S : s # {} => Max(s) \in s
  BY KeysFinite, FS_Subset, MaxIn
<1>2. Picks(S, pick)
  BY <1>1 DEF Picks
<1>3. step \in [S \X V -> V]
  <2> SUFFICES ASSUME NEW i \in S, NEW v \in V PROVE TakeUp(i, v) \in V
    OBVIOUS
  <2>1. Log(i).amount \in Nat
    BY LogTypes
  <2> QED
    BY <2>1 DEF TakeUp
<1>4. base \in V
  OBVIOUS
<1>5. PICK h : Folds(SUBSET S, pick, step, base, h)
  <2> HIDE DEF pick, step, base
  <2> QED
    BY <1>1, <1>2, FoldsExist
<1>6. \A s \in SUBSET S : h[s] \in V
  <2> HIDE DEF V, pick, step, base
  <2> QED
    BY <1>1, <1>2, <1>3, <1>4, <1>5, FoldsType
<1>7. \A s \in SUBSET S : s # {} =>
        step[<<pick[s], h[s \ {pick[s]}]>>] = TakeUp(Max(s), h[s \ {Max(s)}])
  <2> SUFFICES ASSUME NEW s \in SUBSET S, s # {}
               PROVE  step[<<pick[s], h[s \ {pick[s]}]>>] = TakeUp(Max(s), h[s \ {Max(s)}])
    OBVIOUS
  <2>1. PICK x \in S : x = Max(s)
    BY <1>1
  <2>2. PICK v \in V : v = h[s \ {x}]
    BY <1>6
  <2>3. pick[s] = x
    BY <2>1
  <2> HIDE DEF V, pick
  <2>4. step[<<x, v>>] = TakeUp(x, v)
    OBVIOUS
  <2> HIDE DEF step
  <2> QED
    BY <2>1, <2>2, <2>3, <2>4
<1>8. FillsUp(S, capacity, h)
  <2> HIDE DEF pick, step
  <2> QED
    BY <1>5, <1>7 DEF Folds, FillsUp
<1> QED
  BY <1>8

LEMMA CapacityTable ==
  ASSUME TypedHistory, NEW S \in SUBSET Keys, NEW capacity \in Int
  PROVE  \E h : /\ FillsUp(S, capacity, h) /\ WithinCapacity(S, capacity) = h[S].chosen
<1> DEFINE Table(h) == h = [s \in SUBSET S |-> IF s = {} THEN [chosen |-> {}, left |-> capacity]
                              ELSE IF Log(Max(s)).amount > h[s \ {Max(s)}].left THEN h[s \ {Max(s)}]
                              ELSE [chosen |-> h[s \ {Max(s)}].chosen \cup {Max(s)},
                                    left |-> h[s \ {Max(s)}].left - Log(Max(s)).amount]]
           iter == CHOOSE h : Table(h)
<1>1. WithinCapacity(S, capacity) = iter[S].chosen
  BY DEF WithinCapacity, MapThenFoldSet
<1>2. \A h : Table(h) <=> FillsUp(S, capacity, h)
  BY DEF FillsUp, TakeUp
<1>3. \E h : Table(h)
  <2> HIDE DEF Table
  <2> QED
    BY <1>2, FillsExist
<1>4. Table(iter)
  <2> HIDE DEF Table
  <2> QED
    BY <1>3
<1> QED
  <2> HIDE DEF Table, iter
  <2> QED
    BY <1>1, <1>2, <1>4

\* The solution, subset by subset.
FilledInOrder(S, capacity, h) ==
  /\ h[{}] = [chosen |-> {}, left |-> capacity]
  /\ \A s \in SUBSET S : s # {} =>
       Max(s) \in s /\ h[s] = TakeUp(Max(s), h[s \ {Max(s)}])

LEMMA FillsStep ==
  ASSUME TypedHistory, NEW S \in SUBSET Keys, NEW capacity, NEW h, FillsUp(S, capacity, h)
  PROVE  FilledInOrder(S, capacity, h)
<1>1. \A s \in SUBSET S : s # {} => Max(s) \in s
  BY KeysFinite, FS_Subset, MaxIn
<1> QED
  BY <1>1 DEF FillsUp, FilledInOrder

\* Settlements within a capacity are some of those there are,
LEMMA CapacityPart ==
  ASSUME TypedHistory, NEW S \in SUBSET Keys, NEW capacity \in Int
  PROVE  WithinCapacity(S, capacity) \in SUBSET S
<1>1. PICK h : FillsUp(S, capacity, h) /\ WithinCapacity(S, capacity) = h[S].chosen
  BY CapacityTable
<1> DEFINE T == {s \in SUBSET S : h[s].chosen \in SUBSET s}
           pick == [s \in SUBSET S |-> Max(s)]
<1>20. FilledInOrder(S, capacity, h)
  BY <1>1, FillsStep
<1>2. \A s \in SUBSET S : s # {} =>
        Max(s) \in s /\ h[s] = TakeUp(Max(s), h[s \ {Max(s)}])
  BY <1>20 DEF FilledInOrder
<1>3. {} \in T
  BY <1>20 DEF FilledInOrder
<1>4. ASSUME NEW s \in SUBSET S, s # {} /\ s \ {pick[s]} \in T PROVE s \in T
  <2>1. PICK x \in s : x = Max(s)
    BY <1>2, <1>4
  <2>2. h[s \ {x}].chosen \in SUBSET (s \ {x}) /\ h[s] = TakeUp(x, h[s \ {x}])
    BY <1>2, <1>4, <2>1
  <2> QED
    BY <2>2 DEF TakeUp
<1>5. IsFiniteSet(S) /\ Picks(S, pick)
  BY <1>2, KeysFinite, FS_Subset DEF Picks
<1>6. \A s \in SUBSET S : s \in T
  <2> HIDE DEF T, pick
  <2> QED
    BY <1>3, <1>4, <1>5, SetInduct
<1> QED
  BY <1>1, <1>6

amounts == [i \in Keys |-> Log(i).amount]

\* The recursion of a sum by MapThenSumSet is that of a sum of a function.
LEMMA AmountIsSum ==
  ASSUME TypedHistory, NEW S \in SUBSET Keys
  PROVE  AmountOf(S) = SumOver(amounts, S)
<1> DEFINE Table(h) == h = [s \in SUBSET S |-> IF s = {} THEN 0
                              ELSE Log(CHOOSE x \in s : TRUE).amount + h[s \ {CHOOSE x \in s : TRUE}]]
           iter == CHOOSE h : Table(h)
           g == [i \in S |-> amounts[i]]
           Solves(h) == h = [s \in SUBSET S |-> IF s = {} THEN 0
                              ELSE g[CHOOSE x \in s : TRUE] + h[s \ {CHOOSE x \in s : TRUE}]]
           sums == CHOOSE h : Solves(h)
<1>1. AmountOf(S) = iter[S]
  BY DEF AmountOf, MapThenSumSet, MapThenFoldSet
<1>2. SumOver(amounts, S) = sums[S]
  BY DEF SumOver, SumFunction, SumFunctionOnSet, FoldFunctionOnSet, MapThenFoldSet
<1>3. \A s \in SUBSET S : s # {} => g[CHOOSE x \in s : TRUE] = Log(CHOOSE x \in s : TRUE).amount
  BY DEF amounts
<1>4. \A h : Table(h) <=> Solves(h)
  <2> HIDE DEF g
  <2> QED
    BY <1>3
<1>5. iter = sums
  <2> HIDE DEF Table, Solves
  <2> QED
    BY <1>4
<1> QED
  BY <1>1, <1>2, <1>5

\* Amounts of settlements add up to numbers, one at a time.
LEMMA AmountsTyped ==
  ASSUME TypedHistory
  PROVE  /\ amounts \in [Keys -> Nat] /\ IsFiniteSet(Keys)
         /\ \A S \in SUBSET Keys : AmountOf(S) \in Nat /\ AmountOf(S) = SumOver(amounts, S)
<1>1. amounts \in [Keys -> Nat]
  BY LogTypes DEF amounts
<1>2. IsFiniteSet(Keys)
  BY KeysFinite
<1>3. \A S \in SUBSET Keys : AmountOf(S) = SumOver(amounts, S)
  BY AmountIsSum
<1>4. \A S \in SUBSET Keys : SumOver(amounts, S) \in Nat
  BY <1>1, <1>2, SumOverType
<1> QED
  BY <1>1, <1>2, <1>3, <1>4

LEMMA AmountOfMore ==
  ASSUME TypedHistory, NEW s \in SUBSET Keys, NEW x \in s
  PROVE  SumOver(amounts, s) = SumOver(amounts, s \ {x}) + Log(x).amount
<1>1. PICK t : t = s \ {x}
  OBVIOUS
<1>2. t \in SUBSET Keys /\ x \in Keys \ t /\ s = t \cup {x}
  BY <1>1
<1>3. SumOver(amounts, t \cup {x}) = SumOver(amounts, t) + amounts[x]
  BY <1>2, AmountsTyped, SumOverMore
<1>4. amounts[x] = Log(x).amount
  BY DEF amounts
<1> QED
  BY <1>1, <1>2, <1>3, <1>4

\* and where the capacity is enough for all of them they are all kept.
LEMMA CapacityAll ==
  ASSUME TypedHistory, NEW S \in SUBSET Keys, NEW capacity \in Int, AmountOf(S) <= capacity
  PROVE  WithinCapacity(S, capacity) = S
<1>1. PICK h : FillsUp(S, capacity, h) /\ WithinCapacity(S, capacity) = h[S].chosen
  BY CapacityTable
<1> DEFINE T == {s \in SUBSET S : h[s].chosen = s /\ h[s].left = capacity - SumOver(amounts, s)}
           pick == [s \in SUBSET S |-> Max(s)]
<1>20. FilledInOrder(S, capacity, h)
  BY <1>1, FillsStep
<1>2. \A s \in SUBSET S : s # {} =>
        Max(s) \in s /\ h[s] = TakeUp(Max(s), h[s \ {Max(s)}])
  BY <1>20 DEF FilledInOrder
<1>3. {} \in T
  BY <1>20, SumOverNone DEF FilledInOrder
<1>4. ASSUME NEW s \in SUBSET S, s # {} /\ s \ {pick[s]} \in T PROVE s \in T
  <2>1. PICK x \in s : x = Max(s)
    BY <1>2, <1>4
  <2>2. PICK k : k = h[s \ {x}]
    OBVIOUS
  <2>3. h[s] = TakeUp(x, k)
    BY <1>2, <1>4, <2>1, <2>2
  <2>4. PICK a \in Nat : a = SumOver(amounts, s \ {x})
    BY AmountsTyped
  <2>5. PICK m \in Nat : m = Log(x).amount
    BY LogTypes
  <2>6. k.chosen = s \ {x} /\ k.left = capacity - a
    BY <1>4, <2>1, <2>2, <2>4
  <2>7. SumOver(amounts, s) = a + m
    BY <2>4, <2>5, AmountOfMore
  <2>8. SumOver(amounts, s) <= SumOver(amounts, S) /\ SumOver(amounts, S) <= capacity
    BY AmountsTyped, SumOverPart
  <2>9. SumOver(amounts, S) \in Nat
    BY AmountsTyped
  <2>10. ~(m > capacity - a)
    BY <2>7, <2>8, <2>9
  <2>11. h[s] = [chosen |-> k.chosen \cup {x}, left |-> k.left - m]
    BY <2>3, <2>5, <2>6, <2>10 DEF TakeUp
  <2>12. h[s].chosen = s /\ h[s].left = capacity - SumOver(amounts, s)
    BY <2>6, <2>7, <2>11
  <2> QED
    BY <2>12
<1>5. IsFiniteSet(S) /\ Picks(S, pick)
  BY <1>2, KeysFinite, FS_Subset DEF Picks
<1>6. \A s \in SUBSET S : s \in T
  <2> HIDE DEF T, pick
  <2> QED
    BY <1>3, <1>4, <1>5, SetInduct
<1> QED
  BY <1>1, <1>6

paid(F) == [f \in F |-> Log(f.transfer).amount]

\* Fundings add up to numbers.
LEMMA FundedIsSum ==
  ASSUME TypedHistory, NEW F, \A f \in F : f.transfer \in Keys
  PROVE  FundedIn(F) = SumFunction(paid(F))
<1> DEFINE Table(h) == h = [s \in SUBSET F |-> IF s = {} THEN 0
                              ELSE Log((CHOOSE x \in s : TRUE).transfer).amount
                                   + h[s \ {CHOOSE x \in s : TRUE}]]
           iter == CHOOSE h : Table(h)
           g == paid(F)
           Solves(h) == h = [s \in SUBSET F |-> IF s = {} THEN 0
                              ELSE g[CHOOSE x \in s : TRUE] + h[s \ {CHOOSE x \in s : TRUE}]]
           sums == CHOOSE h : Solves(h)
<1>1. FundedIn(F) = iter[F]
  BY DEF FundedIn, MapThenSumSet, MapThenFoldSet
<1>0. DOMAIN g = F
  BY DEF paid
<1>2. SumFunction(g) = sums[F]
  <2> HIDE DEF g
  <2> QED
    BY <1>0 DEF SumFunction, SumFunctionOnSet, FoldFunctionOnSet, MapThenFoldSet
<1>3. \A s \in SUBSET F : s # {} =>
        g[CHOOSE x \in s : TRUE] = Log((CHOOSE x \in s : TRUE).transfer).amount
  BY DEF paid
<1>4. \A h : Table(h) <=> Solves(h)
  <2> HIDE DEF g
  <2> QED
    BY <1>3
<1>5. iter = sums
  <2> HIDE DEF Table, Solves
  <2> QED
    BY <1>4
<1> QED
  BY <1>1, <1>2, <1>5

LEMMA FundedType ==
  ASSUME TypedHistory, NEW F, IsFiniteSet(F), \A f \in F : f.transfer \in Keys
  PROVE  FundedIn(F) \in Nat
<1>1. paid(F) \in [F -> Nat]
  BY LogTypes DEF paid
<1> QED
  BY <1>1, FundedIsSum, SumType

LEMMA LedgerCapacityType ==
  ASSUME TypedHistory, NEW F, IsFiniteSet(F), \A f \in F : f.transfer \in Keys,
         NEW balance \in Nat, NEW S
  PROVE  LedgerCapacity(F, balance, S) \in Nat
<1>1. PICK G : G = {f \in F : f.transfer < Max(S)}
  OBVIOUS
<1>2. IsFiniteSet(G) /\ \A f \in G : f.transfer \in Keys
  BY <1>1, FS_Subset
<1>3. PICK n \in Nat : n = FundedIn(G)
  BY <1>2, FundedType
<1>4. PICK e \in Int : e = (n * 10500) \div 10000 - balance
  OBVIOUS
<1>5. LedgerCapacity(F, balance, S) = Max({0, e})
  BY <1>1, <1>3, <1>4 DEF LedgerCapacity
<1>6. Max({0, e}) \in {0, e} /\ 0 <= Max({0, e})
  <2>1. IsFiniteSet({0, e}) /\ {0, e} \in SUBSET Int /\ {0, e} # {} /\ 0 \in {0, e}
    <3>1. IsFiniteSet({0} \cup {e})
      BY FS_Singleton, FS_Union
    <3>2. {0} \cup {e} = {0, e}
      OBVIOUS
    <3> QED
      BY <3>1, <3>2
  <2> QED
    BY <2>1, MaxIn
<1> QED
  BY <1>5, <1>6

\* What is kept of a buyer's settlements when the capacity is taken once more.
Trim(F, balance, before) ==
  IF before = {} THEN {} ELSE WithinCapacity(before, LedgerCapacity(F, balance, before))

\* The recursion of WithinLedger, with n turns.
Trims(F, balance, S, n, t) ==
  t = [k \in 0 .. n |-> IF k = 0 THEN S ELSE Trim(F, balance, t[k - 1])]

TrimmedInTurn(F, balance, S, n, t) ==
  t[0] = S /\ \A k \in 1 .. n : t[k] = Trim(F, balance, t[k - 1])

LEMMA TrimStep ==
  ASSUME NEW F, NEW balance, NEW S, NEW n \in Nat, NEW t, Trims(F, balance, S, n, t)
  PROVE  TrimmedInTurn(F, balance, S, n, t)
BY DEF Trims, TrimmedInTurn

LEMMA TrimsExist ==
  ASSUME NEW F, NEW balance, NEW S, NEW n \in Nat
  PROVE  \E t : Trims(F, balance, S, n, t)
<1> DEFINE T == {k \in Nat : \E t : Trims(F, balance, S, k, t)}
<1>1. 0 \in T
  <2>1. Trims(F, balance, S, 0, [k \in 0 .. 0 |-> S])
    BY DEF Trims
  <2> QED
    BY <2>1
<1>2. \A m \in Nat : m \in T => m + 1 \in T
  <2> SUFFICES ASSUME NEW m \in Nat, m \in T PROVE \E t : Trims(F, balance, S, m + 1, t)
    OBVIOUS
  <2>1. PICK t : Trims(F, balance, S, m, t)
    OBVIOUS
  <2>2. PICK u : u = [k \in 0 .. m + 1 |-> IF k = m + 1 THEN Trim(F, balance, t[m]) ELSE t[k]]
    OBVIOUS
  <2>3. \A k \in 0 .. m : u[k] = t[k]
    BY <2>2
  <2>4. t[0] = S /\ \A k \in 1 .. m : t[k] = Trim(F, balance, t[k - 1])
    <3>1. TrimmedInTurn(F, balance, S, m, t)
      BY <2>1, TrimStep
    <3> QED
      BY <3>1 DEF TrimmedInTurn
  <2>5. u[m + 1] = Trim(F, balance, u[m]) /\ u[0] = S
    BY <2>2, <2>3, <2>4
  <2>6. \A k \in 1 .. m : u[k] = Trim(F, balance, u[k - 1])
    BY <2>3, <2>4
  <2>7. \A k \in 0 .. m + 1 : u[k] = IF k = 0 THEN S ELSE Trim(F, balance, u[k - 1])
    BY <2>5, <2>6
  <2>8. Trims(F, balance, S, m + 1, u)
    BY <2>2, <2>7 DEF Trims
  <2> QED
    BY <2>8
<1>3. \A m \in Nat : m \in T
  <2> HIDE DEF T
  <2> QED
    BY <1>1, <1>2, Induct
<1> QED
  BY <1>3

LEMMA LedgerTable ==
  ASSUME NEW F, NEW balance, NEW S, Cardinality(S) \in Nat
  PROVE  \E t : /\ Trims(F, balance, S, Cardinality(S), t)
               /\ WithinLedger(S, F, balance) = t[Cardinality(S)]
<1> DEFINE Solves(t) == t = [n \in 0 .. Cardinality(S) |->
                              IF n = 0 THEN S
                              ELSE IF t[n - 1] = {} THEN {}
                              ELSE WithinCapacity(t[n - 1], LedgerCapacity(F, balance, t[n - 1]))]
           kept == CHOOSE t : Solves(t)
<1>1. WithinLedger(S, F, balance) = kept[Cardinality(S)]
  BY DEF WithinLedger
<1>2. \A t : Solves(t) <=> Trims(F, balance, S, Cardinality(S), t)
  BY DEF Trims, Trim
<1>3. Solves(kept)
  <2>1. \E t : Solves(t)
    <3> HIDE DEF Solves
    <3> QED
      BY <1>2, TrimsExist
  <2> HIDE DEF Solves
  <2> QED
    BY <2>1
<1> QED
  <2> HIDE DEF Solves, kept
  <2> QED
    BY <1>1, <1>2, <1>3

\* Settlements within a ledger are some of those there are.
LEMMA LedgerPart ==
  ASSUME TypedHistory, NEW S \in SUBSET Keys, NEW balance \in Nat,
         NEW F, IsFiniteSet(F), \A f \in F : f.transfer \in Keys
  PROVE  WithinLedger(S, F, balance) \in SUBSET S
<1>1. PICK n \in Nat : n = Cardinality(S)
  BY KeysFinite, FS_Subset, FS_CardinalityType
<1>2. PICK t : Trims(F, balance, S, n, t) /\ WithinLedger(S, F, balance) = t[n]
  BY <1>1, LedgerTable
<1>3. t[0] = S /\ \A k \in 1 .. n : t[k] = Trim(F, balance, t[k - 1])
  <2>1. TrimmedInTurn(F, balance, S, n, t)
    BY <1>2, TrimStep
  <2> QED
    BY <2>1 DEF TrimmedInTurn
<1> DEFINE T == {k \in Nat : k <= n => t[k] \in SUBSET S}
<1>4. 0 \in T
  BY <1>3
<1>5. ASSUME NEW k \in Nat, k \in T PROVE k + 1 \in T
  <2> SUFFICES ASSUME k + 1 <= n PROVE t[k + 1] \in SUBSET S
    OBVIOUS
  <2>1. PICK s \in SUBSET S : s = t[k]
    BY <1>5
  <2>2. k + 1 \in 1 .. n /\ (k + 1) - 1 = k
    OBVIOUS
  <2>3. t[k + 1] = Trim(F, balance, s)
    BY <1>3, <2>1, <2>2
  <2>4. LedgerCapacity(F, balance, s) \in Int
    BY LedgerCapacityType
  <2>5. s \in SUBSET Keys
    OBVIOUS
  <2>6. WithinCapacity(s, LedgerCapacity(F, balance, s)) \in SUBSET s
    BY <2>4, <2>5, CapacityPart
  <2> QED
    BY <2>3, <2>6 DEF Trim
<1>6. \A k \in Nat : k \in T
  <2> HIDE DEF T
  <2> QED
    BY <1>4, <1>5, Induct
<1> QED
  BY <1>2, <1>6

\* Some of the settlements of S, with all that have no amount.
Keeps(T, S) == T \in SUBSET S /\ \A i \in S : Log(i).amount = 0 => i \in T

\* What has been taken up of s, and what is left of the capacity.
Filled(s, k, capacity) ==
  /\ k = [chosen |-> k.chosen, left |-> k.left]
  /\ Keeps(k.chosen, s) /\ k.left \in Nat /\ SumOver(amounts, k.chosen) + k.left = capacity

LEMMA TakeUpFills ==
  ASSUME TypedHistory, NEW s \in SUBSET Keys, NEW x \in s, NEW k, NEW capacity \in Nat,
         Filled(s \ {x}, k, capacity)
  PROVE  Filled(s, TakeUp(x, k), capacity)
<1>1. PICK m \in Nat : m = Log(x).amount
  BY LogTypes
<1>2. PICK chosen \in SUBSET (s \ {x}), left \in Nat : chosen = k.chosen /\ left = k.left
  BY DEF Filled, Keeps
<1>3. PICK a \in Nat : a = SumOver(amounts, chosen)
  <2>1. chosen \in SUBSET Keys
    OBVIOUS
  <2> QED
    BY <2>1, AmountsTyped
<1>4. a + left = capacity /\ \A i \in s \ {x} : Log(i).amount = 0 => i \in chosen
  BY <1>2, <1>3 DEF Filled, Keeps
<1>5. CASE m > left
  <2>1. TakeUp(x, k) = k
    BY <1>1, <1>2, <1>5 DEF TakeUp
  <2>2. Keeps(chosen, s)
    BY <1>1, <1>4, <1>5 DEF Keeps
  <2> QED
    BY <1>2, <2>1, <2>2 DEF Filled
<1>6. CASE ~(m > left)
  <2>1. PICK more : more = chosen \cup {x}
    OBVIOUS
  <2>2. PICK r : r = [chosen |-> more, left |-> left - m]
    OBVIOUS
  <2>3. TakeUp(x, k) = r
    BY <1>1, <1>2, <1>6, <2>1, <2>2 DEF TakeUp
  <2>4. Keeps(more, s)
    BY <1>4, <2>1 DEF Keeps
  <2>5. SumOver(amounts, more) = a + m
    <3>1. more \in SUBSET Keys /\ x \in more /\ more \ {x} = chosen
      BY <2>1
    <3> QED
      BY <1>1, <1>3, <3>1, AmountOfMore
  <2>6. r.chosen = more /\ r.left = left - m /\ left - m \in Nat
    BY <1>6, <2>2
  <2>7. (a + m) + (left - m) = capacity
    BY <1>4
  <2> QED
    BY <2>2, <2>3, <2>4, <2>5, <2>6, <2>7 DEF Filled
<1> QED
  BY <1>5, <1>6

\* Settlements within a capacity do not exceed it, and those of no amount always fit.
LEMMA CapacityKeeps ==
  ASSUME TypedHistory, NEW S \in SUBSET Keys, NEW capacity \in Nat
  PROVE  /\ Keeps(WithinCapacity(S, capacity), S)
         /\ AmountOf(WithinCapacity(S, capacity)) <= capacity
<1>1. PICK h : FillsUp(S, capacity, h) /\ WithinCapacity(S, capacity) = h[S].chosen
  BY CapacityTable
<1> DEFINE T == {s \in SUBSET S : Filled(s, h[s], capacity)}
           pick == [s \in SUBSET S |-> Max(s)]
<1>2. FilledInOrder(S, capacity, h)
  BY <1>1, FillsStep
<1>3. {} \in T
  <2>1. h[{}] = [chosen |-> {}, left |-> capacity]
    BY <1>2 DEF FilledInOrder
  <2>2. PICK k : k = h[{}]
    OBVIOUS
  <2>3. k = [chosen |-> {}, left |-> capacity] /\ k.chosen = {} /\ k.left = capacity
    BY <2>1, <2>2
  <2>4. Keeps({}, {}) /\ SumOver(amounts, {}) = 0
    BY SumOverNone DEF Keeps
  <2>5. k = [chosen |-> k.chosen, left |-> k.left]
    BY <2>3
  <2>6. Keeps(k.chosen, {}) /\ SumOver(amounts, k.chosen) + k.left = capacity
    BY <2>3, <2>4
  <2>7. Filled({}, k, capacity)
    BY <2>3, <2>5, <2>6 DEF Filled
  <2> QED
    BY <2>2, <2>7
<1>4. ASSUME NEW s \in SUBSET S, s # {} /\ s \ {pick[s]} \in T PROVE s \in T
  <2>1. PICK x \in s : x = Max(s)
    BY <1>2, <1>4 DEF FilledInOrder
  <2>2. PICK k : k = h[s \ {x}]
    OBVIOUS
  <2>3. Filled(s \ {x}, k, capacity)
    BY <1>4, <2>1, <2>2
  <2>4. h[s] = TakeUp(x, k)
    BY <1>2, <1>4, <2>1, <2>2 DEF FilledInOrder
  <2>5. s \in SUBSET Keys
    OBVIOUS
  <2>6. Filled(s, TakeUp(x, k), capacity)
    BY <2>3, <2>5, TakeUpFills
  <2> QED
    BY <2>4, <2>6
<1>5. IsFiniteSet(S) /\ Picks(S, pick)
  BY <1>2, KeysFinite, FS_Subset DEF Picks, FilledInOrder
<1>6. \A s \in SUBSET S : s \in T
  <2> HIDE DEF T, pick
  <2> QED
    BY <1>3, <1>4, <1>5, SetInduct
<1>7. PICK chosen : chosen = h[S].chosen
  OBVIOUS
<1>8. Keeps(chosen, S) /\ \E left \in Nat : SumOver(amounts, chosen) + left = capacity
  <2>1. PICK k : k = h[S]
    OBVIOUS
  <2>2. S \in T
    <3> HIDE DEF T
    <3> QED
      BY <1>6
  <2>3. Filled(S, k, capacity)
    BY <2>1, <2>2
  <2>4. Keeps(k.chosen, S) /\ k.left \in Nat /\ SumOver(amounts, k.chosen) + k.left = capacity
    BY <2>3 DEF Filled
  <2> HIDE DEF T, pick
  <2> QED
    BY <1>7, <2>1, <2>4
<1>9. chosen \in SUBSET Keys
  BY <1>8 DEF Keeps
<1>10. PICK a \in Nat : a = AmountOf(chosen) /\ a = SumOver(amounts, chosen)
  BY <1>9, AmountsTyped
<1>11. AmountOf(chosen) <= capacity
  BY <1>8, <1>10
<1> QED
  BY <1>1, <1>7, <1>8, <1>11

LEMMA KeepsTwice ==
  ASSUME NEW S, NEW T, NEW U, Keeps(T, S), Keeps(U, T)
  PROVE  Keeps(U, S)
  BY DEF Keeps

\* What has the amount of all is all.
LEMMA KeepsAll ==
  ASSUME TypedHistory, NEW S \in SUBSET Keys, NEW T, Keeps(T, S), AmountOf(T) = AmountOf(S)
  PROVE  T = S
<1> SUFFICES ASSUME NEW i \in S, i \notin T PROVE FALSE
  BY DEF Keeps
<1>1. PICK m \in Nat : m = Log(i).amount /\ m > 0
  BY LogTypes DEF Keeps
<1>2. PICK more : more = T \cup {i}
  OBVIOUS
<1>3. T \in SUBSET Keys /\ more \in SUBSET S /\ more \in SUBSET Keys
      /\ i \in more /\ more \ {i} = T
  BY <1>2 DEF Keeps
<1>4. SumOver(amounts, more) = SumOver(amounts, T) + m
  BY <1>1, <1>3, AmountOfMore
<1>5. SumOver(amounts, more) <= SumOver(amounts, S)
  BY <1>3, AmountsTyped, SumOverPart
<1>6. PICK a \in Nat : a = SumOver(amounts, T) /\ a = SumOver(amounts, S)
  BY <1>3, AmountsTyped
<1> QED
  BY <1>1, <1>4, <1>5, <1>6

\* Settlements within a ledger keep those of no amount; if they are all, the capacity
\* that all of them leave is enough for them.
LEMMA LedgerKeeps ==
  ASSUME TypedHistory, NEW S \in SUBSET Keys, NEW balance \in Nat,
         NEW F, IsFiniteSet(F), \A f \in F : f.transfer \in Keys
  PROVE  /\ Keeps(WithinLedger(S, F, balance), S)
         /\ (WithinLedger(S, F, balance) = S /\ S # {})
              => AmountOf(S) <= LedgerCapacity(F, balance, S)
<1>1. PICK n \in Nat : n = Cardinality(S) /\ (S # {} => n # 0)
  BY KeysFinite, FS_Subset, FS_CardinalityType, FS_EmptySet
<1>2. PICK t : Trims(F, balance, S, n, t) /\ WithinLedger(S, F, balance) = t[n]
  BY <1>1, LedgerTable
<1>3. t[0] = S /\ \A k \in 1 .. n : t[k] = Trim(F, balance, t[k - 1])
  <2>1. TrimmedInTurn(F, balance, S, n, t)
    BY <1>2, TrimStep
  <2> QED
    BY <2>1 DEF TrimmedInTurn
<1>4. ASSUME NEW s \in SUBSET Keys PROVE Keeps(Trim(F, balance, s), s)
  <2>1. PICK capacity \in Nat : capacity = LedgerCapacity(F, balance, s)
    BY LedgerCapacityType
  <2>2. Keeps(WithinCapacity(s, capacity), s)
    BY CapacityKeeps
  <2> QED
    BY <2>1, <2>2 DEF Trim, Keeps
<1> DEFINE T == {k \in Nat : k <= n => Keeps(t[k], S) /\ (k >= 1 => t[k] \in SUBSET t[1])}
<1>5. 0 \in T
  BY <1>3 DEF Keeps
<1>6. ASSUME NEW k \in Nat, k \in T PROVE k + 1 \in T
  <2> SUFFICES ASSUME k + 1 <= n
               PROVE  Keeps(t[k + 1], S) /\ t[k + 1] \in SUBSET t[1]
    OBVIOUS
  <2>1. PICK s : s = t[k] /\ Keeps(s, S) /\ (k >= 1 => s \in SUBSET t[1])
    BY <1>6
  <2>2. k + 1 \in 1 .. n /\ (k + 1) - 1 = k
    OBVIOUS
  <2>3. t[k + 1] = Trim(F, balance, s)
    BY <1>3, <2>1, <2>2
  <2>4. s \in SUBSET Keys
    BY <2>1 DEF Keeps
  <2>5. Keeps(t[k + 1], s)
    BY <1>4, <2>3, <2>4
  <2>6. Keeps(t[k + 1], S)
    BY <2>1, <2>5, KeepsTwice
  <2>7. t[k + 1] \in SUBSET t[1]
    <3>1. CASE k = 0
      BY <3>1
    <3>2. CASE k >= 1
      BY <2>1, <2>5, <3>2 DEF Keeps
    <3> QED
      BY <3>1, <3>2
  <2> QED
    BY <2>6, <2>7
<1>7. \A k \in Nat : k \in T
  <2> HIDE DEF T
  <2> QED
    BY <1>5, <1>6, Induct
<1>8. Keeps(t[n], S) /\ (n >= 1 => t[n] \in SUBSET t[1])
  BY <1>7
<1>9. ASSUME t[n] = S, S # {} PROVE AmountOf(S) <= LedgerCapacity(F, balance, S)
  <2>1. n >= 1 /\ 1 \in 1 .. n /\ 1 - 1 = 0
    BY <1>1, <1>9
  <2>2. t[1] = Trim(F, balance, S)
    BY <1>3, <2>1
  <2>3. PICK capacity \in Nat : capacity = LedgerCapacity(F, balance, S)
    BY LedgerCapacityType
  <2>4. t[1] = WithinCapacity(S, capacity)
    BY <1>9, <2>2, <2>3 DEF Trim
  <2>5. Keeps(t[1], S) /\ AmountOf(t[1]) <= capacity
    BY <2>4, CapacityKeeps
  <2>6. t[1] = S
    BY <1>8, <1>9, <2>1, <2>5 DEF Keeps
  <2> QED
    BY <2>3, <2>5, <2>6
<1> QED
  BY <1>2, <1>8, <1>9

\* More fundings amount to no less.
LEMMA FundedMore ==
  ASSUME TypedHistory, NEW F, IsFiniteSet(F), \A f \in F : f.transfer \in Keys, NEW G \in SUBSET F
  PROVE  FundedIn(G) <= FundedIn(F)
<1>1. PICK g : g = paid(F)
  OBVIOUS
<1>2. g \in [F -> Nat]
  BY <1>1, LogTypes DEF paid
<1>3. F \in SUBSET F /\ SumOver(g, G) <= SumOver(g, F)
  BY <1>2, SumOverPart
<1>4. ASSUME NEW H \in SUBSET F PROVE FundedIn(H) = SumOver(g, H)
  <2>1. [f \in H |-> g[f]] = paid(H)
    BY <1>1 DEF paid
  <2>2. FundedIn(H) = SumFunction(paid(H))
    BY FundedIsSum
  <2> QED
    BY <2>1, <2>2 DEF SumOver
<1> QED
  BY <1>3, <1>4

\* Where settlements fit the capacity of their ledger, what has been funded covers them
\* and the balance.
LEMMA LedgerCovers ==
  ASSUME TypedHistory, NEW F, IsFiniteSet(F), \A f \in F : f.transfer \in Keys,
         NEW balance \in Nat, NEW S, NEW settled \in Nat, settled > 0,
         settled <= LedgerCapacity(F, balance, S)
  PROVE  (balance + settled) * 10000 <= FundedIn(F) * 10500
<1>1. PICK G : G = {f \in F : f.transfer < Max(S)}
  OBVIOUS
<1>2. IsFiniteSet(G) /\ (\A f \in G : f.transfer \in Keys) /\ G \in SUBSET F
  BY <1>1, FS_Subset
<1>3. PICK n \in Nat, all \in Nat : n = FundedIn(G) /\ all = FundedIn(F) /\ n <= all
  BY <1>2, FundedType, FundedMore
<1>4. PICK q \in Nat : q = (n * 10500) \div 10000 /\ q * 10000 <= n * 10500
  OBVIOUS
<1>5. PICK e \in Int : e = q - balance
  OBVIOUS
<1>6. LedgerCapacity(F, balance, S) = Max({0, e})
  BY <1>1, <1>3, <1>4, <1>5 DEF LedgerCapacity
<1>7. Max({0, e}) \in {0, e}
  <2>1. IsFiniteSet({0, e}) /\ {0, e} \in SUBSET Int /\ {0, e} # {}
    <3>1. IsFiniteSet({0} \cup {e})
      BY FS_Singleton, FS_Union
    <3>2. {0} \cup {e} = {0, e}
      OBVIOUS
    <3> QED
      BY <3>1, <3>2
  <2> QED
    BY <2>1, MaxIn
<1>8. settled <= q - balance
  BY <1>5, <1>6, <1>7
<1>9. balance + settled <= q
  BY <1>8
<1>10. (balance + settled) * 10000 <= q * 10000
  BY <1>9
<1>11. n * 10500 <= all * 10500
  BY <1>3
<1>12. (balance + settled) * 10000 <= all * 10500
  BY <1>4, <1>10, <1>11
<1> QED
  BY <1>3, <1>12

-----------------------------------------------------------------------------
(* Return paths *)

\* A path of at least one hop over logs there are.
IsPath(p) == p.hops \in Seq(Keys) /\ p.hops # <<>>
ArePaths(C) == IsFiniteSet(C) /\ \A p \in C : IsPath(p)

LEMMA HopsAreKeys ==
  ASSUME NEW p, IsPath(p)
  PROVE  Entries(p.hops) \in SUBSET Keys /\ Entries(p.hops) # {} /\ Len(p.hops) \in Nat \ {0}
<1>1. PICK s \in Seq(Keys) : s = p.hops /\ s # <<>>
  BY DEF IsPath
<1>2. Len(s) \in Nat \ {0} /\ \A n \in DOMAIN s : s[n] \in Keys
  BY <1>1
<1>3. 1 \in DOMAIN s
  BY <1>2
<1> QED
  BY <1>1, <1>2, <1>3 DEF Entries

LEMMA CreditType ==
  ASSUME TypedHistory, NEW p, IsPath(p)
  PROVE  Credit(p) \in Nat
<1>1. PICK S : S = {Log(i).amount : i \in Entries(p.hops)}
  OBVIOUS
<1>2. S \in SUBSET Nat /\ S # {}
  BY <1>1, HopsAreKeys, LogTypes
<1>3. Min(S) \in S
  BY <1>2, MinIn
<1> QED
  BY <1>1, <1>2, <1>3 DEF Credit

credits(C) == [p \in C |-> Credit(p)]

LEMMA CreditsTyped ==
  ASSUME TypedHistory, NEW C, ArePaths(C)
  PROVE  IsFiniteSet(C) /\ credits(C) \in [C -> Nat]
BY CreditType DEF ArePaths, credits

\* The credits of paths add up to a number.
LEMMA ReturnedIsSum ==
  ASSUME NEW C, NEW P \in SUBSET C
  PROVE  Returned(P) = SumOver(credits(C), P)
<1> DEFINE Table(h) == h = [s \in SUBSET P |-> IF s = {} THEN 0
                              ELSE Credit(CHOOSE x \in s : TRUE) + h[s \ {CHOOSE x \in s : TRUE}]]
           iter == CHOOSE h : Table(h)
           g == [p \in P |-> credits(C)[p]]
           Solves(h) == h = [s \in SUBSET P |-> IF s = {} THEN 0
                              ELSE g[CHOOSE x \in s : TRUE] + h[s \ {CHOOSE x \in s : TRUE}]]
           sums == CHOOSE h : Solves(h)
<1>1. Returned(P) = iter[P]
  BY DEF Returned, MapThenSumSet, MapThenFoldSet
<1>2. SumOver(credits(C), P) = sums[P]
  BY DEF SumOver, SumFunction, SumFunctionOnSet, FoldFunctionOnSet, MapThenFoldSet
<1>3. \A s \in SUBSET P : s # {} => g[CHOOSE x \in s : TRUE] = Credit(CHOOSE x \in s : TRUE)
  BY DEF credits
<1>4. \A h : Table(h) <=> Solves(h)
  <2> HIDE DEF g
  <2> QED
    BY <1>3
<1>5. iter = sums
  <2> HIDE DEF Table, Solves
  <2> QED
    BY <1>4
<1> QED
  BY <1>1, <1>2, <1>5

LEMMA ReturnedType ==
  ASSUME TypedHistory, NEW C, ArePaths(C)
  PROVE  Returned(C) \in Nat
<1>1. C \in SUBSET C
  OBVIOUS
<1>2. SumOver(credits(C), C) \in Nat
  BY <1>1, CreditsTyped, SumOverType
<1> QED
  BY <1>1, <1>2, ReturnedIsSum

\* The path that SelectReturns counts last: the one with the least credit.
LeastCredit(s) == CHOOSE p \in s : \A q \in s : Credit(p) <= Credit(q)

LEMMA LeastCreditIn ==
  ASSUME TypedHistory, NEW C, ArePaths(C)
  PROVE  \A s \in SUBSET C : s # {} => LeastCredit(s) \in s
<1> DEFINE R == {pq \in C \X C : Credit(pq[1]) <= Credit(pq[2])}
<1>1. \A p, q \in C : <<p, q>> \in R <=> Credit(p) <= Credit(q)
  OBVIOUS
<1>2. \A p \in C : Credit(p) \in Nat
  BY CreditType DEF ArePaths
<1>3. /\ \A p, q \in C : <<p, q>> \in R \/ <<q, p>> \in R
      /\ \A p, q, r \in C : <<p, q>> \in R /\ <<q, r>> \in R => <<p, r>> \in R
  <2> HIDE DEF R
  <2> QED
    BY <1>1, <1>2
<1>4. \A s \in SUBSET C : s # {} => \E p \in s : \A q \in s : <<p, q>> \in R
  <2> HIDE DEF R
  <2>1. IsFiniteSet(C)
    BY DEF ArePaths
  <2> QED
    BY <1>3, <2>1, Extreme
<1>5. \A s \in SUBSET C : s # {} => \E p \in s : \A q \in s : Credit(p) <= Credit(q)
  <2> HIDE DEF R
  <2> QED
    BY <1>1, <1>4
<1> QED
  BY <1>5 DEF LeastCredit

\* One path is counted, if one more is wanted and it shares no transfer.
CountReturn(p, chosen, most) ==
  IF \/ Cardinality(chosen.paths) >= most \/ chosen.returned >= chosen.required
     \/ PathKeys(p) \cap chosen.used # {}
  THEN chosen
  ELSE [chosen EXCEPT !.paths = @ \cup {p}, !.returned = @ + Credit(p),
                      !.used = @ \cup PathKeys(p)]

NoneCounted(required) == [paths |-> {}, returned |-> 0, required |-> required, used |-> {}]

\* The recursion of SelectReturns: h gives what is counted of each subset of C.
CountsUp(C, required, most, h) ==
  h = [s \in SUBSET C |-> IF s = {} THEN NoneCounted(required)
                          ELSE CountReturn(LeastCredit(s), h[s \ {LeastCredit(s)}], most)]

\* It has a solution, which is what SelectReturns returns.
LEMMA CountsExist ==
  ASSUME TypedHistory, NEW C, ArePaths(C), NEW required, NEW most
  PROVE  \E h : CountsUp(C, required, most, h)
<1> DEFINE V == [paths : SUBSET C, returned : Nat, required : {required},
                 used : SUBSET UNION {PathKeys(p) : p \in C}]
           pick == [s \in SUBSET C |-> LeastCredit(s)]
           step == [pv \in C \X V |-> CountReturn(pv[1], pv[2], most)]
           base == NoneCounted(required)
<1>1. IsFiniteSet(C) /\ \A s \in SUBSET C : s # {} => LeastCredit(s) \in s
  BY LeastCreditIn DEF ArePaths
<1>2. Picks(C, pick)
  BY <1>1 DEF Picks
<1>3. step \in [C \X V -> V]
  <2> SUFFICES ASSUME NEW p \in C, NEW v \in V PROVE CountReturn(p, v, most) \in V
    OBVIOUS
  <2>1. Credit(p) \in Nat
    BY CreditType DEF ArePaths
  <2>2. PathKeys(p) \in SUBSET UNION {PathKeys(q) : q \in C}
    OBVIOUS
  <2>3. v.returned + Credit(p) \in Nat
    BY <2>1
  <2> QED
    BY <2>2, <2>3 DEF CountReturn
<1>4. base \in V
  BY DEF NoneCounted
<1>5. PICK h : Folds(SUBSET C, pick, step, base, h)
  <2> HIDE DEF pick, step, base
  <2> QED
    BY <1>1, <1>2, FoldsExist
<1>6. \A s \in SUBSET C : h[s] \in V
  <2> HIDE DEF V, pick, step, base
  <2> QED
    BY <1>1, <1>2, <1>3, <1>4, <1>5, FoldsType
<1>7. \A s \in SUBSET C : s # {} =>
        step[<<pick[s], h[s \ {pick[s]}]>>]
          = CountReturn(LeastCredit(s), h[s \ {LeastCredit(s)}], most)
  <2> SUFFICES ASSUME NEW s \in SUBSET C, s # {}
               PROVE  step[<<pick[s], h[s \ {pick[s]}]>>]
                        = CountReturn(LeastCredit(s), h[s \ {LeastCredit(s)}], most)
    OBVIOUS
  <2>1. PICK x \in C : x = LeastCredit(s)
    BY <1>1
  <2>2. PICK v \in V : v = h[s \ {x}]
    BY <1>6
  <2>3. pick[s] = x
    BY <2>1
  <2> HIDE DEF V, pick
  <2>4. step[<<x, v>>] = CountReturn(x, v, most)
    OBVIOUS
  <2> HIDE DEF step
  <2> QED
    BY <2>1, <2>2, <2>3, <2>4
<1>8. CountsUp(C, required, most, h)
  <2> HIDE DEF pick, step
  <2> QED
    BY <1>5, <1>7 DEF Folds, CountsUp
<1> QED
  BY <1>8

LEMMA SelectionTable ==
  ASSUME TypedHistory, NEW S, NEW required, NEW after, NEW most,
         NEW C, C = {p \in S : ValidReturn(p, after)}, ArePaths(C)
  PROVE  \E h : CountsUp(C, required, most, h) /\ SelectReturns(S, required, after, most, {}) = h[C]
<1> DEFINE last(s) == CHOOSE p \in s : \A q \in s : Credit(p) <= Credit(q)
           Table(h) ==
             h = [s \in SUBSET C |->
                    IF s = {} THEN [paths |-> {}, returned |-> 0, required |-> required, used |-> {}]
                    ELSE IF \/ Cardinality(h[s \ {last(s)}].paths) >= most
                            \/ h[s \ {last(s)}].returned >= h[s \ {last(s)}].required
                            \/ PathKeys(last(s)) \cap h[s \ {last(s)}].used # {}
                    THEN h[s \ {last(s)}]
                    ELSE [h[s \ {last(s)}] EXCEPT
                            !.paths = @ \cup {last(s)}, !.returned = @ + Credit(last(s)),
                            !.used = @ \cup PathKeys(last(s))]]
           iter == CHOOSE h : Table(h)
<1>1. SelectReturns(S, required, after, most, {}) = iter[C]
  BY DEF SelectReturns, MapThenFoldSet
<1>2. \A h : Table(h) <=> CountsUp(C, required, most, h)
  BY DEF CountsUp, CountReturn, NoneCounted, LeastCredit
<1>3. \E h : Table(h)
  <2> HIDE DEF Table
  <2> QED
    BY <1>2, CountsExist
<1>4. Table(iter)
  <2> HIDE DEF Table
  <2> QED
    BY <1>3
<1> QED
  <2> HIDE DEF Table, iter
  <2> QED
    BY <1>1, <1>2, <1>4

\* The solution, subset by subset.
CountedInOrder(C, required, most, h) ==
  /\ h[{}] = NoneCounted(required)
  /\ \A s \in SUBSET C : s # {} =>
       LeastCredit(s) \in s
       /\ h[s] = CountReturn(LeastCredit(s), h[s \ {LeastCredit(s)}], most)

LEMMA CountStep ==
  ASSUME TypedHistory, NEW C, ArePaths(C), NEW required, NEW most, NEW h,
         CountsUp(C, required, most, h)
  PROVE  CountedInOrder(C, required, most, h)
<1>1. \A s \in SUBSET C : s # {} => LeastCredit(s) \in s
  BY LeastCreditIn
<1> QED
  BY <1>1 DEF CountsUp, CountedInOrder

\* No two of the paths share a transfer.
Disjoint(P) == \A p, q \in P : p # q => PathKeys(p) \cap PathKeys(q) = {}

\* What is counted of the paths of s: disjoint ones and no more than may be; one if there
\* are any; and if all might be counted, enough or all.
CountedOf(s, k, required, most) ==
  /\ k = [paths |-> k.paths, returned |-> k.returned, required |-> required, used |-> k.used]
  /\ k.paths \in SUBSET s /\ k.returned \in Nat /\ k.returned = Returned(k.paths)
  /\ k.used = UNION {PathKeys(p) : p \in k.paths}
  /\ Cardinality(k.paths) <= most /\ Disjoint(k.paths)
  /\ (s # {} /\ required > 0 /\ most > 0) => k.paths # {}
  /\ (Disjoint(s) /\ Cardinality(s) <= most) => k.returned >= required \/ k.paths = s

\* Counting one more path keeps to it.
LEMMA CountOne ==
  ASSUME TypedHistory, NEW C, ArePaths(C), NEW required \in Nat, NEW most \in Nat,
         NEW s \in SUBSET C, NEW x \in s, NEW k, CountedOf(s \ {x}, k, required, most)
  PROVE  CountedOf(s, CountReturn(x, k, most), required, most)
<1>1. /\ k = [paths |-> k.paths, returned |-> k.returned, required |-> required, used |-> k.used]
      /\ k.paths \in SUBSET (s \ {x}) /\ k.returned \in Nat /\ k.returned = Returned(k.paths)
      /\ k.used = UNION {PathKeys(p) : p \in k.paths}
      /\ Cardinality(k.paths) <= most /\ Disjoint(k.paths)
      /\ (s \ {x} # {} /\ required > 0 /\ most > 0) => k.paths # {}
      /\ (Disjoint(s \ {x}) /\ Cardinality(s \ {x}) <= most)
            => k.returned >= required \/ k.paths = s \ {x}
  BY DEF CountedOf
<1>2. /\ IsFiniteSet(s) /\ IsFiniteSet(k.paths) /\ Cardinality(k.paths) \in Nat
      /\ Cardinality(s) \in Nat /\ Cardinality(s \ {x}) = Cardinality(s) - 1
      /\ (Disjoint(s) => Disjoint(s \ {x}))
  <2>1. IsFiniteSet(s) /\ k.paths \in SUBSET C
    BY <1>1, FS_Subset DEF ArePaths
  <2>2. IsFiniteSet(k.paths)
    BY <2>1, FS_Subset DEF ArePaths
  <2>3. Disjoint(s) => Disjoint(s \ {x})
    BY DEF Disjoint
  <2> QED
    BY <2>1, <2>2, <2>3, FS_CardinalityType, Fewer
<1>3. k.paths = {} => k.returned = 0 /\ k.used = {} /\ Cardinality(k.paths) = 0
  BY <1>1, FS_EmptySet, ReturnedIsSum, SumOverNone
<1>4. CASE \/ Cardinality(k.paths) >= most \/ k.returned >= k.required
           \/ PathKeys(x) \cap k.used # {}
  <2>1. CountReturn(x, k, most) = k
    BY <1>4 DEF CountReturn
  <2>2. (s # {} /\ required > 0 /\ most > 0) => k.paths # {}
    BY <1>1, <1>3, <1>4
  <2>3. ASSUME Disjoint(s), Cardinality(s) <= most
        PROVE  k.returned >= required
    <3>1. SUFFICES ASSUME k.paths = s \ {x} PROVE k.returned >= required
      BY <1>1, <1>2, <2>3
    <3>2. Cardinality(k.paths) < most
      BY <1>2, <2>3, <3>1
    <3>3. PathKeys(x) \cap k.used = {}
      BY <1>1, <2>3, <3>1 DEF Disjoint
    <3> QED
      BY <1>1, <1>2, <1>4, <3>2, <3>3
  <2>4. k.paths \in SUBSET s
    BY <1>1
  <2> QED
    BY <1>1, <2>1, <2>2, <2>3, <2>4 DEF CountedOf
<1>5. CASE ~ \/ Cardinality(k.paths) >= most \/ k.returned >= k.required
             \/ PathKeys(x) \cap k.used # {}
  <2>1. PICK c \in Nat : c = Credit(x)
    BY CreditType DEF ArePaths
  <2>2. PICK m : m = [paths |-> k.paths \cup {x}, returned |-> k.returned + c,
                      required |-> required, used |-> k.used \cup PathKeys(x)]
    OBVIOUS
  <2>3. CountReturn(x, k, most) = m
    <3>1. CountReturn(x, k, most)
            = [k EXCEPT !.paths = @ \cup {x}, !.returned = @ + Credit(x), !.used = @ \cup PathKeys(x)]
      BY <1>5 DEF CountReturn
    <3>2. PICK Q, T, W : Q = k.paths \cup {x} /\ T = k.returned + c /\ W = k.used \cup PathKeys(x)
      OBVIOUS
    <3>3. PICK r : r = [k EXCEPT !.paths = Q, !.returned = T, !.used = W]
      OBVIOUS
    <3>4. r \in [paths : {Q}, returned : {T}, required : {required}, used : {W}]
      <4>1. PICK P, R, U : k = [paths |-> P, returned |-> R, required |-> required, used |-> U]
        BY <1>1
      <4> QED
        BY <3>3, <4>1
    <3>5. r = [paths |-> Q, returned |-> T, required |-> required, used |-> W]
      BY <3>4
    <3> QED
      BY <2>1, <2>2, <3>1, <3>2, <3>3, <3>5
  <2>4. x \in C \ k.paths /\ k.paths \in SUBSET C /\ m.paths \in SUBSET C
    BY <1>1, <2>2
  <2>5. m.returned = Returned(m.paths)
    <3>1. SumOver(credits(C), k.paths \cup {x}) = SumOver(credits(C), k.paths) + credits(C)[x]
      BY <2>4, CreditsTyped, SumOverMore
    <3>2. credits(C)[x] = c
      BY <2>1 DEF credits
    <3>3. Returned(k.paths) = SumOver(credits(C), k.paths)
      BY <2>4, ReturnedIsSum
    <3>4. Returned(m.paths) = SumOver(credits(C), m.paths)
      BY <2>4, ReturnedIsSum
    <3> QED
      BY <1>1, <2>2, <3>1, <3>2, <3>3, <3>4
  <2>6. m.used = UNION {PathKeys(p) : p \in m.paths}
    BY <1>1, <2>2
  <2>7. Cardinality(m.paths) <= most
    <3>1. Cardinality(k.paths \cup {x}) = Cardinality(k.paths) + 1
      BY <1>2, <2>4, FS_AddElement
    <3> QED
      BY <1>2, <1>5, <2>2, <3>1
  <2>8. Disjoint(m.paths)
    <3> SUFFICES ASSUME NEW p \in m.paths, NEW q \in m.paths, p # q
                 PROVE  PathKeys(p) \cap PathKeys(q) = {}
      BY DEF Disjoint
    <3>1. \A r \in k.paths : PathKeys(r) \cap PathKeys(x) = {}
      BY <1>1, <1>5
    <3>2. CASE p \in k.paths /\ q \in k.paths
      BY <1>1, <3>2 DEF Disjoint
    <3>3. CASE p = x \/ q = x
      BY <2>2, <3>1, <3>3
    <3> QED
      BY <2>2, <3>2, <3>3
  <2>9. ASSUME Disjoint(s), Cardinality(s) <= most
        PROVE  m.returned >= required \/ m.paths = s
    <3>1. k.paths = s \ {x}
      BY <1>1, <1>2, <1>5, <2>9
    <3> QED
      BY <2>2, <3>1
  <2>10. /\ m.paths \in SUBSET s /\ m.returned \in Nat /\ m.paths # {}
         /\ m = [paths |-> m.paths, returned |-> m.returned, required |-> required,
                 used |-> m.used]
    BY <1>1, <2>2
  <2> QED
    BY <2>3, <2>5, <2>6, <2>7, <2>8, <2>9, <2>10 DEF CountedOf
<1> QED
  BY <1>4, <1>5

\* The valid paths of which SelectReturns counts some.
ValidOf(S, after) == {p \in S : ValidReturn(p, after)}

\* What SelectReturns counts.
LEMMA Selects ==
  ASSUME TypedHistory, NEW S, NEW required \in Nat, NEW after, NEW most \in Nat,
         ArePaths(ValidOf(S, after))
  PROVE  CountedOf(ValidOf(S, after), SelectReturns(S, required, after, most, {}), required, most)
<1>1. PICK C : C = ValidOf(S, after)
  OBVIOUS
<1>2. C = {p \in S : ValidReturn(p, after)} /\ ArePaths(C)
  BY <1>1 DEF ValidOf
<1>3. PICK h : CountsUp(C, required, most, h) /\ SelectReturns(S, required, after, most, {}) = h[C]
  BY <1>2, SelectionTable
<1>4. CountedInOrder(C, required, most, h)
  BY <1>2, <1>3, CountStep
<1> DEFINE T == {s \in SUBSET C : CountedOf(s, h[s], required, most)}
           pick == [s \in SUBSET C |-> LeastCredit(s)]
<1>5. {} \in T
  <2>1. h[{}] = [paths |-> {}, returned |-> 0, required |-> required, used |-> {}]
    BY <1>4 DEF CountedInOrder, NoneCounted
  <2>2. Returned({}) = 0
    BY ReturnedIsSum, SumOverNone
  <2>3. Cardinality({}) = 0
    BY FS_EmptySet
  <2> QED
    BY <2>1, <2>2, <2>3 DEF CountedOf, Disjoint
<1>6. ASSUME NEW s \in SUBSET C, s # {} /\ s \ {pick[s]} \in T PROVE s \in T
  <2>1. PICK x \in s : x = LeastCredit(s)
    BY <1>4, <1>6 DEF CountedInOrder
  <2>2. PICK k : k = h[s \ {x}]
    OBVIOUS
  <2>3. h[s] = CountReturn(x, k, most)
    BY <1>4, <1>6, <2>1, <2>2 DEF CountedInOrder
  <2>4. CountedOf(s \ {x}, k, required, most)
    BY <1>6, <2>1, <2>2
  <2>5. CountedOf(s, CountReturn(x, k, most), required, most)
    BY <1>2, <2>4, CountOne
  <2> QED
    BY <2>3, <2>5
<1>7. IsFiniteSet(C) /\ Picks(C, pick)
  BY <1>2, <1>4 DEF Picks, CountedInOrder, ArePaths
<1>8. \A s \in SUBSET C : s \in T
  <2> HIDE DEF T, pick
  <2> QED
    BY <1>5, <1>6, <1>7, SetInduct
<1> QED
  BY <1>1, <1>3, <1>8

-----------------------------------------------------------------------------
(* Discovery in the traces *)

\* A function on a finite set has finitely many values.
LEMMA ImageFinite ==
  ASSUME NEW S, IsFiniteSet(S), NEW f, DOMAIN f = S
  PROVE  /\ IsFiniteSet({f[x] : x \in S})
         /\ Cardinality({f[x] : x \in S}) <= Cardinality(S)
<1>1. PICK T : T = {f[x] : x \in S}
  OBVIOUS
<1>2. PICK g : g = [x \in S |-> f[x]]
  OBVIOUS
<1>3. g \in [S -> T] /\ \A t \in T : \E x \in S : g[x] = t
  BY <1>1, <1>2
<1>4. g \in Surjection(S, T)
  BY <1>3 DEF Surjection
<1> QED
  BY <1>1, <1>4, FS_Surjection

\* What discovery returns: located paths with hops.
DirectPaths == [hops : Seq(Keys) \ {<<>>}, located : {TRUE}]

\* Finitely many payments that could begin a relay, each of two transfers there are.
ArePrefixes(S) ==
  IsFiniteSet(S) /\ \A p \in S : p.credit \in Nat /\ \E a, b \in Keys : p.hops = <<a, b>>

LEMMA PaymentsArePrefixes ==
  ASSUME TypedHistory, NEW seller, NEW funder, NEW after
  PROVE  ArePrefixes(Payments(seller, funder, after))
<1>1. PICK D \in SUBSET (Keys \X Keys) :
        Payments(seller, funder, after) = {Prefix(hops) : hops \in D}
  BY DEF Payments, Transfers
<1>2. PICK f : f = [hops \in D |-> Prefix(hops)]
  OBVIOUS
<1>3. Payments(seller, funder, after) = {f[hops] : hops \in D}
  BY <1>1, <1>2
<1>4. IsFiniteSet(D)
  <2>1. IsFiniteSet(Keys \X Keys)
    BY KeysFinite, FS_Product
  <2> QED
    BY <2>1, FS_Subset
<1>5. IsFiniteSet(Payments(seller, funder, after))
  BY <1>2, <1>3, <1>4, ImageFinite
<1>6. ASSUME NEW p \in Payments(seller, funder, after)
      PROVE  p.credit \in Nat /\ \E a, b \in Keys : p.hops = <<a, b>>
  <2>1. PICK hops \in D : p = Prefix(hops)
    BY <1>1
  <2>2. PICK a \in Keys, b \in Keys : hops = <<a, b>>
    OBVIOUS
  <2>3. PICK S : S = {Log(hops[1]).amount, Log(hops[2]).amount}
    OBVIOUS
  <2>4. S \in SUBSET Nat /\ S # {}
    BY <2>2, <2>3, LogTypes
  <2>5. Min(S) \in Nat
    BY <2>4, MinIn
  <2>6. p.hops = hops /\ p.credit = Min(S)
    BY <2>1, <2>3 DEF Prefix
  <2> QED
    BY <2>2, <2>5, <2>6
<1> QED
  BY <1>5, <1>6 DEF ArePrefixes

\* The payment that discovery extends last.
LastPrefix(s) == CHOOSE p \in s : \A q \in s : ComesAfter(p, q)

LEMMA LastPrefixIn ==
  ASSUME TypedHistory, NEW S, ArePrefixes(S)
  PROVE  \A s \in SUBSET S : s # {} => LastPrefix(s) \in s
<1> DEFINE R == {pq \in S \X S : ComesAfter(pq[1], pq[2])}
<1>1. \A p, q \in S : <<p, q>> \in R <=> ComesAfter(p, q)
  OBVIOUS
<1>2. \A p \in S : p.credit \in Nat /\ p.hops[1] \in Nat /\ p.hops[2] \in Nat
  BY KeysFinite DEF ArePrefixes
<1>3. \A p, q \in S : ComesAfter(p, q) \/ ComesAfter(q, p)
  BY <1>2 DEF ComesAfter
<1>4. \A p, q, r \in S : ComesAfter(p, q) /\ ComesAfter(q, r) => ComesAfter(p, r)
  BY <1>2 DEF ComesAfter
<1>5. \A s \in SUBSET S : s # {} => \E p \in s : \A q \in s : <<p, q>> \in R
  <2> HIDE DEF R
  <2>1. IsFiniteSet(S)
    BY DEF ArePrefixes
  <2>2. /\ \A p, q \in S : <<p, q>> \in R \/ <<q, p>> \in R
        /\ \A p, q, r \in S : <<p, q>> \in R /\ <<q, r>> \in R => <<p, r>> \in R
    BY <1>1, <1>3, <1>4
  <2> QED
    BY <2>1, <2>2, Extreme
<1>6. \A s \in SUBSET S : s # {} => \E p \in s : \A q \in s : ComesAfter(p, q)
  <2> HIDE DEF R
  <2> QED
    BY <1>1, <1>5
<1> QED
  BY <1>6 DEF LastPrefix

LEMMA BestFinishIn ==
  ASSUME TypedHistory, NEW pre, pre.credit \in Nat, NEW F \in SUBSET Keys, F # {}
  PROVE  BestFinish(pre, F) \in Keys
<1>1. PICK credit : credit = [k \in Keys |-> Min({pre.credit, Log(k).amount})]
  OBVIOUS
<1>2. \A k \in Keys : credit[k] \in Nat
  <2> SUFFICES ASSUME NEW k \in Keys PROVE Min({pre.credit, Log(k).amount}) \in Nat
    BY <1>1
  <2>1. PICK S : S = {pre.credit, Log(k).amount}
    OBVIOUS
  <2>2. S \in SUBSET Nat /\ S # {}
    BY <2>1, LogTypes
  <2> QED
    BY <2>1, <2>2, MinIn
<1> DEFINE R == {kl \in F \X F : credit[kl[2]] <= credit[kl[1]]}
<1>3. \A k, l \in F : <<k, l>> \in R <=> credit[l] <= credit[k]
  OBVIOUS
<1>4. \E k \in F : \A l \in F : <<k, l>> \in R
  <2> HIDE DEF R
  <2>1. IsFiniteSet(F)
    BY KeysFinite, FS_Subset
  <2>2. /\ \A p, q \in F : <<p, q>> \in R \/ <<q, p>> \in R
        /\ \A p, q, r \in F : <<p, q>> \in R /\ <<q, r>> \in R => <<p, r>> \in R
    BY <1>2, <1>3
  <2>3. \A s \in SUBSET F : s # {} => \E p \in s : \A q \in s : <<p, q>> \in R
    BY <2>1, <2>2, Extreme
  <2> QED
    BY <2>3
<1>5. PICK best : best = {k \in F : \A l \in F : Min({pre.credit, Log(l).amount})
                                                  <= Min({pre.credit, Log(k).amount})}
  OBVIOUS
<1>6. best # {}
  <2>1. PICK k \in F : \A l \in F : credit[l] <= credit[k]
    <3> HIDE DEF R
    <3> QED
      BY <1>3, <1>4
  <2>2. \A l \in F : Min({pre.credit, Log(l).amount}) <= Min({pre.credit, Log(k).amount})
    BY <1>1, <2>1
  <2> QED
    BY <1>5, <2>2
<1>7. best \in SUBSET Nat /\ best \in SUBSET Keys
  BY <1>5, KeysFinite
<1>8. Min(best) \in Keys
  BY <1>6, <1>7, MinIn
<1> QED
  BY <1>5, <1>8 DEF BestFinish

\* A discovered path is counted, unless one of its hops was.
TakeHops(hops, found) ==
  IF PathKeys([hops |-> hops, located |-> TRUE]) \cap found.used # {} THEN found
  ELSE [found EXCEPT !.paths = @ \cup {[hops |-> hops, located |-> TRUE]},
                     !.returned = @ + Credit([hops |-> hops, located |-> TRUE]),
                     !.used = @ \cup PathKeys([hops |-> hops, located |-> TRUE])]

\* Discovery extends a payment by a hop to the funder, or gives it up.
Extend(pre, found, funder, most) ==
  IF Cardinality(found.paths) >= most \/ found.returned >= found.required THEN found
  ELSE IF Log(pre.hops[2]).to = funder THEN TakeHops(pre.hops, found)
  ELSE IF Finishes(pre, funder, found.used) = {} THEN found
  ELSE TakeHops(Append(pre.hops, BestFinish(pre, Finishes(pre, funder, found.used))), found)

\* What was found so far.
Finds(required, reserved) ==
  [paths : {P \in SUBSET DirectPaths : IsFiniteSet(P)}, returned : Nat, required : {required},
   used : SUBSET (reserved \cup UNION {PathKeys(p) : p \in DirectPaths})]

LEMMA TakeHopsType ==
  ASSUME TypedHistory, NEW required, NEW reserved, NEW hops \in Seq(Keys) \ {<<>>},
         NEW found \in Finds(required, reserved)
  PROVE  TakeHops(hops, found) \in Finds(required, reserved)
<1>1. PICK p \in DirectPaths : p = [hops |-> hops, located |-> TRUE]
  BY DEF DirectPaths
<1>2. PICK c \in Nat : c = Credit(p)
  <2>1. IsPath(p)
    BY <1>1 DEF IsPath
  <2> QED
    BY <2>1, CreditType
<1>3. PICK P, R, U : /\ P = found.paths \cup {p} /\ R = found.returned + c
                     /\ U = found.used \cup PathKeys(p)
  OBVIOUS
<1>4. CASE PathKeys(p) \cap found.used # {}
  BY <1>1, <1>4 DEF TakeHops
<1>5. CASE PathKeys(p) \cap found.used = {}
  <2>1. TakeHops(hops, found) = [found EXCEPT !.paths = P, !.returned = R, !.used = U]
    BY <1>1, <1>2, <1>3, <1>5 DEF TakeHops
  <2>2. IsFiniteSet(P) /\ P \in SUBSET DirectPaths
    <3>1. IsFiniteSet(found.paths) /\ found.paths \in SUBSET DirectPaths
      BY DEF Finds
    <3> QED
      BY <1>3, <3>1, FS_AddElement
  <2>3. R \in Nat
    BY <1>3 DEF Finds
  <2>4. U \in SUBSET (reserved \cup UNION {PathKeys(q) : q \in DirectPaths})
    BY <1>3 DEF Finds
  <2> QED
    BY <2>1, <2>2, <2>3, <2>4 DEF Finds
<1> QED
  BY <1>4, <1>5

LEMMA Appended ==
  ASSUME NEW D, NEW s \in Seq(D), NEW x \in D
  PROVE  Append(s, x) \in Seq(D) \ {<<>>}
<1>1. Append(s, x) \in Seq(D)
  OBVIOUS
<1>2. Len(Append(s, x)) = Len(s) + 1 /\ Len(s) \in Nat
  OBVIOUS
<1>3. Len(Append(s, x)) # 0
  BY <1>2
<1> QED
  BY <1>1, <1>3

LEMMA ExtendType ==
  ASSUME TypedHistory, NEW required, NEW reserved, NEW funder, NEW most,
         NEW pre, pre.credit \in Nat, NEW a \in Keys, NEW b \in Keys, pre.hops = <<a, b>>,
         NEW found \in Finds(required, reserved)
  PROVE  Extend(pre, found, funder, most) \in Finds(required, reserved)
<1>1. PICK F : F = Finishes(pre, funder, found.used)
  OBVIOUS
<1>2. F \in SUBSET Keys
  BY <1>1 DEF Finishes, Transfers
<1>3. CASE Extend(pre, found, funder, most) = found
  BY <1>3
<1>6. pre.hops \in Seq(Keys) \ {<<>>}
  OBVIOUS
<1>4. CASE Extend(pre, found, funder, most) = TakeHops(pre.hops, found)
  BY <1>4, <1>6, TakeHopsType
<1>5. CASE /\ F # {}
           /\ Extend(pre, found, funder, most)
                = TakeHops(Append(pre.hops, BestFinish(pre, F)), found)
  <2>1. PICK k \in Keys : k = BestFinish(pre, F)
    BY <1>2, <1>5, BestFinishIn
  <2>2. PICK hops \in Seq(Keys) : hops = pre.hops
    BY <1>6
  <2>3. Append(hops, k) \in Seq(Keys) \ {<<>>}
    BY <2>1, Appended
  <2> QED
    BY <1>5, <2>1, <2>2, <2>3, TakeHopsType
<1> QED
  BY <1>1, <1>3, <1>4, <1>5 DEF Extend


\* The recursion of discovery: h gives what is found from each subset of S.
ExtendsAll(S, funder, required, most, reserved, h) ==
  h = [s \in SUBSET S |->
         IF s = {} THEN [paths |-> {}, returned |-> 0, required |-> required, used |-> reserved]
         ELSE Extend(LastPrefix(s), h[s \ {LastPrefix(s)}], funder, most)]

\* It has a solution.
LEMMA ExtendsExist ==
  ASSUME TypedHistory, NEW S, ArePrefixes(S), NEW funder, NEW required, NEW most, NEW reserved
  PROVE  \E h : /\ ExtendsAll(S, funder, required, most, reserved, h)
                /\ h[S] \in Finds(required, reserved)
<1> DEFINE V == Finds(required, reserved)
           pick == [s \in SUBSET S |-> LastPrefix(s)]
           step == [pv \in S \X V |-> Extend(pv[1], pv[2], funder, most)]
           base == [paths |-> {}, returned |-> 0, required |-> required, used |-> reserved]
<1>1. IsFiniteSet(S) /\ \A s \in SUBSET S : s # {} => LastPrefix(s) \in s
  BY LastPrefixIn DEF ArePrefixes
<1>2. Picks(S, pick)
  BY <1>1 DEF Picks
<1>3. step \in [S \X V -> V]
  <2> SUFFICES ASSUME NEW p \in S, NEW v \in V PROVE Extend(p, v, funder, most) \in V
    OBVIOUS
  <2>1. p.credit \in Nat /\ \E a, b \in Keys : p.hops = <<a, b>>
    BY DEF ArePrefixes
  <2> QED
    BY <2>1, ExtendType
<1>4. base \in V
  BY FS_EmptySet DEF Finds
<1>5. PICK h : Folds(SUBSET S, pick, step, base, h)
  <2> HIDE DEF pick, step, base
  <2> QED
    BY <1>1, <1>2, FoldsExist
<1>6. \A s \in SUBSET S : h[s] \in V
  <2> HIDE DEF V, pick, step, base
  <2> QED
    BY <1>1, <1>2, <1>3, <1>4, <1>5, FoldsType
<1>7. \A s \in SUBSET S : s # {} =>
        step[<<pick[s], h[s \ {pick[s]}]>>]
          = Extend(LastPrefix(s), h[s \ {LastPrefix(s)}], funder, most)
  <2> SUFFICES ASSUME NEW s \in SUBSET S, s # {}
               PROVE  step[<<pick[s], h[s \ {pick[s]}]>>]
                        = Extend(LastPrefix(s), h[s \ {LastPrefix(s)}], funder, most)
    OBVIOUS
  <2>1. PICK x \in S : x = LastPrefix(s)
    BY <1>1
  <2>2. PICK v \in V : v = h[s \ {x}]
    BY <1>6
  <2>3. pick[s] = x
    BY <2>1
  <2> HIDE DEF V, pick
  <2>4. step[<<x, v>>] = Extend(x, v, funder, most)
    OBVIOUS
  <2> HIDE DEF step
  <2> QED
    BY <2>1, <2>2, <2>3, <2>4
<1>8. ExtendsAll(S, funder, required, most, reserved, h)
  <2> HIDE DEF pick, step
  <2> QED
    BY <1>5, <1>7 DEF Folds, ExtendsAll
<1>9. h[S] \in V
  <2> HIDE DEF V
  <2> QED
    BY <1>6
<1> QED
  BY <1>8, <1>9

\* The recursion has no other solution.
LEMMA ExtendsAgree ==
  ASSUME TypedHistory, NEW S, ArePrefixes(S), NEW funder, NEW required, NEW most, NEW reserved,
         NEW h, ExtendsAll(S, funder, required, most, reserved, h),
         NEW k, ExtendsAll(S, funder, required, most, reserved, k)
  PROVE  h[S] = k[S]
<1> DEFINE T == {s \in SUBSET S : h[s] = k[s]}
           pick == [s \in SUBSET S |-> LastPrefix(s)]
<1>1. IsFiniteSet(S) /\ \A s \in SUBSET S : s # {} => LastPrefix(s) \in s
  BY LastPrefixIn DEF ArePrefixes
<1>2. Picks(S, pick)
  BY <1>1 DEF Picks
<1>3. {} \in T
  BY DEF ExtendsAll
<1>4. ASSUME NEW s \in SUBSET S, s # {} /\ s \ {pick[s]} \in T PROVE s \in T
  <2>1. PICK x \in s : x = LastPrefix(s)
    BY <1>1, <1>4
  <2>2. PICK t \in SUBSET S : t = s \ {x}
    OBVIOUS
  <2>3. h[t] = k[t]
    BY <1>4, <2>1, <2>2
  <2>4. h[s] = Extend(x, h[t], funder, most)
    BY <1>4, <2>1, <2>2 DEF ExtendsAll
  <2>5. k[s] = Extend(x, k[t], funder, most)
    BY <1>4, <2>1, <2>2 DEF ExtendsAll
  <2> QED
    BY <2>3, <2>4, <2>5
<1>5. \A s \in SUBSET S : s \in T
  <2> HIDE DEF T, pick
  <2> QED
    BY <1>1, <1>2, <1>3, <1>4, SetInduct
<1> QED
  BY <1>5

\* Discovery returns finitely many paths over logs there are.
LEMMA DiscoveredArePaths ==
  ASSUME TypedHistory, NEW seller, NEW funder, NEW after, NEW required, NEW most, NEW reserved
  PROVE  ArePaths(Discover(seller, funder, after, required, most, reserved))
<1>1. PICK S : S = Payments(seller, funder, after)
  OBVIOUS
<1>2. ArePrefixes(S)
  BY <1>1, PaymentsArePrefixes
<1> DEFINE last(s) == CHOOSE p \in s : \A q \in s : ComesAfter(p, q)
           take(hops, found) ==
             IF PathKeys([hops |-> hops, located |-> TRUE]) \cap found.used # {} THEN found
             ELSE [found EXCEPT !.paths = @ \cup {[hops |-> hops, located |-> TRUE]},
                                !.returned = @ + Credit([hops |-> hops, located |-> TRUE]),
                                !.used = @ \cup PathKeys([hops |-> hops, located |-> TRUE])]
           extend(pre, found) ==
             IF Cardinality(found.paths) >= most \/ found.returned >= found.required THEN found
             ELSE IF Log(pre.hops[2]).to = funder THEN take(pre.hops, found)
             ELSE IF Finishes(pre, funder, found.used) = {} THEN found
             ELSE take(Append(pre.hops, BestFinish(pre, Finishes(pre, funder, found.used))), found)
           Table(h) ==
             h = [s \in SUBSET S |->
                    IF s = {}
                    THEN [paths |-> {}, returned |-> 0, required |-> required, used |-> reserved]
                    ELSE extend(last(s), h[s \ {last(s)}])]
           iter == CHOOSE h : Table(h)
<1>3. Discover(seller, funder, after, required, most, reserved) = iter[S].paths
  BY <1>1 DEF Discover, MapThenFoldSet
<1>4. \A h : Table(h) <=> ExtendsAll(S, funder, required, most, reserved, h)
  BY DEF ExtendsAll, Extend, TakeHops, LastPrefix
<1>5. PICK h : /\ ExtendsAll(S, funder, required, most, reserved, h)
              /\ h[S] \in Finds(required, reserved)
  BY <1>2, ExtendsExist
<1>6. ExtendsAll(S, funder, required, most, reserved, iter)
  <2>1. \E g : Table(g)
    <3> HIDE DEF Table
    <3> QED
      BY <1>4, <1>5
  <2>2. Table(iter)
    <3> HIDE DEF Table
    <3> QED
      BY <2>1
  <2> HIDE DEF Table, iter
  <2> QED
    BY <1>4, <2>2
<1>7. iter[S] \in Finds(required, reserved)
  <2> HIDE DEF iter
  <2>1. h[S] = iter[S]
    BY <1>2, <1>5, <1>6, ExtendsAgree
  <2> QED
    BY <1>5, <2>1
<1>8. iter[S].paths \in SUBSET DirectPaths /\ IsFiniteSet(iter[S].paths)
  <2> HIDE DEF iter
  <2> QED
    BY <1>7 DEF Finds
<1>9. \A p \in DirectPaths : IsPath(p)
  BY DEF DirectPaths, IsPath
<1> QED
  <2> HIDE DEF iter
  <2> QED
    BY <1>3, <1>8, <1>9 DEF ArePaths

-----------------------------------------------------------------------------
(* What a draft claim is made of *)

LEMMA RecordsFinite ==
  ASSUME NEW B, IsFiniteSet(B), NEW T, IsFiniteSet(T)
  PROVE  IsFiniteSet([buyer : B, transfer : T])
<1>1. PICK f : f = [bt \in B \X T |-> [buyer |-> bt[1], transfer |-> bt[2]]]
  OBVIOUS
<1>2. IsFiniteSet(B \X T)
  BY FS_Product
<1>3. IsFiniteSet({f[bt] : bt \in B \X T})
  BY <1>1, <1>2, ImageFinite
<1>4. ASSUME NEW r \in [buyer : B, transfer : T] PROVE r \in {f[bt] : bt \in B \X T}
  <2>1. PICK b \in B, t \in T : r = [buyer |-> b, transfer |-> t]
    OBVIOUS
  <2>2. PICK bt \in B \X T : bt = <<b, t>>
    OBVIOUS
  <2>3. f[bt] = r
    BY <1>1, <2>1, <2>2
  <2> QED
    BY <2>3
<1> QED
  BY <1>3, <1>4, FS_Subset

LEMMA SettlementKeys ==
  ASSUME TypedHistory
  PROVE  /\ SettlementRows \in SUBSET Keys /\ Transfers \in SUBSET Keys
         /\ IsFiniteSet(SettlementRows) /\ IsFiniteSet(Transfers)
<1>1. SettlementRows \in SUBSET Keys /\ Transfers \in SUBSET Keys
  BY DEF SettlementRows, Transfers
<1> QED
  BY <1>1, KeysFinite, FS_Subset

LEMMA DepositsFinite ==
  ASSUME TypedHistory
  PROVE  IsFiniteSet(DepositRecords) /\ \A f \in DepositRecords : f.transfer \in Keys
<1>1. PICK to : to = [j \in Keys |-> Log(j).to]
  OBVIOUS
<1>2. PICK B : B = {to[j] : j \in Keys}
  OBVIOUS
<1>3. IsFiniteSet(B)
  BY <1>1, <1>2, KeysFinite, ImageFinite
<1>4. IsFiniteSet([buyer : B, transfer : Transfers])
  BY <1>3, SettlementKeys, RecordsFinite
<1>5. DepositRecords \in SUBSET [buyer : B, transfer : Transfers]
  BY <1>1, <1>2 DEF DepositRecords
<1> QED
  BY <1>4, <1>5, SettlementKeys, FS_Subset

\* Finitely many fundings, each a transfer there is, of a buyer whose balance is known.
AreFundings(F) ==
  IsFiniteSet(F) /\ \A f \in F : f.transfer \in Keys /\ history.end[f.buyer] \in Nat

LEMMA CaseTypes ==
  ASSUME TypedHistory, NEW case \in history.cases
  PROVE  \/ /\ case \in LoopCases /\ case.kind = "closed-loop"
            /\ IsFiniteSet(case.buyers) /\ \A b \in case.buyers : history.end[b] \in Nat
         \/ case \in PairCases /\ case.kind # "closed-loop"
<1>1. case \in LoopCases \/ case \in PairCases
  BY DEF TypedHistory, IsHistory
<1>2. CASE case \in LoopCases
  BY <1>2 DEF TypedHistory, IsHistory, LoopCases
<1>3. CASE case \in PairCases
  BY <1>3 DEF PairCases
<1> QED
  BY <1>1, <1>2, <1>3

LEMMA LoopFundingsType ==
  ASSUME TypedHistory, NEW case, IsFiniteSet(case.buyers),
         \A b \in case.buyers : history.end[b] \in Nat
  PROVE  AreFundings(LoopFundings(case))
<1>1. PICK F : F = DepositRecords \cup [buyer : case.buyers, transfer : Transfers]
  OBVIOUS
<1>2. IsFiniteSet(F)
  BY <1>1, SettlementKeys, RecordsFinite, DepositsFinite, FS_Union
<1>3. \A f \in F : f.transfer \in Keys
  BY <1>1, SettlementKeys, DepositsFinite
<1>4. LoopFundings(case) \in SUBSET F /\ \A f \in LoopFundings(case) : f.buyer \in case.buyers
  BY <1>1 DEF LoopFundings
<1> QED
  BY <1>2, <1>3, <1>4, FS_Subset DEF AreFundings

-----------------------------------------------------------------------------
(* Its returns *)

\* The paths the analysis knows are finitely many.
LEMMA KnownAreFinite ==
  ASSUME TypedHistory, NEW seller, NEW funder
  PROVE  /\ IsFiniteSet(DirectReturns(seller, funder)) /\ IsFiniteSet(KnownReturns(seller, funder))
         /\ \A p \in DirectReturns(seller, funder) \cup KnownReturns(seller, funder) :
              p.hops \in Seq(Keys)
<1>1. PICK K : K = {k \in Transfers : /\ Log(k).from = seller /\ Log(k).to = funder
                                     /\ Log(k).amount > 0}
  OBVIOUS
<1>2. PICK f : f = [i \in K |-> Located(<<i>>)]
  OBVIOUS
<1>3. DirectReturns(seller, funder) = {f[i] : i \in K}
  BY <1>1, <1>2 DEF DirectReturns
<1>4. K \in SUBSET Keys /\ IsFiniteSet(K)
  BY <1>1, SettlementKeys, FS_Subset
<1>5. IsFiniteSet(DirectReturns(seller, funder))
  <2>1. DOMAIN f = K
    BY <1>2
  <2>2. IsFiniteSet({f[i] : i \in K})
    BY <1>4, <2>1, ImageFinite
  <2> QED
    BY <1>3, <2>2
<1>6. IsFiniteSet(history.known) /\ history.known \subseteq Seq(Keys)
  BY DEF TypedHistory, IsHistory, Keys
<1>7. PICK g : g = [hops \in history.known |-> [hops |-> hops, located |-> FALSE]]
  OBVIOUS
<1>8. KnownReturns(seller, funder) \in SUBSET {g[hops] : hops \in history.known}
  BY <1>7 DEF KnownReturns
<1>9. IsFiniteSet(KnownReturns(seller, funder))
  <2>1. PICK D : D = history.known
    OBVIOUS
  <2>2. DOMAIN g = D /\ IsFiniteSet(D)
    BY <1>6, <1>7, <2>1
  <2>3. IsFiniteSet({g[hops] : hops \in D})
    BY <2>2, ImageFinite
  <2> QED
    BY <1>8, <2>1, <2>3, FS_Subset
<1>10. \A p \in KnownReturns(seller, funder) : p.hops \in Seq(Keys)
  BY <1>6, <1>7, <1>8
<1>11. ASSUME NEW p \in DirectReturns(seller, funder) PROVE p.hops \in Seq(Keys)
  <2>1. PICK i \in K : p = f[i]
    BY <1>3
  <2>2. p.hops = <<i>>
    BY <1>2, <2>1 DEF Located
  <2> QED
    BY <1>4, <2>2
<1> QED
  BY <1>5, <1>9, <1>10, <1>11

\* Of paths over logs there are, the valid ones have a hop.
LEMMA ValidArePaths ==
  ASSUME NEW S, IsFiniteSet(S), \A p \in S : p.hops \in Seq(Keys), NEW after
  PROVE  ArePaths(ValidOf(S, after))
<1>1. ValidOf(S, after) \in SUBSET S
  BY DEF ValidOf
<1>2. ASSUME NEW p \in ValidOf(S, after) PROVE IsPath(p)
  <2>1. Len(p.hops) \in 1 .. 9
    BY DEF ValidOf, ValidReturn
  <2>2. p.hops # <<>>
    BY <2>1
  <2> QED
    BY <1>1, <2>2 DEF IsPath
<1> QED
  BY <1>1, <1>2, FS_Subset DEF ArePaths

LEMMA RequiredType ==
  ASSUME NEW volume \in Nat, NEW bps \in Nat
  PROVE  RequiredReturn(volume, bps) \in Nat
<1>1. PICK n \in Nat : n = volume * bps
  OBVIOUS
<1>2. (n + 9999) \div 10000 \in Nat
  OBVIOUS
<1> QED
  BY <1>1, <1>2 DEF RequiredReturn

\* The returns of a draft are paths that are valid after its first settlement.
LEMMA LoopReturnsAreValid ==
  ASSUME TypedHistory, NEW seller, NEW funder, NEW volume \in Nat, NEW after, NEW bps \in Nat
  PROVE  /\ ArePaths(LoopReturns(seller, funder, volume, after, bps).paths)
         /\ \A p \in LoopReturns(seller, funder, volume, after, bps).paths : ValidReturn(p, after)
<1>0. MaxReturns \in Nat
  BY SnapshotAssumption
<1>1. PICK known : known = {p \in DirectReturns(seller, funder) \cup KnownReturns(seller, funder) :
                              Time(p.hops[1]) > after}
  OBVIOUS
<1>2. IsFiniteSet(known) /\ \A p \in known : p.hops \in Seq(Keys)
  <2>1. IsFiniteSet(DirectReturns(seller, funder) \cup KnownReturns(seller, funder))
    BY KnownAreFinite, FS_Union
  <2> QED
    BY <1>1, <2>1, KnownAreFinite, FS_Subset
<1>3. PICK required \in Nat : required = RequiredReturn(volume, bps)
  BY RequiredType
<1>4. PICK first : first = SelectReturns(known, required, after, MaxReturns, {})
  OBVIOUS
<1>5. first.paths \in SUBSET ValidOf(known, after) /\ ArePaths(ValidOf(known, after))
  <2>1. ArePaths(ValidOf(known, after))
    BY <1>2, ValidArePaths
  <2> QED
    BY <1>0, <1>4, <2>1, Selects DEF CountedOf
<1>6. PICK found : found = Discover(seller, funder, after, required - first.returned,
                                    MaxReturns - Cardinality(first.paths), first.used)
  OBVIOUS
<1>7. ArePaths(found)
  BY <1>6, DiscoveredArePaths
<1>8. PICK both : both = first.paths \cup found
  OBVIOUS
<1>9. IsFiniteSet(both) /\ \A p \in both : p.hops \in Seq(Keys)
  <2>1. IsFiniteSet(first.paths)
    BY <1>5, FS_Subset DEF ArePaths
  <2> QED
    BY <1>5, <1>7, <1>8, <2>1, FS_Union DEF ArePaths, IsPath
<1>10. PICK second : second = SelectReturns(both, required, after, MaxReturns, {})
  OBVIOUS
<1>11. second.paths \in SUBSET ValidOf(both, after) /\ ArePaths(ValidOf(both, after))
  <2>1. ArePaths(ValidOf(both, after))
    BY <1>9, ValidArePaths
  <2> QED
    BY <1>0, <1>10, <2>1, Selects DEF CountedOf
<1>12. \/ LoopReturns(seller, funder, volume, after, bps) = first
       \/ LoopReturns(seller, funder, volume, after, bps) = second
  BY <1>1, <1>3, <1>4, <1>6, <1>8, <1>10 DEF LoopReturns
<1>13. ASSUME NEW P, NEW S, P \in SUBSET ValidOf(S, after), ArePaths(ValidOf(S, after))
       PROVE  ArePaths(P) /\ \A p \in P : ValidReturn(p, after)
  BY <1>13, FS_Subset DEF ArePaths, ValidOf
<1> QED
  BY <1>5, <1>11, <1>12, <1>13

-----------------------------------------------------------------------------
(* Claims *)

\* A claim of a closed loop, its evidence on the chain and its returns valid ones.
IsLoop(c) ==
  /\ c = [kind |-> "closed-loop", seller |-> c.seller, funder |-> c.funder, buyers |-> c.buyers,
          volume |-> c.volume, fundings |-> c.fundings, settlements |-> c.settlements,
          returns |-> c.returns]
  /\ c.volume \in Nat
  /\ AreFundings(c.fundings) /\ c.settlements \in SUBSET SettlementRows
  /\ ArePaths(c.returns) /\ \A p \in c.returns : ValidReturn(p, 0)
\* A claim of a reciprocal pair, its settlements on the chain.
IsPair(c) ==
  /\ c = [kind |-> "reciprocal", a |-> c.a, b |-> c.b, soldA |-> c.soldA, soldB |-> c.soldB,
          settlements |-> c.settlements, fundings |-> c.fundings]
  /\ IsFiniteSet(c.fundings) /\ c.settlements \in SUBSET SettlementRows
\* Finitely many claims of the two kinds.
AreClaims(C) == IsFiniteSet(C) /\ \A c \in C : IsLoop(c) \/ IsPair(c)

LEMMA OneIsFinite ==
  ASSUME NEW S, \A x, y \in S : x = y
  PROVE  IsFiniteSet(S)
<1>1. CASE S = {}
  BY <1>1, FS_EmptySet
<1>2. CASE S # {}
  <2>1. PICK x : S = {x}
    BY <1>2
  <2> QED
    BY <2>1, FS_Singleton
<1> QED
  BY <1>1, <1>2

LEMMA KindOfClaim ==
  ASSUME NEW c, IsLoop(c) \/ IsPair(c)
  PROVE  /\ IsLoop(c) <=> c.kind = "closed-loop"
         /\ IsPair(c) <=> c.kind = "reciprocal"
<1>1. IsLoop(c) => c.kind = "closed-loop"
  BY DEF IsLoop
<1>2. IsPair(c) => c.kind = "reciprocal"
  BY DEF IsPair
<1> QED
  BY <1>1, <1>2

\* A path that is valid after some time is valid after an earlier one.
LEMMA ValidSooner ==
  ASSUME TypedHistory, NEW after \in Nat, NEW p, IsPath(p), ValidReturn(p, after)
  PROVE  ValidReturn(p, 0)
<1>1. PICK i \in Keys : i = p.hops[1]
  <2>1. Entries(p.hops) \in SUBSET Keys /\ Len(p.hops) \in Nat \ {0}
    BY HopsAreKeys
  <2>2. 1 \in DOMAIN p.hops
    BY <2>1 DEF IsPath
  <2> QED
    BY <2>1, <2>2 DEF Entries
<1>2. PICK t \in Nat : t = Time(i)
  BY LogTypes
<1>3. t > after
  BY <1>1, <1>2 DEF ValidReturn
<1>4. t > 0
  BY <1>3
<1> QED
  BY <1>1, <1>2, <1>4 DEF ValidReturn

\* A case of a closed loop is drafted as such a claim,
LEMMA DraftLoopMade ==
  ASSUME TypedHistory, NEW bps \in Nat, NEW case \in LoopCases, IsFiniteSet(case.buyers),
         \A b \in case.buyers : history.end[b] \in Nat, NEW c \in DraftLoop(case, bps)
  PROVE  IsLoop(c)
<1>1. PICK F : F = LoopFundings(case)
  OBVIOUS
<1>2. PICK S : S = LoopSettlements(case, F)
  OBVIOUS
<1>3. PICK N : N = Counted(S, F)
  OBVIOUS
<1>4. PICK after : after = Min({Time(i) : i \in N})
  OBVIOUS
<1>5. PICK R : R = LoopReturns(case.seller, case.funder, case.volume, after, bps)
  OBVIOUS
<1>6. /\ N # {}
      /\ \E P \in {{}, R.paths} :
           c = [kind |-> "closed-loop", seller |-> case.seller, funder |-> case.funder,
                buyers |-> Buyers(F), volume |-> case.volume, fundings |-> F,
                settlements |-> S, returns |-> P]
  BY <1>1, <1>2, <1>3, <1>4, <1>5 DEF DraftLoop
<1>7. AreFundings(F)
  BY <1>1, LoopFundingsType
<1>8. S \in SUBSET SettlementRows
  BY <1>2 DEF LoopSettlements
<1>9. N \in SUBSET Keys
  BY <1>3, <1>8, SettlementKeys DEF Counted
<1>10. after \in Nat
  <2>1. PICK T : T = {Time(i) : i \in N}
    OBVIOUS
  <2>2. T \in SUBSET Nat /\ T # {}
    BY <1>6, <1>9, <2>1, LogTypes
  <2> QED
    BY <1>4, <2>1, <2>2, MinIn
<1>11. case.volume \in Nat
  BY DEF LoopCases
<1>12. ArePaths(R.paths) /\ \A p \in R.paths : ValidReturn(p, after)
  BY <1>5, <1>11, LoopReturnsAreValid
<1>13. \A p \in R.paths : ValidReturn(p, 0)
  BY <1>10, <1>12, ValidSooner DEF ArePaths
<1>14. ArePaths({})
  BY FS_EmptySet DEF ArePaths
<1> QED
  BY <1>6, <1>7, <1>8, <1>11, <1>12, <1>13, <1>14 DEF IsLoop

\* and a reciprocal case as a claim of a pair.
LEMMA DraftPairMade ==
  ASSUME TypedHistory, NEW case, NEW c \in DraftPair(case)
  PROVE  IsPair(c)
<1>1. PICK F : F = {f \in DepositRecords : /\ f.buyer \in {case.a, case.b}
                                          /\ Log(f.transfer).from \in {case.a, case.b}}
  OBVIOUS
<1>2. PICK S : S = {i \in SettlementRows : {Log(i).from, Log(i).to} = {case.a, case.b}}
  OBVIOUS
<1>3. c = [kind |-> "reciprocal", a |-> case.a, b |-> case.b,
            soldA |-> case.soldA, soldB |-> case.soldB, settlements |-> S, fundings |-> F]
  BY <1>1, <1>2 DEF DraftPair
<1>4. IsFiniteSet(F) /\ S \in SUBSET SettlementRows
  BY <1>1, <1>2, DepositsFinite, FS_Subset
<1> QED
  BY <1>3, <1>4 DEF IsPair

\* The draft bundle has finitely many claims, well made.
LEMMA DraftsMade ==
  ASSUME TypedHistory, NEW bps \in Nat
  PROVE  AreClaims(Drafts(bps))
<1>1. PICK D : D = [case \in history.cases |-> Draft(case, bps)]
  OBVIOUS
<1>2. Drafts(bps) = UNION {D[case] : case \in history.cases}
  BY <1>1 DEF Drafts
<1>3. ASSUME NEW case \in history.cases
      PROVE  AreClaims(D[case])
  <2>1. CASE /\ case \in LoopCases /\ case.kind = "closed-loop"
             /\ IsFiniteSet(case.buyers) /\ \A b \in case.buyers : history.end[b] \in Nat
    <3>1. D[case] = DraftLoop(case, bps)
      BY <1>1, <2>1 DEF Draft
    <3>2. \A c \in D[case] : IsLoop(c)
      BY <2>1, <3>1, DraftLoopMade
    <3>3. \A x, y \in D[case] : x = y
      BY <3>1 DEF DraftLoop
    <3> QED
      BY <3>2, <3>3, OneIsFinite DEF AreClaims
  <2>2. CASE case.kind # "closed-loop"
    <3>1. D[case] = DraftPair(case)
      BY <1>1, <2>2 DEF Draft
    <3>2. \A c \in D[case] : IsPair(c)
      BY <3>1, DraftPairMade
    <3>3. \A x, y \in D[case] : x = y
      BY <3>1 DEF DraftPair
    <3> QED
      BY <3>2, <3>3, OneIsFinite DEF AreClaims
  <2> QED
    BY <2>1, <2>2, CaseTypes
<1>4. PICK all : all = {D[case] : case \in history.cases}
  OBVIOUS
<1>5. IsFiniteSet(all)
  <2>1. IsFiniteSet(history.cases)
    BY DEF TypedHistory, IsHistory
  <2>2. PICK C : C = history.cases
    OBVIOUS
  <2>3. DOMAIN D = C /\ IsFiniteSet(C)
    BY <1>1, <2>1, <2>2
  <2>4. IsFiniteSet({D[case] : case \in C})
    BY <2>3, ImageFinite
  <2> QED
    BY <1>4, <2>2, <2>4
<1>6. IsFiniteSet(UNION all)
  <2>1. \A T \in all : IsFiniteSet(T)
    BY <1>3, <1>4 DEF AreClaims
  <2> QED
    BY <1>5, <2>1, FS_UNION
<1>7. \A c \in UNION all : IsLoop(c) \/ IsPair(c)
  BY <1>3, <1>4 DEF AreClaims
<1> QED
  BY <1>2, <1>4, <1>6, <1>7 DEF AreClaims

-----------------------------------------------------------------------------
(* Evidence looked up *)

\* What a loop is planned from: evidence on the chain.
IsEvidence(d) ==
  /\ AreFundings(d.fundings) /\ d.settlements \in SUBSET SettlementRows /\ ArePaths(d.returns)

LEMMA LoopIsEvidence ==
  ASSUME NEW c, IsLoop(c)
  PROVE  IsEvidence(c)
  BY DEF IsLoop, IsEvidence

\* The same path with its log indices known is as valid: no more keys than hops, and no
\* fewer than there were without them.
LEMMA LocatedValid ==
  ASSUME TypedHistory, NEW p, IsPath(p), ValidReturn(p, 0)
  PROVE  IsPath(Located(p.hops)) /\ ValidReturn(Located(p.hops), 0)
<1>1. PICK hops \in Seq(Keys) : hops = p.hops /\ hops # <<>>
  BY DEF IsPath
<1>2. PICK q : q = Located(hops)
  OBVIOUS
<1>3. q.hops = hops /\ q.located = TRUE
  BY <1>2 DEF Located
<1>4. PICK n \in 1 .. 9 : n = Len(hops) /\ Cardinality(PathKeys(p)) = n
  BY <1>1 DEF ValidReturn
<1>5. PICK key : key = [m \in 1 .. n |-> TransferKey(hops[m], TRUE)]
  OBVIOUS
<1>6. PathKeys(q) = {key[m] : m \in 1 .. n}
  <2>1. DOMAIN hops = 1 .. n
    BY <1>4
  <2> QED
    BY <1>3, <1>5, <2>1 DEF PathKeys, Entries
<1>7. IsFiniteSet(PathKeys(q)) /\ Cardinality(PathKeys(q)) <= n
  <2>1. PICK D : D = 1 .. n
    OBVIOUS
  <2>2. 1 \in Int /\ n \in Int
    OBVIOUS
  <2>3. IsFiniteSet(1 .. n) /\ Cardinality(1 .. n) = IF 1 > n THEN 0 ELSE n - 1 + 1
    BY <2>2, FS_Interval
  <2>4. IsFiniteSet(D) /\ Cardinality(D) = n
    BY <2>1, <2>3
  <2>5. DOMAIN key = D
    BY <1>5, <2>1
  <2>6. /\ IsFiniteSet({key[m] : m \in D})
        /\ Cardinality({key[m] : m \in D}) <= Cardinality(D)
    BY <2>4, <2>5, ImageFinite
  <2> QED
    BY <1>6, <2>1, <2>4, <2>6
<1>8. PICK bare : bare = [k \in PathKeys(q) |-> <<k[1], k[2], IF p.located THEN k[3] ELSE 0>>]
  OBVIOUS
<1>9. PathKeys(p) = {bare[k] : k \in PathKeys(q)}
  <2>1. \A i : TransferKey(i, TRUE) \in PathKeys(q) =>
          bare[TransferKey(i, TRUE)] = TransferKey(i, p.located)
    BY <1>8 DEF TransferKey
  <2>2. PathKeys(q) = {TransferKey(i, TRUE) : i \in Entries(hops)}
    BY <1>3 DEF PathKeys
  <2>3. PathKeys(p) = {TransferKey(i, p.located) : i \in Entries(hops)}
    BY <1>1 DEF PathKeys
  <2>4. PICK E, K : E = Entries(hops) /\ K = PathKeys(q)
    OBVIOUS
  <2>5. PICK full : full = [i \in E |-> TransferKey(i, TRUE)]
    OBVIOUS
  <2>6. PICK short : short = [i \in E |-> TransferKey(i, p.located)]
    OBVIOUS
  <2>7. /\ \A i \in E : full[i] = TransferKey(i, TRUE) /\ short[i] = TransferKey(i, p.located)
        /\ K = {full[i] : i \in E} /\ PathKeys(p) = {short[i] : i \in E}
    BY <2>2, <2>3, <2>4, <2>5, <2>6
  <2>8. \A i \in E : bare[full[i]] = short[i]
    <3> SUFFICES ASSUME NEW i \in E PROVE bare[full[i]] = short[i]
      OBVIOUS
    <3>1. full[i] = TransferKey(i, TRUE) /\ short[i] = TransferKey(i, p.located)
      BY <2>7
    <3>2. full[i] \in PathKeys(q)
      BY <2>4, <2>7
    <3> QED
      BY <2>1, <3>1, <3>2
  <2>9. {short[i] : i \in E} = {bare[k] : k \in K}
    BY <2>7, <2>8
  <2> QED
    BY <2>4, <2>7, <2>9
<1>10. Cardinality(PathKeys(p)) <= Cardinality(PathKeys(q))
  BY <1>7, <1>8, <1>9, ImageFinite
<1>11. Cardinality(PathKeys(q)) = n
  <2>1. Cardinality(PathKeys(q)) \in Nat
    BY <1>7, FS_CardinalityType
  <2> QED
    BY <1>4, <1>7, <1>10, <2>1
<1>12. ValidReturn(q, 0)
  BY <1>1, <1>3, <1>4, <1>11 DEF ValidReturn, Precedes
<1> QED
  BY <1>1, <1>2, <1>3, <1>12 DEF IsPath

\* What is looked up of a claim is evidence on the chain.
LEMMA ResolvedLoop ==
  ASSUME TypedHistory, NEW c, IsLoop(c), NEW lost
  PROVE  /\ IsEvidence(Resolved(c, lost))
         /\ \A p \in Resolved(c, lost).returns : ValidReturn(p, 0)
<1>1. PICK F, S, R : /\ F = ResolvedFundings(c, lost) /\ S = ResolvedSettlements(c, lost)
                     /\ R = ResolvedReturns(c, lost)
  OBVIOUS
<1>2. PICK d : d = Resolved(c, lost)
  OBVIOUS
<1>3. d.fundings = F /\ d.settlements = S /\ d.returns = R
  <2>1. d = [c EXCEPT !.fundings = F, !.settlements = S, !.returns = R]
    BY <1>1, <1>2 DEF Resolved, IsLoop
  <2> QED
    BY <2>1 DEF IsLoop
<1>4. AreFundings(F)
  <2>1. F \in SUBSET c.fundings
    BY <1>1 DEF ResolvedFundings
  <2> QED
    BY <2>1, FS_Subset DEF IsLoop, AreFundings
<1>5. S \in SUBSET SettlementRows
  BY <1>1 DEF ResolvedSettlements, IsLoop
<1>6. PICK P, f : /\ P = {q \in c.returns : \A i \in Entries(q.hops) :
                                              Found(i, lost) /\ HopFound(i, q.located)}
                  /\ f = [p \in P |-> Located(p.hops)]
  OBVIOUS
<1>7. R = {f[p] : p \in P}
  BY <1>1, <1>6 DEF ResolvedReturns
<1>8. IsFiniteSet(R)
  <2>1. IsFiniteSet(P) /\ DOMAIN f = P
    BY <1>6, FS_Subset DEF IsLoop, ArePaths
  <2> QED
    BY <1>7, <2>1, ImageFinite
<1>9. \A r \in R : IsPath(r) /\ ValidReturn(r, 0)
  <2> SUFFICES ASSUME NEW p \in P PROVE IsPath(f[p]) /\ ValidReturn(f[p], 0)
    BY <1>7
  <2>1. IsPath(p) /\ ValidReturn(p, 0)
    BY <1>6 DEF IsLoop, ArePaths
  <2> QED
    BY <1>6, <2>1, LocatedValid
<1> QED
  BY <1>2, <1>3, <1>4, <1>5, <1>8, <1>9 DEF IsEvidence, ArePaths

LEMMA ResolvedPair ==
  ASSUME NEW c, IsPair(c), NEW lost
  PROVE  /\ Resolved(c, lost).fundings \subseteq c.fundings
         /\ Resolved(c, lost).settlements \subseteq c.settlements
<1>1. PICK F, S : F = ResolvedFundings(c, lost) /\ S = ResolvedSettlements(c, lost)
  OBVIOUS
<1>2. PICK d : d = Resolved(c, lost)
  OBVIOUS
<1>3. d = [c EXCEPT !.fundings = F, !.settlements = S]
  BY <1>1, <1>2 DEF Resolved, IsPair
<1>4. d.fundings = F /\ d.settlements = S
  BY <1>3 DEF IsPair
<1>5. F \subseteq c.fundings /\ S \subseteq c.settlements
  BY <1>1 DEF ResolvedFundings, ResolvedSettlements
<1> QED
  BY <1>2, <1>4, <1>5

-----------------------------------------------------------------------------
(* Returns chosen *)

LEMMA ReturnedPositive ==
  ASSUME TypedHistory, NEW C, ArePaths(C), C # {}, \A p \in C : ValidReturn(p, 0)
  PROVE  Returned(C) > 0
<1>1. PICK p \in C : TRUE
  OBVIOUS
<1>2. Credit(p) > 0
  <2>1. PICK S : S = {Log(i).amount : i \in Entries(p.hops)}
    OBVIOUS
  <2>2. IsPath(p)
    BY DEF ArePaths
  <2>3. S \in SUBSET Nat /\ S # {}
    BY <2>1, <2>2, HopsAreKeys, LogTypes
  <2>4. \A x \in S : x > 0
    BY <2>1 DEF ValidReturn
  <2>5. Min(S) \in S
    BY <2>3, MinIn
  <2> QED
    BY <2>1, <2>4, <2>5 DEF Credit
<1>3. PICK g : g = credits(C)
  OBVIOUS
<1>4. IsFiniteSet(C) /\ g \in [C -> Nat] /\ g[p] = Credit(p)
  BY <1>3, CreditsTyped DEF credits
<1>5. PICK s \in SUBSET C : s = C \ {p}
  OBVIOUS
<1>6. p \in C \ s /\ s \cup {p} = C
  BY <1>5
<1>7. SumOver(g, s \cup {p}) = SumOver(g, s) + g[p]
  BY <1>4, <1>6, SumOverMore
<1>8. SumOver(g, s) \in Nat
  BY <1>4, SumOverType
<1>9. Returned(C) = SumOver(g, C)
  <2>1. C \in SUBSET C
    OBVIOUS
  <2> QED
    BY <1>3, <2>1, ReturnedIsSum
<1>10. Credit(p) \in Nat
  BY CreditType DEF ArePaths
<1> QED
  BY <1>2, <1>4, <1>6, <1>7, <1>8, <1>9, <1>10

LEMMA ClosureArePaths ==
  ASSUME NEW d, ArePaths(d.returns)
  PROVE  Closure(d) \in SUBSET d.returns /\ ArePaths(Closure(d))
<1>1. Closure(d) \in SUBSET d.returns
  BY DEF Closure
<1> QED
  BY <1>1, FS_Subset DEF ArePaths

\* The returns chosen for evidence d: disjoint valid paths of its closure, not too many.
ChosenOf(d, P) ==
  /\ P \in SUBSET Closure(d) /\ ArePaths(P) /\ \A p \in P : ValidReturn(p, 0)
  /\ Disjoint(P) /\ Cardinality(P) <= MaxReturns

\* Enough is returned where the required return is.
LEMMA RequiredCovers ==
  ASSUME NEW volume \in Nat, NEW credit \in Nat, NEW bps \in Nat \ {0}
  PROVE  credit * 10000 >= volume * bps <=> credit >= RequiredReturn(volume, bps)
<1>1. PICK m \in Nat : m = volume * bps
  OBVIOUS
<1>2. credit * 10000 >= m <=> credit >= (m + 9999) \div 10000
  OBVIOUS
<1> QED
  BY <1>1, <1>2 DEF RequiredReturn

\* The returns cover the volume of the claim.
CoversVolume(c, P, bps) == Returned(P) * 10000 >= c.volume * bps

\* Whatever is chosen is some of the closure, and enough of it for a volume that is not
\* free; if it is free and the returns are valid, only a self-funded loop is left without.
LEMMA ChosenPart ==
  ASSUME TypedHistory, NEW c, c.volume \in Nat, NEW d, ArePaths(d.returns),
         NEW free \in BOOLEAN, NEW bps \in Nat \ {0}, NEW P \in ChosenReturns(c, d, free, bps)
  PROVE  /\ ChosenOf(d, P) /\ (SelfFunded(c) => P = {})
         /\ (~SelfFunded(c) /\ free /\ \A p \in d.returns : ValidReturn(p, 0)) => P # {}
         /\ (~SelfFunded(c) /\ ~free) => CoversVolume(c, P, bps)
<1>0. MaxReturns \in Nat /\ MaxReturns > 0
  BY SnapshotAssumption
<1>1. CASE SelfFunded(c)
  <2>1. P = {}
    BY <1>1 DEF ChosenReturns
  <2>2. ArePaths({}) /\ Cardinality({}) = 0
    BY FS_EmptySet DEF ArePaths
  <2> QED
    BY <1>0, <1>1, <2>1, <2>2 DEF ChosenOf, Disjoint
<1>2. CASE ~SelfFunded(c)
  <2>1. PICK C : C = Closure(d)
    OBVIOUS
  <2>2. C # {} /\ P = ClosureSelected(c, C, free, bps).paths
    BY <1>2, <2>1 DEF ChosenReturns
  <2>3. ArePaths(C) /\ C \in SUBSET d.returns
    BY <2>1, ClosureArePaths
  <2>4. PICK required \in Nat : required = IF free THEN Returned(C) ELSE RequiredReturn(c.volume, bps)
    BY <2>3, ReturnedType, RequiredType
  <2>5. PICK k : k = SelectReturns(C, required, 0, MaxReturns, {})
    OBVIOUS
  <2>6. P = k.paths
    BY <2>2, <2>4, <2>5 DEF ClosureSelected
  <2>7. PICK V : V = ValidOf(C, 0)
    OBVIOUS
  <2>8. V \in SUBSET C /\ \A p \in V : ValidReturn(p, 0)
    BY <2>7 DEF ValidOf
  <2>9. ArePaths(V)
    BY <2>3, <2>8, FS_Subset DEF ArePaths
  <2>10. CountedOf(V, k, required, MaxReturns)
    BY <1>0, <2>5, <2>7, <2>9, Selects
  <2>11. /\ P \in SUBSET V /\ Disjoint(P) /\ Cardinality(P) <= MaxReturns
         /\ (V # {} /\ required > 0) => P # {}
    BY <1>0, <2>6, <2>10 DEF CountedOf
  <2>12. ArePaths(P)
    BY <2>9, <2>11, FS_Subset DEF ArePaths
  <2>13. ASSUME free, \A p \in d.returns : ValidReturn(p, 0) PROVE P # {}
    <3>1. V = C /\ required = Returned(C)
      BY <2>3, <2>4, <2>7, <2>13 DEF ValidOf
    <3>2. Returned(C) > 0
      BY <2>2, <2>3, <2>13, ReturnedPositive
    <3> QED
      BY <2>2, <2>11, <3>1, <3>2
  <2>14. ASSUME ~free PROVE CoversVolume(c, P, bps)
    <3>1. k = ClosureSelected(c, C, free, bps) /\ required = RequiredReturn(c.volume, bps)
      BY <2>4, <2>5, <2>14 DEF ClosureSelected
    <3>2. k.returned >= k.required
      BY <1>2, <2>1, <2>14, <3>1 DEF ChosenReturns
    <3>3. k.required = required /\ k.returned \in Nat /\ k.returned = Returned(P)
      BY <2>6, <2>10 DEF CountedOf
    <3>4. PICK credit \in Nat : credit = Returned(P) /\ credit >= RequiredReturn(c.volume, bps)
      BY <3>1, <3>2, <3>3
    <3>5. credit * 10000 >= c.volume * bps
      BY <3>4, RequiredCovers
    <3> QED
      BY <3>4, <3>5 DEF CoversVolume
  <2> QED
    BY <1>2, <2>1, <2>8, <2>11, <2>12, <2>13, <2>14 DEF ChosenOf
<1> QED
  BY <1>1, <1>2

LEMMA ReturnCapacityType ==
  ASSUME TypedHistory, NEW P, ArePaths(P), NEW bps \in Nat \ {0}
  PROVE  ReturnCapacity(P, bps) \in Nat
<1>1. PICK n \in Nat : n = Returned(P)
  BY ReturnedType
<1>2. PICK m \in Nat : m = n * 10000
  OBVIOUS
<1>3. m \div bps \in Nat
  OBVIOUS
<1> QED
  BY <1>1, <1>2, <1>3 DEF ReturnCapacity

\* Nothing of what a buyer settled is beyond its ledger.
KeptWhole(d, b) ==
  LET S == {i \in Eligible(d) : Log(i).from = b}
  IN WithinLedger(S, FundingsOf(d.fundings, b), BalanceEnd(b)) = S

\* Selected settlements are some of the eligible ones, with all that have no amount; if
\* all are selected, each buyer's are within its ledger.
LEMMA SelectedPart ==
  ASSUME TypedHistory, NEW d, IsEvidence(d), NEW P, ArePaths(P), NEW ledger, NEW bps \in Nat \ {0}
  PROVE  /\ SelectSettlements(d, P, ledger, bps) \in SUBSET Eligible(d)
         /\ Eligible(d) \in SUBSET d.settlements /\ Eligible(d) \in SUBSET Keys
         /\ Keeps(SelectSettlements(d, P, ledger, bps), Eligible(d))
         /\ (ledger /\ SelectSettlements(d, P, ledger, bps) = Eligible(d))
              => \A b \in Buyers(d.fundings) : KeptWhole(d, b)
<1>1. PICK E : E = Eligible(d)
  OBVIOUS
<1>2. E \in SUBSET d.settlements /\ E \in SUBSET Keys
  BY <1>1, SettlementKeys DEF Eligible, IsEvidence
<1>3. PICK of, G : /\ of = [b \in Buyers(d.fundings) |-> {i \in E : Log(i).from = b}]
                   /\ G = UNION {WithinLedger(of[b], FundingsOf(d.fundings, b), BalanceEnd(b)) :
                                    b \in Buyers(d.fundings)}
  OBVIOUS
<1>4. PICK funded : funded = IF ~ledger THEN E ELSE G
  OBVIOUS
<1>5. SelectSettlements(d, P, ledger, bps)
        = IF P = {} THEN funded ELSE WithinCapacity(funded, ReturnCapacity(P, bps))
  BY <1>1, <1>3, <1>4 DEF SelectSettlements
<1>6. ASSUME NEW b \in Buyers(d.fundings)
      PROVE  Keeps(WithinLedger(of[b], FundingsOf(d.fundings, b), BalanceEnd(b)), of[b])
  <2>1. PICK S \in SUBSET E : S = of[b]
    BY <1>3
  <2>2. PICK F : F = FundingsOf(d.fundings, b)
    OBVIOUS
  <2>3. IsFiniteSet(F) /\ \A f \in F : f.transfer \in Keys
    BY <2>2, FS_Subset DEF FundingsOf, IsEvidence, AreFundings
  <2>4. PICK balance \in Nat : balance = BalanceEnd(b)
    BY DEF Buyers, IsEvidence, AreFundings, BalanceEnd
  <2>5. S \in SUBSET Keys
    BY <1>2
  <2>6. Keeps(WithinLedger(S, F, balance), S)
    BY <2>3, <2>5, LedgerKeeps
  <2> QED
    BY <2>1, <2>2, <2>4, <2>6
<1>7. Keeps(G, E)
  <2>1. G \in SUBSET E
    <3> SUFFICES ASSUME NEW i \in G PROVE i \in E
      OBVIOUS
    <3>1. PICK b \in Buyers(d.fundings) :
            i \in WithinLedger(of[b], FundingsOf(d.fundings, b), BalanceEnd(b))
      BY <1>3
    <3>2. i \in of[b]
      BY <1>6, <3>1 DEF Keeps
    <3> QED
      BY <1>3, <3>2
  <2>2. ASSUME NEW i \in E, Log(i).amount = 0 PROVE i \in G
    <3>1. PICK b \in Buyers(d.fundings) : b = Log(i).from
      BY <1>1 DEF Eligible, FundingsOf, Buyers
    <3>2. i \in of[b]
      BY <1>3, <3>1
    <3>3. i \in WithinLedger(of[b], FundingsOf(d.fundings, b), BalanceEnd(b))
      BY <1>6, <2>2, <3>2 DEF Keeps
    <3> QED
      BY <1>3, <3>3
  <2> QED
    BY <2>1, <2>2 DEF Keeps
<1>8. Keeps(funded, E) /\ funded \in SUBSET Keys
  BY <1>2, <1>4, <1>7 DEF Keeps
<1>9. PICK capacity \in Nat : capacity = ReturnCapacity(P, bps)
  BY ReturnCapacityType
<1>10. Keeps(WithinCapacity(funded, capacity), funded)
  BY <1>8, CapacityKeeps
<1>11. PICK selected : selected = SelectSettlements(d, P, ledger, bps)
  OBVIOUS
<1>12. Keeps(selected, funded) /\ Keeps(selected, E)
  BY <1>5, <1>8, <1>9, <1>10, <1>11 DEF Keeps
<1>13. ASSUME ledger, selected = E, NEW b \in Buyers(d.fundings) PROVE KeptWhole(d, b)
  <2>1. G = E
    BY <1>4, <1>8, <1>12, <1>13 DEF Keeps
  <2>2. ASSUME NEW i \in of[b]
        PROVE  i \in WithinLedger(of[b], FundingsOf(d.fundings, b), BalanceEnd(b))
    <3>1. PICK a \in Buyers(d.fundings) :
            i \in WithinLedger(of[a], FundingsOf(d.fundings, a), BalanceEnd(a))
      BY <1>3, <2>1
    <3>2. i \in of[a]
      BY <1>6, <3>1 DEF Keeps
    <3>3. a = b
      BY <1>3, <3>2
    <3> QED
      BY <3>1, <3>3
  <2>3. WithinLedger(of[b], FundingsOf(d.fundings, b), BalanceEnd(b)) = of[b]
    BY <1>6, <2>2 DEF Keeps
  <2>4. of[b] = {i \in Eligible(d) : Log(i).from = b}
    BY <1>1, <1>3
  <2> QED
    BY <2>3, <2>4 DEF KeptWhole
<1> QED
  BY <1>1, <1>2, <1>11, <1>12, <1>13 DEF Keeps

-----------------------------------------------------------------------------
(* Plans and final claims *)

\* A plan of c for evidence d with the settlements S and the returns P.
PlanWith(c, d, S, P) ==
  Plan([c EXCEPT !.volume = AmountOf(S)], KeptFundings(d, S), S, P)

\* p is planned from d with the returns P chosen.
PlannedWith(c, d, ledger, free, bps, P, p) ==
  LET S == SelectSettlements(d, P, ledger, bps) IN
  /\ S # {} /\ p = PlanWith(c, d, S, P)
  /\ free \/ HasAnalysisVolume(c, p.settlements)
  /\ Qualifies(p, ledger, bps)

\* Every plan of a loop is one of some choice of returns.
LEMMA PlanParts ==
  ASSUME NEW c, NEW d, NEW ledger, NEW free, NEW bps, NEW p
  PROVE  p \in PlanLoop(c, d, ledger, free, bps) <=>
           \E P \in ChosenReturns(c, d, free, bps) : PlannedWith(c, d, ledger, free, bps, P, p)
<1> DEFINE chosen == ChosenReturns(c, d, free, bps)
           select(P) == [returns |-> P, settlements |-> SelectSettlements(d, P, ledger, bps)]
           plan(s) == Plan([c EXCEPT !.volume = AmountOf(s.settlements)],
                           KeptFundings(d, s.settlements), s.settlements, s.returns)
           Good(q) == (free \/ HasAnalysisVolume(c, q.settlements)) /\ Qualifies(q, ledger, bps)
<1>1. PlanLoop(c, d, ledger, free, bps)
        = {q \in {plan(s) : s \in {t \in {select(P) : P \in chosen} : t.settlements # {}}} : Good(q)}
  BY DEF PlanLoop
<1>2. \A P : select(P).settlements = SelectSettlements(d, P, ledger, bps) /\ select(P).returns = P
  OBVIOUS
<1>3. \A P : plan(select(P)) = PlanWith(c, d, SelectSettlements(d, P, ledger, bps), P)
  BY <1>2 DEF PlanWith
<1>4. \A P : PlannedWith(c, d, ledger, free, bps, P, p) <=>
              select(P).settlements # {} /\ p = plan(select(P)) /\ Good(p)
  <2>1. \A P : PlannedWith(c, d, ledger, free, bps, P, p) <=>
               /\ SelectSettlements(d, P, ledger, bps) # {}
               /\ p = PlanWith(c, d, SelectSettlements(d, P, ledger, bps), P) /\ Good(p)
    BY DEF PlannedWith
  <2> HIDE DEF select, plan, Good
  <2> QED
    BY <1>2, <1>3, <2>1
<1> HIDE DEF chosen, select, plan, Good
<1>5. p \in PlanLoop(c, d, ledger, free, bps) <=>
        \E P \in chosen : select(P).settlements # {} /\ p = plan(select(P)) /\ Good(p)
  BY <1>1
<1>6. p \in PlanLoop(c, d, ledger, free, bps) <=>
        \E P \in chosen : PlannedWith(c, d, ledger, free, bps, P, p)
  BY <1>4, <1>5
<1> QED
  BY <1>6 DEF chosen

\* A plan that must have its claim's volume is for the claim as it is and proves what is in it.
WithinClaim(p) ==
  /\ p.fundings \subseteq p.claim.fundings /\ p.settlements \subseteq p.claim.settlements
  /\ p.claim.kind = "reciprocal" \/ p.returns \subseteq p.claim.returns

\* A plan that may not choose its volume proves what is in its claim.
LEMMA LoopPlanWithin ==
  ASSUME TypedHistory, NEW c, IsLoop(c), NEW ledger, NEW bps \in Nat \ {0},
         NEW p \in PlanLoop(c, c, ledger, FALSE, bps)
  PROVE  p.claim = c /\ WithinClaim(p)
<1>1. PICK P, S :
        /\ P \in ChosenReturns(c, c, FALSE, bps)
        /\ S = SelectSettlements(c, P, ledger, bps) /\ p = PlanWith(c, c, S, P)
        /\ HasAnalysisVolume(c, p.settlements)
  <2>1. PICK P \in ChosenReturns(c, c, FALSE, bps) : PlannedWith(c, c, ledger, FALSE, bps, P, p)
    BY PlanParts
  <2> QED
    BY <2>1 DEF PlannedWith
<1>2. ChosenOf(c, P)
  BY <1>1, ChosenPart DEF IsLoop
<1>3. P \subseteq c.returns
  BY <1>2, ClosureArePaths DEF ChosenOf, IsLoop
<1>4. S \subseteq c.settlements
  BY <1>1, <1>2, LoopIsEvidence, SelectedPart DEF ChosenOf
<1>5. PICK v, F : v = AmountOf(S) /\ F = KeptFundings(c, S)
  OBVIOUS
<1>6. p = [claim |-> [c EXCEPT !.volume = v], fundings |-> F, settlements |-> S, returns |-> P]
  BY <1>1, <1>5 DEF PlanWith, Plan
<1>7. v = c.volume
  BY <1>1, <1>5, <1>6 DEF HasAnalysisVolume, IsLoop
<1>8. [c EXCEPT !.volume = v] = c
  BY <1>7 DEF IsLoop
<1>9. F \subseteq c.fundings
  BY <1>5 DEF KeptFundings
<1> QED
  BY <1>3, <1>4, <1>6, <1>8, <1>9 DEF WithinClaim

LEMMA PairPlanWithin ==
  ASSUME NEW c, IsPair(c), NEW lost, NEW p \in PlanPair(c, Resolved(c, lost))
  PROVE  p.claim = c /\ WithinClaim(p) /\ ProvesPair(p)
<1>1. PICK d : d = Resolved(c, lost)
  OBVIOUS
<1>2. d.fundings \subseteq c.fundings /\ d.settlements \subseteq c.settlements
  BY <1>1, ResolvedPair
<1>3. p = Plan(c, d.fundings, d.settlements, {})
  BY <1>1 DEF PlanPair
<1>4. /\ p.claim = c /\ p.fundings = d.fundings /\ p.settlements = d.settlements
      /\ c.kind = "reciprocal"
  BY <1>3 DEF Plan, IsPair
<1>5. ProvesPair(p)
  BY <1>1, <1>4 DEF PlanPair, ProvesPair
<1> QED
  BY <1>2, <1>4, <1>5 DEF WithinClaim

\* A claim reduced to what can be proved of it: nothing more is dropped when it is planned.
Reduced(c) ==
  /\ c.volume = AmountOf(c.settlements) /\ c.buyers = Buyers(c.fundings)
  /\ Eligible(c) = c.settlements /\ KeptFundings(c, c.settlements) = c.fundings

\* A plan of all settlements keeps to the ledger of each buyer, if it was made with them.
LEMMA LedgersAreKept ==
  ASSUME TypedHistory, NEW c, IsLoop(c), Reduced(c),
         \A b \in Buyers(c.fundings) : KeptWhole(c, b),
         NEW p, p.claim = c, p.settlements = c.settlements, p.fundings = c.fundings
  PROVE  LedgersKept(p)
<1> SUFFICES ASSUME NEW b \in c.buyers,
                    AmountOf({i \in c.settlements : Log(i).from = b}) > 0
             PROVE  (BalanceEnd(b) + AmountOf({i \in c.settlements : Log(i).from = b})) * 10000
                      <= FundedIn(FundingsOf(c.fundings, b)) * 10500
  BY DEF LedgersKept
<1>1. PICK S : S = {i \in c.settlements : Log(i).from = b}
  OBVIOUS
<1>2. PICK F : F = FundingsOf(c.fundings, b)
  OBVIOUS
<1>3. b \in Buyers(c.fundings)
  BY DEF Reduced
<1>4. PICK balance \in Nat : balance = BalanceEnd(b)
  BY <1>3 DEF Buyers, IsLoop, AreFundings, BalanceEnd
<1>5. IsFiniteSet(F) /\ \A f \in F : f.transfer \in Keys
  BY <1>2, FS_Subset DEF FundingsOf, IsLoop, AreFundings
<1>6. S \in SUBSET Keys
  BY <1>1, SettlementKeys DEF IsLoop
<1>7. PICK settled \in Nat : settled = AmountOf(S) /\ settled > 0
  BY <1>1, <1>6, AmountsTyped
<1>8. S # {}
  BY <1>6, <1>7, AmountsTyped, SumOverNone
<1>9. WithinLedger(S, F, balance) = S
  <2>1. S = {i \in Eligible(c) : Log(i).from = b}
    BY <1>1 DEF Reduced
  <2> QED
    BY <1>2, <1>3, <1>4, <2>1 DEF KeptWhole
<1>10. settled <= LedgerCapacity(F, balance, S)
  BY <1>5, <1>6, <1>7, <1>8, <1>9, LedgerKeeps
<1>11. (balance + settled) * 10000 <= FundedIn(F) * 10500
  BY <1>5, <1>7, <1>10, LedgerCovers
<1> QED
  BY <1>1, <1>2, <1>4, <1>7, <1>11

\* A plan of a reduced claim that may not choose its volume proves all of the claim.
LEMMA LoopPlanProves ==
  ASSUME TypedHistory, NEW c, IsLoop(c), Reduced(c), NEW ledger, NEW bps \in Nat \ {0},
         NEW p \in PlanLoop(c, c, ledger, FALSE, bps)
  PROVE  ProvesLoop(p, bps, ledger)
<1>1. PICK P, S :
        /\ P \in ChosenReturns(c, c, FALSE, bps) /\ S # {}
        /\ S = SelectSettlements(c, P, ledger, bps) /\ p = PlanWith(c, c, S, P)
        /\ HasAnalysisVolume(c, p.settlements) /\ Qualifies(p, ledger, bps)
  <2>1. PICK P \in ChosenReturns(c, c, FALSE, bps) : PlannedWith(c, c, ledger, FALSE, bps, P, p)
    BY PlanParts
  <2> QED
    BY <2>1 DEF PlannedWith
<1>2. /\ ChosenOf(c, P) /\ (SelfFunded(c) => P = {})
      /\ ~SelfFunded(c) => CoversVolume(c, P, bps)
  BY <1>1, ChosenPart DEF IsLoop
<1>3. /\ Keeps(S, c.settlements) /\ c.settlements \in SUBSET Keys
      /\ (ledger /\ S = c.settlements) => \A b \in Buyers(c.fundings) : KeptWhole(c, b)
  BY <1>1, <1>2, LoopIsEvidence, SelectedPart DEF ChosenOf, Reduced
<1>4. PICK v, F, k : v = AmountOf(S) /\ F = KeptFundings(c, S) /\ k = [c EXCEPT !.volume = v]
  OBVIOUS
<1>5. p.claim = k /\ p.fundings = F /\ p.settlements = S /\ p.returns = P
  BY <1>1, <1>4 DEF PlanWith, Plan
<1>6. p.claim = c /\ p.settlements = S
  BY <1>1, <1>5, LoopPlanWithin
<1>7. S = c.settlements
  <2>1. AmountOf(S) = c.volume
    BY <1>1, <1>6 DEF HasAnalysisVolume, IsLoop
  <2>2. AmountOf(S) = AmountOf(c.settlements)
    BY <2>1 DEF Reduced
  <2> QED
    BY <1>3, <2>2, KeepsAll
<1>8. F = c.fundings
  BY <1>4, <1>7 DEF Reduced
<1>9. ASSUME NEW i \in S
      PROVE  \E f \in FundingsOf(p.fundings, Log(i).from) : Time(f.transfer) < Time(i)
  <2>1. i \in Eligible(c)
    BY <1>7 DEF Reduced
  <2> QED
    BY <1>5, <1>8, <2>1 DEF Eligible
<1>10. /\ \A r \in P : ValidReturn(r, 0)
       /\ \A q, r \in P : q # r => PathKeys(q) \cap PathKeys(r) = {}
       /\ Cardinality(P) <= MaxReturns
  BY <1>2 DEF ChosenOf, Disjoint
<1>11. /\ ClosureOccursAfter(S, P)
       /\ ledger => FundedIn(F) * 10000 >= c.volume * 9000
  BY <1>1, <1>5, <1>7 DEF Qualifies, Reduced
<1>12. ledger => LedgersKept(p)
  BY <1>3, <1>5, <1>6, <1>7, <1>8, LedgersAreKept
<1>13. IF SelfFunded(c) THEN P = {} ELSE Returned(P) * 10000 >= c.volume * bps
  BY <1>2 DEF CoversVolume
<1>14. c.buyers = Buyers(F) /\ c.volume = AmountOf(S)
  BY <1>7, <1>8 DEF Reduced
<1> QED
  BY <1>1, <1>5, <1>6, <1>7, <1>8, <1>9, <1>10, <1>11, <1>12, <1>13, <1>14 DEF ProvesLoop

\* What a final claim is made of, when c is finalized under bps.
FinalOfLoop(c, r, bps) ==
  /\ r = [kind |-> "closed-loop", seller |-> c.seller, funder |-> c.funder,
          buyers |-> r.buyers, volume |-> AmountOf(r.settlements), fundings |-> r.fundings,
          settlements |-> r.settlements, returns |-> r.returns]
  /\ r.buyers = Buyers(r.fundings)
  /\ AreFundings(r.fundings) /\ r.settlements \in SUBSET SettlementRows /\ r.settlements # {}
  /\ \A i \in r.settlements : \E f \in r.fundings :
       f.buyer = Log(i).from /\ Time(f.transfer) < Time(i)
  /\ \A f \in r.fundings : \E i \in r.settlements :
       Log(i).from = f.buyer /\ Time(f.transfer) < Time(i)
  /\ ArePaths(r.returns) /\ \A p \in r.returns : ValidReturn(p, 0)
  /\ Closure(r) = r.returns /\ Disjoint(r.returns) /\ Cardinality(r.returns) <= MaxReturns
  /\ SelfFunded(c) => r.returns = {}
  /\ ~SelfFunded(c) => r.returns # {}
  /\ ClosureOccursAfter(r.settlements, r.returns)
  /\ CoverageQualifies(r.returns, AmountOf(r.settlements), bps)

\* What a final claim keeps of the evidence its draft was resolved to.
LEMMA FinalParts ==
  ASSUME TypedHistory, NEW c, IsLoop(c), NEW lost, NEW bps \in Nat \ {0},
         NEW r \in FinalClaim(c, lost, bps)
  PROVE  FinalOfLoop(c, r, bps)
<1>1. PICK d : d = Resolved(c, lost)
  OBVIOUS
<1>2. IsEvidence(d) /\ \A q \in d.returns : ValidReturn(q, 0)
  BY <1>1, ResolvedLoop
<1>3. PICK p \in PlanLoop(c, d, TRUE, TRUE, bps) :
        r = [p.claim EXCEPT !.buyers = Buyers(p.fundings), !.fundings = p.fundings,
                            !.settlements = p.settlements, !.returns = p.returns]
  BY <1>1 DEF FinalClaim
<1>4. PICK P, S :
        /\ P \in ChosenReturns(c, d, TRUE, bps)
        /\ S = SelectSettlements(d, P, TRUE, bps) /\ S # {} /\ p = PlanWith(c, d, S, P)
        /\ Qualifies(p, TRUE, bps)
  <2>1. PICK P \in ChosenReturns(c, d, TRUE, bps) : PlannedWith(c, d, TRUE, TRUE, bps, P, p)
    BY PlanParts
  <2> QED
    BY <2>1 DEF PlannedWith
<1>5. /\ ChosenOf(d, P) /\ (SelfFunded(c) => P = {}) /\ (~SelfFunded(c) => P # {})
  BY <1>2, <1>4, ChosenPart DEF IsLoop, IsEvidence
<1>6. S \in SUBSET Eligible(d) /\ Eligible(d) \in SUBSET d.settlements
  BY <1>2, <1>4, <1>5, SelectedPart DEF ChosenOf
<1>7. PICK v, F, B, k : /\ v = AmountOf(S) /\ F = KeptFundings(d, S) /\ B = Buyers(F)
                        /\ k = [c EXCEPT !.volume = v]
  OBVIOUS
<1>8. p.claim = k /\ p.fundings = F /\ p.settlements = S /\ p.returns = P
  BY <1>4, <1>7 DEF PlanWith, Plan
<1>9. k = [kind |-> "closed-loop", seller |-> c.seller, funder |-> c.funder, buyers |-> c.buyers,
           volume |-> v, fundings |-> c.fundings, settlements |-> c.settlements,
           returns |-> c.returns]
  BY <1>7 DEF IsLoop
<1>10. r = [k EXCEPT !.buyers = B, !.fundings = F, !.settlements = S, !.returns = P]
  BY <1>3, <1>7, <1>8
<1>11. r = [kind |-> "closed-loop", seller |-> c.seller, funder |-> c.funder, buyers |-> B,
            volume |-> v, fundings |-> F, settlements |-> S, returns |-> P]
  BY <1>9, <1>10
<1>12. AreFundings(F) /\ F \in SUBSET d.fundings
  <2>1. F \in SUBSET d.fundings
    BY <1>7 DEF KeptFundings
  <2> QED
    BY <1>2, <2>1, FS_Subset DEF IsEvidence, AreFundings
<1>13. ASSUME NEW i \in S
       PROVE  \E f \in F : f.buyer = Log(i).from /\ Time(f.transfer) < Time(i)
  <2>1. PICK f \in d.fundings : f.buyer = Log(i).from /\ Time(f.transfer) < Time(i)
    BY <1>6 DEF Eligible, FundingsOf
  <2> QED
    BY <1>7, <2>1 DEF KeptFundings
<1>14. \A f \in F : \E i \in S : Log(i).from = f.buyer /\ Time(f.transfer) < Time(i)
  BY <1>7 DEF KeptFundings
<1>15. Closure(r) = P
  <2>1. r.returns = P
    BY <1>11
  <2>2. P \in SUBSET Closure(d)
    BY <1>5 DEF ChosenOf
  <2> QED
    BY <2>1, <2>2 DEF Closure
<1>16. ClosureOccursAfter(S, P) /\ CoverageQualifies(P, v, bps)
  <2>1. /\ ClosureOccursAfter(p.settlements, p.returns)
        /\ CoverageQualifies(p.returns, AmountOf(p.settlements), bps)
    BY <1>4 DEF Qualifies
  <2> QED
    BY <1>7, <1>8, <2>1
<1>17. r.buyers = B /\ r.fundings = F /\ r.settlements = S /\ r.returns = P /\ r.volume = v
  BY <1>11
<1> QED
  BY <1>2, <1>4, <1>5, <1>6, <1>7, <1>11, <1>12, <1>13, <1>14, <1>15, <1>16, <1>17
     DEF FinalOfLoop, ChosenOf, IsEvidence

LEMMA FinalIsLoop ==
  ASSUME TypedHistory, NEW c, NEW r, NEW bps, FinalOfLoop(c, r, bps)
  PROVE  IsLoop(r)
<1>1. r.volume = AmountOf(r.settlements)
  BY DEF FinalOfLoop
<1>2. r.volume \in Nat
  BY <1>1, SettlementKeys, AmountsTyped DEF FinalOfLoop
<1>3. r = [kind |-> "closed-loop", seller |-> r.seller, funder |-> r.funder, buyers |-> r.buyers,
          volume |-> r.volume, fundings |-> r.fundings, settlements |-> r.settlements,
          returns |-> r.returns]
  BY DEF FinalOfLoop
<1> QED
  BY <1>2, <1>3 DEF FinalOfLoop, IsLoop

\* The bound to which settlements are counted covers the volume the returns cover.
LEMMA CoveredFits ==
  ASSUME NEW volume \in Nat, NEW credit \in Nat, NEW bps \in Nat \ {0},
         credit * 10000 >= volume * bps
  PROVE  (credit * 10000) \div bps >= volume
<1>1. PICK m \in Nat : m = credit * 10000
  OBVIOUS
<1>2. PICK q \in Nat : q = m \div bps
  OBVIOUS
<1>3. m < (q + 1) * bps
  BY <1>2
<1>4. q + 1 > volume
  <2> SUFFICES ASSUME q + 1 <= volume PROVE FALSE
    OBVIOUS
  <2>1. PICK a \in Nat : volume = (q + 1) + a
    OBVIOUS
  <2>2. volume * bps = (q + 1) * bps + a * bps
    BY <2>1
  <2>3. a * bps \in Nat
    OBVIOUS
  <2> QED
    BY <1>1, <1>3, <2>2, <2>3
<1> QED
  BY <1>1, <1>2, <1>4

\* The claim can be planned again from its own evidence.
Replans(r, bps) ==
  \E p \in PlanLoop(r, r, FALSE, FALSE, bps) :
    p.claim = r /\ p.settlements = r.settlements /\ p.fundings = r.fundings

\* Nothing of a final claim is dropped when it is planned again: its settlements are
\* all eligible and its fundings all kept.
LEMMA FinalKeepsAll ==
  ASSUME TypedHistory, NEW c, NEW r, NEW bps, FinalOfLoop(c, r, bps)
  PROVE  Eligible(r) = r.settlements /\ KeptFundings(r, r.settlements) = r.fundings
<1>1. Eligible(r) = r.settlements
  BY DEF FinalOfLoop, Eligible, FundingsOf
<1>2. KeptFundings(r, r.settlements) = r.fundings
  BY DEF FinalOfLoop, KeptFundings
<1> QED
  BY <1>1, <1>2

LEMMA FinalIsReduced ==
  ASSUME TypedHistory, NEW c, NEW r, NEW bps, FinalOfLoop(c, r, bps)
  PROVE  Reduced(r)
<1>1. r.volume = AmountOf(r.settlements) /\ r.buyers = Buyers(r.fundings)
  BY DEF FinalOfLoop
<1> QED
  BY <1>1, FinalKeepsAll DEF Reduced

\* Of its returns enough are chosen again.
LEMMA FinalChooses ==
  ASSUME TypedHistory, NEW c, NEW r, NEW bps \in Nat \ {0}, FinalOfLoop(c, r, bps)
  PROVE  \E P \in ChosenReturns(r, r, FALSE, bps) :
           /\ P \subseteq r.returns /\ ArePaths(P)
           /\ CoverageQualifies(P, AmountOf(r.settlements), bps)
<1>1. PICK R : R = r.returns
  OBVIOUS
<1>2. PICK v \in Nat : v = AmountOf(r.settlements) /\ v = r.volume
  BY SettlementKeys, AmountsTyped DEF FinalOfLoop
<1>3. SelfFunded(r) <=> SelfFunded(c)
  BY DEF FinalOfLoop, SelfFunded
<1>4. CASE SelfFunded(c)
  <2>1. {} \in ChosenReturns(r, r, FALSE, bps)
    BY <1>3, <1>4 DEF ChosenReturns
  <2>2. CoverageQualifies({}, AmountOf(r.settlements), bps)
    BY DEF CoverageQualifies
  <2>3. ArePaths({})
    BY FS_EmptySet DEF ArePaths
  <2> QED
    BY <2>1, <2>2, <2>3
<1>5. CASE ~SelfFunded(c)
  <2>1. R # {} /\ Closure(r) = R /\ ArePaths(R)
    BY <1>1, <1>5 DEF FinalOfLoop
  <2>2. PICK required \in Nat : required = RequiredReturn(v, bps)
    BY RequiredType
  <2>3. PICK k : k = SelectReturns(R, required, 0, MaxReturns, {})
    OBVIOUS
  <2>4. k = ClosureSelected(r, R, FALSE, bps)
    BY <1>2, <2>2, <2>3 DEF ClosureSelected
  <2>5. ValidOf(R, 0) = R
    BY <1>1 DEF ValidOf, FinalOfLoop
  <2>6. MaxReturns \in Nat
    BY SnapshotAssumption
  <2>7. CountedOf(R, k, required, MaxReturns)
    BY <2>1, <2>3, <2>5, <2>6, Selects
  <2>8. PICK n \in Nat : n = Returned(R)
    BY <2>1, ReturnedType
  <2>9. n >= required
    <3>1. n * 10000 >= v * bps
      BY <1>1, <1>2, <2>1, <2>8 DEF FinalOfLoop, CoverageQualifies
    <3> QED
      BY <2>2, <3>1, RequiredCovers
  <2>10. /\ k.paths \in SUBSET R /\ k.returned \in Nat /\ k.returned = Returned(k.paths)
         /\ k.required = required /\ (k.returned >= required \/ k.paths = R)
    BY <1>1, <2>7 DEF CountedOf, FinalOfLoop
  <2>11. k.returned >= required
    BY <2>8, <2>9, <2>10
  <2>12. k.paths \in ChosenReturns(r, r, FALSE, bps)
    BY <1>3, <1>5, <2>1, <2>4, <2>10, <2>11 DEF ChosenReturns
  <2>13. k.returned * 10000 >= v * bps
    BY <2>2, <2>10, <2>11, RequiredCovers
  <2>14. CoverageQualifies(k.paths, AmountOf(r.settlements), bps)
    BY <1>2, <2>10, <2>13 DEF CoverageQualifies
  <2>15. ArePaths(k.paths)
    BY <2>1, <2>10, FS_Subset DEF ArePaths
  <2> QED
    BY <1>1, <2>10, <2>12, <2>14, <2>15
<1> QED
  BY <1>4, <1>5

\* Whatever of its returns is chosen, they allow all of its settlements.
LEMMA FinalSelects ==
  ASSUME TypedHistory, NEW c, NEW r, NEW bps \in Nat \ {0}, FinalOfLoop(c, r, bps),
         NEW P, ArePaths(P), CoverageQualifies(P, AmountOf(r.settlements), bps)
  PROVE  SelectSettlements(r, P, FALSE, bps) = r.settlements
<1>1. PICK S : S = r.settlements
  OBVIOUS
<1>2. Eligible(r) = S
  BY <1>1, FinalKeepsAll
<1>3. SelectSettlements(r, P, FALSE, bps)
        = IF P = {} THEN S ELSE WithinCapacity(S, ReturnCapacity(P, bps))
  BY <1>2 DEF SelectSettlements
<1>4. S \in SUBSET Keys
  BY <1>1, SettlementKeys DEF FinalOfLoop
<1>5. ASSUME P # {} PROVE WithinCapacity(S, ReturnCapacity(P, bps)) = S
  <2>1. PICK v \in Nat : v = AmountOf(S)
    BY <1>4, AmountsTyped
  <2>2. PICK n \in Nat : n = Returned(P)
    BY ReturnedType
  <2>3. n * 10000 >= v * bps
    BY <1>1, <1>5, <2>1, <2>2 DEF CoverageQualifies
  <2>4. (n * 10000) \div bps >= v
    BY <2>3, CoveredFits
  <2>5. PICK capacity : capacity = ReturnCapacity(P, bps)
    OBVIOUS
  <2>6. capacity \in Int
    BY <2>5, ReturnCapacityType
  <2>7. AmountOf(S) <= capacity
    BY <2>1, <2>2, <2>4, <2>5, <2>6 DEF ReturnCapacity
  <2>8. WithinCapacity(S, capacity) = S
    BY <1>4, <2>6, <2>7, CapacityAll
  <2> QED
    BY <2>5, <2>8
<1> QED
  BY <1>1, <1>3, <1>5

\* Planning a final claim again from its own evidence gives that claim.
LEMMA FinalReplans ==
  ASSUME TypedHistory, NEW c, NEW r, NEW bps \in Nat \ {0}, FinalOfLoop(c, r, bps)
  PROVE  Replans(r, bps)
<1>1. PICK P \in ChosenReturns(r, r, FALSE, bps) :
        /\ P \subseteq r.returns /\ ArePaths(P)
        /\ CoverageQualifies(P, AmountOf(r.settlements), bps)
  BY FinalChooses
<1>2. PICK S, v, F : S = r.settlements /\ v = AmountOf(S) /\ F = r.fundings
  OBVIOUS
<1>3. SelectSettlements(r, P, FALSE, bps) = S
  BY <1>1, <1>2, FinalSelects
<1>4. PICK p : p = PlanWith(r, r, S, P)
  OBVIOUS
<1>5. v = r.volume /\ r.kind = "closed-loop" /\ [r EXCEPT !.volume = v] = r
  <2>1. r = [kind |-> "closed-loop", seller |-> c.seller, funder |-> c.funder,
             buyers |-> r.buyers, volume |-> v, fundings |-> r.fundings,
             settlements |-> r.settlements, returns |-> r.returns]
    BY <1>2 DEF FinalOfLoop
  <2> QED
    BY <2>1
<1>6. p = [claim |-> r, fundings |-> F, settlements |-> S, returns |-> P]
  <2>1. KeptFundings(r, S) = F
    BY <1>2, FinalKeepsAll
  <2>2. PlanWith(r, r, S, P) = Plan([r EXCEPT !.volume = v], KeptFundings(r, S), S, P)
    BY <1>2 DEF PlanWith
  <2> QED
    BY <1>4, <1>5, <2>1, <2>2 DEF Plan
<1>7. HasAnalysisVolume(r, p.settlements)
  BY <1>2, <1>5, <1>6 DEF HasAnalysisVolume
<1>8. Qualifies(p, FALSE, bps)
  <2>1. ClosureOccursAfter(S, P) /\ CoverageQualifies(P, AmountOf(S), bps)
    BY <1>1, <1>2 DEF FinalOfLoop, ClosureOccursAfter
  <2>2. p.settlements = S /\ p.returns = P
    BY <1>6
  <2> QED
    BY <2>1, <2>2 DEF Qualifies
<1>9. PlannedWith(r, r, FALSE, FALSE, bps, P, p)
  BY <1>2, <1>3, <1>4, <1>7, <1>8 DEF PlannedWith, FinalOfLoop
<1>10. p \in PlanLoop(r, r, FALSE, FALSE, bps)
  BY <1>1, <1>9, PlanParts
<1> QED
  BY <1>2, <1>6, <1>10 DEF Replans

-----------------------------------------------------------------------------
(* What files and memory are made of *)

\* A source has one checkpoint.
OneEach(saves) == \A s, t \in saves : s.source = t.source => s = t

\* A plan is complete and keeps to the planner's rules.
Proves(p) ==
  IF p.claim.kind = "reciprocal" THEN ProvesPair(p) ELSE ProvesLoop(p, p.policy, p.ledger)

\* A claim whose plans prove all of it.
Ready(c) == c.kind = "reciprocal" \/ Reduced(c)

\* A saved final claim is well made and can be planned again.
SavedClaim(s) ==
  /\ s.policy \in Policies
  /\ s.result = Torn
     \/ (IsLoop(s.result) /\ Reduced(s.result) /\ Replans(s.result, s.policy))

\* A saved plan is for the claim it was saved for and proves it.
SavedPlan(s) ==
  /\ s.policy \in Policies
  /\ s.result = Torn
     \/ (s.result.claim = s.source /\ WithinClaim(s.result) /\ Proves(s.result))

ClaimSavesMade == OneEach(claimFiles) /\ \A s \in claimFiles : SavedClaim(s)
PlanSavesMade == OneEach(planFiles) /\ \A s \in planFiles : SavedPlan(s)

\* Whoever writes a bundle writes well-made claims, and a run reads no other.
BundlesMade ==
  /\ \A draft \in orphans : AreClaims(draft)
  /\ bundleFile \in {Nothing, Torn} \/ AreClaims(bundleFile)
  /\ stage = "read" => AreClaims(bundleFile)

\* What the process has in memory, by stage.
MemoryMade ==
  /\ AreClaims(final) /\ (\A c \in final : Ready(c)) /\ audited \subseteq final
  /\ stage \in {"idle", "draft", "read"} => pending = {} /\ audited = {}
  /\ IF stage = "finalize" THEN \A c \in pending : IsLoop(c) ELSE pending \subseteq final
  /\ \A p \in plans : p.claim \in final /\ WithinClaim(p) /\ Proves(p)
  /\ crew \in 0 .. ClaimWorkers

\* The run's own counters and constants.
Bounded ==
  /\ policy \in Policies /\ stage \in Stages /\ history \in Histories
  /\ kills \in 0 .. MaxKills /\ faults \in 0 .. MaxFaults /\ changes \in 0 .. MaxChanges

MadeInv == Bounded /\ BundlesMade /\ MemoryMade /\ ClaimSavesMade /\ PlanSavesMade

LEMMA HistoryTyped ==
  ASSUME Bounded
  PROVE  TypedHistory /\ policy \in Nat \ {0}
  BY SnapshotAssumption DEF Bounded, TypedHistory

LEMMA SameClaim ==
  ASSUME history' = history, NEW c
  PROVE  (IsLoop(c)' <=> IsLoop(c)) /\ (IsPair(c)' <=> IsPair(c))
<1>1. SettlementRows' = SettlementRows /\ Keys' = Keys
  BY DEF SettlementRows, InPeriod, Keys, Log
<1>2. AreFundings(c.fundings)' <=> AreFundings(c.fundings)
  BY DEF AreFundings, Keys
<1>3. ArePaths(c.returns)' <=> ArePaths(c.returns)
  BY DEF ArePaths, IsPath, Keys
<1>4. \A p : ValidReturn(p, 0)' <=> ValidReturn(p, 0)
  BY DEF ValidReturn, Precedes, SameTx, PathKeys, TransferKey, Entries, Retains, Time, Log
<1>5. IsLoop(c)' <=> IsLoop(c)
  BY <1>1, <1>2, <1>3, <1>4 DEF IsLoop
<1>6. IsPair(c)' <=> IsPair(c)
  BY <1>1 DEF IsPair
<1> QED
  BY <1>5, <1>6

\* No step changes the history, and what is said of claims depends on nothing else.
LEMMA SameReplans ==
  ASSUME history' = history, NEW r, NEW bps
  PROVE  Replans(r, bps)' <=> Replans(r, bps)
<1>1. PlanLoop(r, r, FALSE, FALSE, bps)' = PlanLoop(r, r, FALSE, FALSE, bps)
  BY SMT DEF PlanLoop, BalanceEnd, WithinCapacity, FundedIn, LedgerCapacity, WithinLedger, Plan,
             HasAnalysisVolume, Sales, AmountOf, SelfFunded, ValidRelayPath, Closure, InPeriod,
             ClosureSelected, ReturnCapacity, FundingsOf, Eligible, SelectSettlements,
             KeptFundings, ClosureOccursAfter, CoverageQualifies, Qualifies, ChosenReturns, Buyers,
             SelectReturns, ValidReturn, Precedes, SameTx, PathKeys, TransferKey, Entries,
             Retains, Credit, Returned, RequiredReturn, Time, Log, MapThenSumSet, MapThenFoldSet
<1> QED
  BY <1>1 DEF Replans

LEMMA SameReduced ==
  ASSUME history' = history, NEW c
  PROVE  (Reduced(c)' <=> Reduced(c)) /\ (Ready(c)' <=> Ready(c))
<1>1. Reduced(c)' <=> Reduced(c)
  BY SMT DEF Reduced, AmountOf, Buyers, Eligible, KeptFundings, FundingsOf, Time, Log,
             MapThenSumSet, MapThenFoldSet
<1> QED
  BY <1>1 DEF Ready

LEMMA SameProves ==
  ASSUME history' = history, NEW p
  PROVE  Proves(p)' <=> Proves(p)
<1>1. ProvesPair(p)' <=> ProvesPair(p)
  BY SMT DEF ProvesPair, HasAnalysisVolume, Sales, AmountOf, Log, MapThenSumSet, MapThenFoldSet
<1>2. LedgersKept(p)' <=> LedgersKept(p)
  BY SMT DEF LedgersKept, AmountOf, BalanceEnd, FundedIn, FundingsOf, Log, MapThenSumSet,
             MapThenFoldSet
<1>3. \A r : ValidReturn(r, 0)' <=> ValidReturn(r, 0)
  BY DEF ValidReturn, Precedes, SameTx, PathKeys, TransferKey, Entries, Retains, Time, Log
<1>4. \A bps, ledger : ProvesLoop(p, bps, ledger)' <=> ProvesLoop(p, bps, ledger)
  BY SMT, <1>2, <1>3
     DEF ProvesLoop, Buyers, AmountOf, FundingsOf, PathKeys, TransferKey, Entries, Time, Log,
         ClosureOccursAfter, SelfFunded, Returned, Credit, FundedIn, MapThenSumSet, MapThenFoldSet
<1> QED
  BY <1>1, <1>4 DEF Proves

LEMMA SameClaims ==
  ASSUME history' = history, NEW C
  PROVE  AreClaims(C)' <=> AreClaims(C)
  BY SameClaim DEF AreClaims

LEMMA SaveOne ==
  ASSUME NEW saves, OneEach(saves), NEW new
  PROVE  OneEach(Save(saves, new))
  BY DEF OneEach, Save, Saved

LEMMA PartOne ==
  ASSUME NEW saves, OneEach(saves), NEW t \in SUBSET saves
  PROVE  OneEach(t)
  BY DEF OneEach

-----------------------------------------------------------------------------
LEMMA MadeInit ==
  ASSUME Init
  PROVE  MadeInv
<1>1. AreClaims({})
  BY FS_EmptySet DEF AreClaims
<1>2. Bounded
  BY SnapshotAssumption DEF Init, Bounded, Stages
<1>3. BundlesMade
  BY DEF Init, BundlesMade
<1>4. MemoryMade
  BY <1>1, SnapshotAssumption DEF Init, MemoryMade
<1>5. ClaimSavesMade /\ PlanSavesMade
  BY DEF Init, ClaimSavesMade, PlanSavesMade, OneEach
<1> QED
  BY <1>2, <1>3, <1>4, <1>5 DEF MadeInv

\* The number of hidden answers stays within its bound.
LEMMA FaultBounded ==
  ASSUME faults \in 0 .. MaxFaults, NEW c, NEW lost \in Losses(c) \cup {{}}, Fault(lost)
  PROVE  faults' \in 0 .. MaxFaults
<1>0. MaxFaults \in Nat
  BY SnapshotAssumption
<1>1. CASE lost = {}
  BY <1>1 DEF Fault
<1>2. CASE lost # {}
  <2>1. faults # MaxFaults
    BY <1>2 DEF Losses
  <2> QED
    BY <1>0, <1>2, <2>1 DEF Fault
<1> QED
  BY <1>1, <1>2

LEMMA BoundedStep ==
  ASSUME MadeInv, [Next]_vars
  PROVE  Bounded'
<1> USE DEF MadeInv
<1>1. /\ history' = history /\ Bounded
      /\ MaxKills \in Nat /\ MaxFaults \in Nat /\ MaxChanges \in Nat
  BY HistoryFixed, SnapshotAssumption
<1>2. CASE policy' = policy /\ stage' \in Stages /\ bounds' = bounds
  BY <1>1, <1>2 DEF Bounded, bounds
<1>3. CASE UNCHANGED vars
  BY <1>1, <1>2, <1>3 DEF vars, Bounded
<1>4. CASE Start \/ OrphanWrites \/ DeleteTorn
  BY <1>1, <1>2, <1>4 DEF Start, OrphanWrites, DeleteTorn, Bounded, Stages
<1>5. CASE BuildBundle \/ ReadBundle \/ FinalizeEnds \/ WriteBundle
  BY <1>1, <1>2, <1>5 DEF BuildBundle, ReadBundle, FinalizeEnds, WriteBundle, Exit, Stages
<1>6. CASE PlanEnds \/ Validate \/ WriteLock
  BY <1>1, <1>2, <1>6 DEF PlanEnds, Validate, WriteLock, Exit, Bounded, Stages
<1>7. CASE /\ policy' = policy /\ stage' \in Stages /\ UNCHANGED <<kills, changes>>
           /\ faults' \in 0 .. MaxFaults
  BY <1>1, <1>7 DEF Bounded
<1>8. CASE FinalizeNext
  <2>1. PICK c \in pending : ResumeClaim(c) \/ FinalizeClaim(c) \/ FinalizeFails(c)
    BY <1>8 DEF FinalizeNext
  <2>2. CASE ResumeClaim(c)
    BY <1>1, <1>2, <2>2 DEF ResumeClaim, Bounded
  <2>3. CASE FinalizeClaim(c)
    <3>1. PICK lost \in Losses(c) : Fault(lost)
      BY <2>3 DEF FinalizeClaim
    <3>2. faults' \in 0 .. MaxFaults
      BY <1>1, <3>1, FaultBounded DEF Bounded
    <3>3. policy' = policy /\ stage' \in Stages /\ UNCHANGED <<kills, changes>>
      BY <1>1, <2>3 DEF FinalizeClaim, Exit, Bounded, Stages
    <3> QED
      BY <1>7, <3>2, <3>3
  <2>4. CASE FinalizeFails(c)
    BY <1>1, <1>7, <2>4 DEF FinalizeFails, Exit, Bounded, Stages
  <2> QED
    BY <2>1, <2>2, <2>3, <2>4
<1>9. CASE PlanNext
  <2>1. PICK c \in pending : ResumePlan(c) \/ MakePlan(c) \/ WorkerThrows(c)
    BY <1>9 DEF PlanNext
  <2>2. CASE ResumePlan(c)
    BY <1>1, <1>2, <2>2 DEF ResumePlan, Bounded
  <2>3. CASE MakePlan(c)
    <3>1. PICK lost \in Losses(c) \cup {{}} : Fault(lost)
      BY <2>3 DEF MakePlan
    <3>2. faults' \in 0 .. MaxFaults
      BY <1>1, <3>1, FaultBounded DEF Bounded
    <3>3. policy' = policy /\ stage' \in Stages /\ UNCHANGED <<kills, changes>>
      BY <1>1, <2>3 DEF MakePlan, Bounded
    <3> QED
      BY <1>7, <3>2, <3>3
  <2>4. CASE WorkerThrows(c)
    BY <1>1, <1>7, <2>4 DEF WorkerThrows, Bounded
  <2> QED
    BY <2>1, <2>2, <2>3, <2>4
<1>10. CASE Kill
  BY <1>1, <1>10 DEF Kill, Exit, Bounded, Stages
<1>11. CASE ChangePolicy
  BY <1>1, <1>11 DEF ChangePolicy, Bounded
<1> QED
  BY <1>3, <1>4, <1>5, <1>6, <1>8, <1>9, <1>10, <1>11 DEF Next, Run

\* A bundle is well made, whichever process writes it.
LEMMA BundlesMadeStep ==
  ASSUME MadeInv, [Next]_vars
  PROVE  BundlesMade'
<1>1. BundlesMade /\ MemoryMade /\ history' = history
  BY HistoryFixed DEF MadeInv
<1>2. \A C : AreClaims(C)' <=> AreClaims(C)
  BY <1>1, SameClaims
<1>3. AreClaims(Drafts(policy))
  BY HistoryTyped, DraftsMade DEF MadeInv
<1>4. CASE /\ \A draft \in orphans' : AreClaims(draft)
           /\ bundleFile' \in {Nothing, Torn} \/ AreClaims(bundleFile')
           /\ stage' = "read" => AreClaims(bundleFile')
  <2>1. \A C : AreClaims(C) => AreClaims(C)'
    BY <1>2
  <2> QED
    BY <1>4, <2>1 DEF BundlesMade
<1>5. CASE /\ orphans' \subseteq orphans
           /\ \/ bundleFile' = bundleFile /\ stage' # "read"
              \/ AreClaims(bundleFile')
  BY <1>1, <1>4, <1>5 DEF BundlesMade
<1>6. CASE UNCHANGED vars
  BY <1>1, <1>4, <1>6 DEF vars, files, BundlesMade
<1>7. CASE Start \/ ChangePolicy \/ DeleteTorn \/ FinalizeEnds \/ ReadBundle
  BY <1>1, <1>5, <1>7 DEF Start, ChangePolicy, DeleteTorn, FinalizeEnds, ReadBundle, files
<1>8. CASE BuildBundle
  BY <1>3, <1>5, <1>8 DEF BuildBundle, Exit
<1>9. CASE FinalizeNext
  BY <1>5, <1>9 DEF FinalizeNext, ResumeClaim, FinalizeClaim, FinalizeFails, Exit, files
<1>10. CASE WriteBundle
  BY <1>1, <1>5, <1>10 DEF WriteBundle, MemoryMade
<1>11. CASE PlanNext
  BY <1>5, <1>11 DEF PlanNext, ResumePlan, MakePlan, WorkerThrows, files
<1>12. CASE PlanEnds \/ Validate \/ WriteLock
  BY <1>5, <1>12 DEF PlanEnds, Validate, WriteLock, Exit, files
<1>13. CASE OrphanWrites
  BY <1>1, <1>5, <1>13 DEF OrphanWrites, BundlesMade
<1>14. CASE Kill
  <2>1. stage' = "idle" /\ (bundleFile' = bundleFile \/ bundleFile' = Torn)
    BY <1>14 DEF Kill, KilledWriting, Exit, files
  <2>2. orphans' \subseteq orphans \cup {Drafts(policy)}
    BY <1>14 DEF Kill, KilledWriting
  <2> QED
    BY <1>1, <1>3, <1>4, <2>1, <2>2 DEF BundlesMade
<1> QED
  BY <1>6, <1>7, <1>8, <1>9, <1>10, <1>11, <1>12, <1>13, <1>14 DEF Next, Run

\* What a claim is finalized to can be saved, and one of the claims a run has.
LEMMA FinalizedMade ==
  ASSUME Bounded, NEW c, IsLoop(c), NEW lost, NEW r \in FinalClaim(c, lost, policy)
  PROVE  IsLoop(r) /\ Reduced(r) /\ Replans(r, policy)
<1>1. PICK bps \in Nat \ {0} : bps = policy
  BY HistoryTyped
<1>2. FinalOfLoop(c, r, bps)
  BY <1>1, HistoryTyped, FinalParts
<1> QED
  BY <1>1, <1>2, HistoryTyped, FinalIsLoop, FinalIsReduced, FinalReplans

\* Every claim saved, by this run or one before it, can be planned again.
LEMMA ClaimSavesStep ==
  ASSUME MadeInv, [Next]_vars
  PROVE  ClaimSavesMade'
<1>1. ClaimSavesMade /\ Bounded /\ MemoryMade /\ history' = history
  BY HistoryFixed DEF MadeInv
<1>2. CASE OneEach(claimFiles') /\ \A s \in claimFiles' : s \in claimFiles \/ SavedClaim(s)
  <2>1. \A s \in claimFiles' : SavedClaim(s)
    BY <1>1, <1>2 DEF ClaimSavesMade
  <2>2. ASSUME NEW s, SavedClaim(s) PROVE SavedClaim(s)'
    <3>1. IsLoop(s.result)' <=> IsLoop(s.result)
      BY <1>1, SameClaim
    <3>2. Replans(s.result, s.policy)' <=> Replans(s.result, s.policy)
      BY <1>1, SameReplans
    <3>3. Reduced(s.result)' <=> Reduced(s.result)
      BY <1>1, SameReduced
    <3> QED
      BY <2>2, <3>1, <3>2, <3>3 DEF SavedClaim
  <2>3. \A s \in claimFiles' : SavedClaim(s)'
    BY <2>1, <2>2
  <2>4. OneEach(claimFiles)'
    BY <1>2 DEF OneEach
  <2> QED
    BY <2>3, <2>4 DEF ClaimSavesMade
<1>3. CASE claimFiles' \subseteq claimFiles
  <2>1. OneEach(claimFiles')
    BY <1>1, <1>3 DEF ClaimSavesMade, OneEach
  <2> QED
    BY <1>2, <1>3, <2>1
<1>4. ASSUME NEW new, SavedClaim(new), claimFiles' = Save(claimFiles, new)
      PROVE  ClaimSavesMade'
  <2>1. OneEach(claimFiles')
    BY <1>1, <1>4, SaveOne DEF ClaimSavesMade
  <2>2. \A s \in claimFiles' : s \in claimFiles \/ s = new
    BY <1>4, SaveAdds
  <2> QED
    BY <1>2, <1>4, <2>1, <2>2
<1>5. CASE \E c : TearClaim(c)
  <2>1. PICK c : TearClaim(c)
    BY <1>5
  <2>2. SavedClaim([source |-> c, policy |-> policy, result |-> Torn])
    BY <1>1 DEF SavedClaim, Bounded
  <2> QED
    BY <1>4, <2>1, <2>2 DEF TearClaim
<1>6. CASE FinalizeNext
  <2>1. PICK c \in pending : ResumeClaim(c) \/ FinalizeClaim(c) \/ FinalizeFails(c)
    BY <1>6 DEF FinalizeNext
  <2>2. IsLoop(c)
    BY <1>1, <1>6 DEF FinalizeNext, MemoryMade
  <2>3. CASE FinalizeClaim(c)
    <3>1. PICK lost :
            \/ claimFiles' = claimFiles
            \/ \E saved \in FinalClaim(c, lost, policy) :
                 claimFiles' = Save(claimFiles, [source |-> c, policy |-> policy, result |-> saved])
      BY <2>3 DEF FinalizeClaim
    <3>2. CASE \E saved \in FinalClaim(c, lost, policy) :
                 claimFiles' = Save(claimFiles, [source |-> c, policy |-> policy, result |-> saved])
      <4>1. PICK saved \in FinalClaim(c, lost, policy) :
                 claimFiles' = Save(claimFiles, [source |-> c, policy |-> policy, result |-> saved])
        BY <3>2
      <4>2. IsLoop(saved) /\ Reduced(saved) /\ Replans(saved, policy)
        BY <1>1, <2>2, FinalizedMade
      <4>3. SavedClaim([source |-> c, policy |-> policy, result |-> saved])
        BY <1>1, <4>2 DEF SavedClaim, Bounded
      <4> QED
        BY <1>4, <4>1, <4>3
    <3> QED
      BY <1>3, <3>1, <3>2
  <2>4. CASE ResumeClaim(c) \/ FinalizeFails(c)
    BY <1>3, <2>4 DEF ResumeClaim, FinalizeFails, files
  <2> QED
    BY <2>1, <2>3, <2>4
<1>7. CASE UNCHANGED vars
  BY <1>3, <1>7 DEF vars, files
<1>8. CASE Start \/ OrphanWrites \/ ChangePolicy \/ DeleteTorn
  BY <1>3, <1>8 DEF Start, OrphanWrites, ChangePolicy, DeleteTorn, files
<1>9. CASE \/ BuildBundle \/ ReadBundle \/ FinalizeEnds \/ WriteBundle
           \/ PlanEnds \/ Validate \/ WriteLock
  BY <1>3, <1>9 DEF BuildBundle, ReadBundle, FinalizeEnds, WriteBundle, PlanEnds, Validate,
                    WriteLock, files
<1>10. CASE PlanNext
  BY <1>3, <1>10 DEF PlanNext, ResumePlan, MakePlan, WorkerThrows, files
<1>11. CASE Kill
  BY <1>3, <1>5, <1>11 DEF Kill, KilledWriting, files
<1> QED
  BY <1>6, <1>7, <1>8, <1>9, <1>10, <1>11 DEF Next, Run

\* A plan made for a claim of the run is for that claim and proves it.
LEMMA PlansWithin ==
  ASSUME Bounded, NEW c, IsLoop(c) \/ IsPair(c), Ready(c), NEW lost, NEW p \in PlansOf(c, lost)
  PROVE  p.claim = c /\ WithinClaim(p) /\ Proves(p)
<1> DEFINE made == IF c.kind = "reciprocal" THEN PlanPair(c, Resolved(c, lost))
                   ELSE PlanLoop(c, c, c \in audited, FALSE, policy)
<1>1. PICK q \in made :
        p = [claim |-> q.claim, fundings |-> q.fundings, settlements |-> q.settlements,
             returns |-> q.returns, root |-> final, policy |-> policy, ledger |-> c \in audited]
  <2> HIDE DEF made
  <2>1. PlansOf(c, lost) =
          {[claim |-> q.claim, fundings |-> q.fundings, settlements |-> q.settlements,
            returns |-> q.returns, root |-> final, policy |-> policy,
            ledger |-> c \in audited] : q \in made}
    BY Zenon DEF PlansOf, made
  <2> QED
    BY <2>1
<1>2. /\ q.claim = c /\ WithinClaim(q)
      /\ IF c.kind = "reciprocal" THEN ProvesPair(q) ELSE ProvesLoop(q, policy, c \in audited)
  <2>1. CASE c.kind = "reciprocal"
    <3>1. IsPair(c) /\ q \in PlanPair(c, Resolved(c, lost))
      BY <2>1, KindOfClaim
    <3> QED
      BY <2>1, <3>1, PairPlanWithin
  <2>2. CASE c.kind # "reciprocal"
    <3>1. PICK bps \in Nat \ {0} : bps = policy
      BY HistoryTyped
    <3>2. PICK ledger : ledger = (c \in audited)
      OBVIOUS
    <3>3. IsLoop(c) /\ q \in PlanLoop(c, c, ledger, FALSE, bps)
      BY <2>2, <3>1, <3>2, KindOfClaim
    <3>4. q.claim = c /\ WithinClaim(q)
      BY <3>3, HistoryTyped, LoopPlanWithin
    <3>5. Reduced(c)
      BY <2>2 DEF Ready
    <3>6. ProvesLoop(q, bps, ledger)
      BY <3>3, <3>5, HistoryTyped, LoopPlanProves
    <3> QED
      BY <2>2, <3>1, <3>2, <3>4, <3>6
  <2> QED
    BY <2>1, <2>2
<1> HIDE DEF made
<1>3. /\ p.claim = q.claim /\ p.fundings = q.fundings /\ p.settlements = q.settlements
      /\ p.returns = q.returns /\ p.policy = policy /\ p.ledger = (c \in audited)
  BY <1>1
<1>4. WithinClaim(p)
  BY <1>2, <1>3 DEF WithinClaim
<1>5. ProvesPair(q) => ProvesPair(p)
  BY <1>3 DEF ProvesPair
<1>6. \A bps, ledger : ProvesLoop(q, bps, ledger) => ProvesLoop(p, bps, ledger)
  BY <1>3 DEF ProvesLoop, LedgersKept
<1> QED
  BY <1>2, <1>3, <1>4, <1>5, <1>6 DEF Proves

\* Every plan saved proves what is in its claim.
LEMMA PlanSavesStep ==
  ASSUME MadeInv, [Next]_vars
  PROVE  PlanSavesMade'
<1>1. PlanSavesMade /\ Bounded /\ MemoryMade /\ history' = history
  BY HistoryFixed DEF MadeInv
<1>2. CASE OneEach(planFiles') /\ \A s \in planFiles' : s \in planFiles \/ SavedPlan(s)
  <2>1. \A s \in planFiles' : SavedPlan(s)
    BY <1>1, <1>2 DEF PlanSavesMade
  <2>2. ASSUME NEW s, SavedPlan(s) PROVE SavedPlan(s)'
    <3>1. Proves(s.result)' <=> Proves(s.result)
      BY <1>1, SameProves
    <3> QED
      BY <2>2, <3>1 DEF SavedPlan, WithinClaim
  <2>3. \A s \in planFiles' : SavedPlan(s)'
    BY <2>1, <2>2
  <2>4. OneEach(planFiles)'
    BY <1>2 DEF OneEach
  <2> QED
    BY <2>3, <2>4 DEF PlanSavesMade
<1>3. CASE planFiles' \subseteq planFiles
  <2>1. OneEach(planFiles')
    BY <1>1, <1>3 DEF PlanSavesMade, OneEach
  <2> QED
    BY <1>2, <1>3, <2>1
<1>4. CASE \E S : TearPlans(S)
  <2>1. PICK S : TearPlans(S)
    BY <1>4
  <2>2. \A s \in planFiles' :
          (s \in planFiles /\ s.source \notin S)
          \/ \E c \in S : s = [source |-> c, policy |-> policy, result |-> Torn]
    BY <2>1 DEF TearPlans
  <2>3. OneEach(planFiles')
    BY <1>1, <2>2 DEF PlanSavesMade, OneEach
  <2>4. \A s \in planFiles' : s \in planFiles \/ SavedPlan(s)
    BY <1>1, <2>2 DEF SavedPlan, Bounded
  <2> QED
    BY <1>2, <2>3, <2>4
<1>5. CASE PlanNext
  <2>1. PICK c \in pending : ResumePlan(c) \/ MakePlan(c) \/ WorkerThrows(c)
    BY <1>5 DEF PlanNext
  <2>2. (IsLoop(c) \/ IsPair(c)) /\ Ready(c)
    BY <1>1, <1>5 DEF PlanNext, MemoryMade, AreClaims
  <2>3. CASE MakePlan(c)
    <3>1. PICK lost :
            \/ planFiles' = planFiles
            \/ \E plan \in PlansOf(c, lost) :
                 planFiles' = Save(planFiles, [source |-> c, policy |-> policy, result |-> plan])
      BY <2>3 DEF MakePlan
    <3>2. CASE \E plan \in PlansOf(c, lost) :
                 planFiles' = Save(planFiles, [source |-> c, policy |-> policy, result |-> plan])
      <4>1. PICK plan \in PlansOf(c, lost) :
                 planFiles' = Save(planFiles, [source |-> c, policy |-> policy, result |-> plan])
        BY <3>2
      <4>2. plan.claim = c /\ WithinClaim(plan) /\ Proves(plan)
        BY <1>1, <2>2, PlansWithin
      <4>3. PICK new : new = [source |-> c, policy |-> policy, result |-> plan]
        OBVIOUS
      <4>4. SavedPlan(new)
        BY <1>1, <4>2, <4>3 DEF SavedPlan, Bounded
      <4>5. OneEach(planFiles')
        BY <1>1, <4>1, <4>3, SaveOne DEF PlanSavesMade
      <4>6. \A s \in planFiles' : s \in planFiles \/ s = new
        BY <4>1, <4>3, SaveAdds
      <4> QED
        BY <1>2, <4>4, <4>5, <4>6
    <3> QED
      BY <1>3, <3>1, <3>2
  <2>4. CASE ResumePlan(c) \/ WorkerThrows(c)
    BY <1>3, <2>4 DEF ResumePlan, WorkerThrows, files
  <2> QED
    BY <2>1, <2>3, <2>4
<1>6. CASE UNCHANGED vars
  BY <1>3, <1>6 DEF vars, files
<1>7. CASE Start \/ OrphanWrites \/ ChangePolicy \/ DeleteTorn
  BY <1>3, <1>7 DEF Start, OrphanWrites, ChangePolicy, DeleteTorn, files
<1>8. CASE \/ BuildBundle \/ ReadBundle \/ FinalizeEnds \/ WriteBundle
           \/ PlanEnds \/ Validate \/ WriteLock
  BY <1>3, <1>8 DEF BuildBundle, ReadBundle, FinalizeEnds, WriteBundle, PlanEnds, Validate,
                    WriteLock, files
<1>9. CASE FinalizeNext
  BY <1>3, <1>9 DEF FinalizeNext, ResumeClaim, FinalizeClaim, FinalizeFails, files
<1>10. CASE Kill
  BY <1>3, <1>4, <1>10 DEF Kill, KilledWriting, TearClaim, files
<1> QED
  BY <1>5, <1>6, <1>7, <1>8, <1>9, <1>10 DEF Next, Run

\* MemoryMade, of values that memory may have next.
Memory(st, pend, done, known, made, workers) ==
  /\ AreClaims(done) /\ (\A c \in done : Ready(c)) /\ known \subseteq done
  /\ st \in {"idle", "draft", "read"} => pend = {} /\ known = {}
  /\ IF st = "finalize" THEN \A c \in pend : IsLoop(c) ELSE pend \subseteq done
  /\ \A p \in made : p.claim \in done /\ WithinClaim(p) /\ Proves(p)
  /\ workers \in 0 .. ClaimWorkers

LEMMA MemoryNext ==
  ASSUME history' = history, Memory(stage', pending', final', audited', plans', crew')
  PROVE  MemoryMade'
<1>1. \A C : AreClaims(C) => AreClaims(C)'
  BY SameClaims
<1>2. \A c : IsLoop(c) => IsLoop(c)'
  BY SameClaim
<1>3. \A c : Ready(c) => Ready(c)'
  BY SameReduced
<1>4. \A p : Proves(p) => Proves(p)'
  BY SameProves
<1> QED
  BY <1>1, <1>2, <1>3, <1>4 DEF Memory, MemoryMade, WithinClaim

LEMMA NothingMade == Memory("idle", {}, {}, {}, {}, 0)
<1>1. AreClaims({})
  BY FS_EmptySet DEF AreClaims
<1> QED
  BY <1>1, SnapshotAssumption DEF Memory

LEMMA LoopsOf ==
  ASSUME NEW C, AreClaims(C)
  PROVE  /\ AreClaims(C \ Loops(C)) /\ \A c \in C \ Loops(C) : Ready(c)
         /\ \A c \in Loops(C) : IsLoop(c)
<1>1. /\ \A c \in Loops(C) : IsLoop(c)
      /\ \A c \in C \ Loops(C) : Ready(c)
  BY KindOfClaim DEF Loops, AreClaims, Ready
<1> QED
  BY <1>1, FS_Subset DEF AreClaims

LEMMA OneMoreClaim ==
  ASSUME NEW C, AreClaims(C), NEW c, IsLoop(c)
  PROVE  AreClaims(C \cup {c})
  BY FS_AddElement DEF AreClaims

LEMMA CrewType ==
  ASSUME NEW C, IsFiniteSet(C)
  PROVE  Min({ClaimWorkers, Cardinality(C)}) \in 0 .. ClaimWorkers
<1>1. PICK n \in Nat : n = Cardinality(C)
  BY FS_CardinalityType
<1>2. PICK S : S = {ClaimWorkers, n}
  OBVIOUS
<1>3. S \in SUBSET Nat /\ S # {}
  BY <1>2, SnapshotAssumption
<1>4. Min(S) \in S /\ \A x \in S : Min(S) <= x
  BY <1>3, MinIn
<1> QED
  BY <1>1, <1>2, <1>3, <1>4, SnapshotAssumption

LEMMA FinalizingMade ==
  ASSUME MadeInv, WholeInv, FinalizeNext
  PROVE  Memory(stage', pending', final', audited', plans', crew')
<1>1. /\ Bounded /\ ClaimSavesMade /\ stage = "finalize"
      /\ Memory(stage, pending, final, audited, plans, crew)
  BY DEF MadeInv, FinalizeNext, MemoryMade, Memory
<1>2. PICK c \in pending : ResumeClaim(c) \/ FinalizeClaim(c) \/ FinalizeFails(c)
  BY DEF FinalizeNext
<1>3. CASE Exit
  BY <1>3, NothingMade DEF Exit
<1>4. ASSUME NEW r, IsLoop(r), Ready(r), Finalized(c, r), stage' = stage, plans' = plans, crew' = crew,
             audited' = audited \/ audited' = audited \cup {r}
      PROVE  Memory(stage', pending', final', audited', plans', crew')
  <2>1. final' = final \cup {r} /\ pending' = pending \ {c}
    BY <1>4 DEF Finalized
  <2>2. AreClaims(final')
    BY <1>1, <1>4, <2>1, OneMoreClaim DEF Memory
  <2> QED
    BY <1>1, <1>4, <2>1, <2>2 DEF Memory
<1>5. CASE ResumeClaim(c)
  <2>1. PICK s \in claimFiles : ClaimResumes(c, s) /\ Finalized(c, s.result)
    BY <1>5 DEF ResumeClaim
  <2>2. IsLoop(s.result) /\ Ready(s.result)
    BY <1>1, <2>1 DEF ClaimSavesMade, SavedClaim, ClaimResumes, Ready
  <2> QED
    BY <1>4, <1>5, <2>1, <2>2 DEF ResumeClaim
<1>6. CASE FinalizeClaim(c)
  <2>1. PICK lost :
          \/ \E saved \in FinalClaim(c, lost, policy) :
               /\ Finalized(c, saved) /\ audited' = audited \cup {saved}
               /\ stage' = stage /\ plans' = plans /\ crew' = crew
          \/ Exit
    BY <1>6 DEF FinalizeClaim
  <2>2. ASSUME NEW saved \in FinalClaim(c, lost, policy)
        PROVE  IsLoop(saved) /\ Ready(saved)
    BY <1>1, FinalizedMade DEF Memory, Ready
  <2> QED
    BY <1>3, <1>4, <2>1, <2>2
<1>7. CASE FinalizeFails(c)
  BY <1>3, <1>7 DEF FinalizeFails
<1> QED
  BY <1>2, <1>5, <1>6, <1>7

LEMMA PlanningMade ==
  ASSUME MadeInv, PlanNext
  PROVE  Memory(stage', pending', final', audited', plans', crew')
<1>1. /\ Bounded /\ PlanSavesMade /\ stage = "plan" /\ crew > 0 /\ ClaimWorkers \in Nat
      /\ Memory(stage, pending, final, audited, plans, crew)
  BY SnapshotAssumption DEF MadeInv, PlanNext, MemoryMade, Memory
<1>2. PICK c \in pending : ResumePlan(c) \/ MakePlan(c) \/ WorkerThrows(c)
  BY DEF PlanNext
<1>3. stage' = stage /\ final' = final /\ audited' = audited /\ pending' = pending \ {c}
  BY <1>2 DEF ResumePlan, MakePlan, WorkerThrows, Planned
<1>4. ASSUME crew' = crew \/ crew' = crew - 1,
             \A p \in plans' : p \in plans \/ (p.claim = c /\ WithinClaim(p) /\ Proves(p))
      PROVE  Memory(stage', pending', final', audited', plans', crew')
  <2>1. crew' \in 0 .. ClaimWorkers
    BY <1>1, <1>4 DEF Memory
  <2> QED
    BY <1>1, <1>3, <1>4, <2>1 DEF Memory
<1>5. CASE ResumePlan(c)
  <2>1. PICK s \in planFiles : PlanResumes(c, s) /\ Planned(c, s.result)
    BY <1>5 DEF ResumePlan
  <2>2. s.result.claim = c /\ WithinClaim(s.result) /\ Proves(s.result)
    BY <1>1, <2>1 DEF PlanSavesMade, SavedPlan, PlanResumes, Saved
  <2> QED
    BY <1>4, <1>5, <2>1, <2>2 DEF ResumePlan, Planned
<1>6. CASE MakePlan(c)
  <2>1. (IsLoop(c) \/ IsPair(c)) /\ Ready(c)
    BY <1>1 DEF Memory, AreClaims
  <2>2. PICK lost : \/ crew' = crew /\ \E plan \in PlansOf(c, lost) : plans' = plans \cup {plan}
                    \/ crew' = crew - 1 /\ plans' = plans
    BY <1>6 DEF MakePlan, Planned
  <2>3. \A plan \in PlansOf(c, lost) : plan.claim = c /\ WithinClaim(plan) /\ Proves(plan)
    BY <1>1, <2>1, PlansWithin
  <2> QED
    BY <1>4, <2>2, <2>3
<1>7. CASE WorkerThrows(c)
  BY <1>4, <1>7 DEF WorkerThrows
<1> QED
  BY <1>2, <1>5, <1>6, <1>7

\* Memory keeps to it in every step.
LEMMA MemoryMadeStep ==
  ASSUME MadeInv, WholeInv, [Next]_vars
  PROVE  MemoryMade'
<1>1. /\ Memory(stage, pending, final, audited, plans, crew)
      /\ BundlesMade /\ PlansOfRun /\ history' = history
  BY HistoryFixed DEF MadeInv, MemoryMade, Memory, WholeInv
<1>2. SUFFICES Memory(stage', pending', final', audited', plans', crew')
  BY <1>1, MemoryNext
<1>3. CASE Exit
  BY <1>3, NothingMade DEF Exit
<1>4. CASE stage' = stage /\ memory' = memory
  BY <1>1, <1>4 DEF memory
<1>5. CASE UNCHANGED vars \/ OrphanWrites \/ ChangePolicy \/ DeleteTorn
  BY <1>4, <1>5 DEF vars, OrphanWrites, ChangePolicy, DeleteTorn
<1>6. CASE Start
  BY <1>1, <1>6 DEF Start, memory, Memory
<1>7. CASE BuildBundle
  BY <1>1, <1>3, <1>7 DEF BuildBundle, memory, Memory
<1>8. CASE ReadBundle
  <2>1. /\ stage' = "finalize" /\ pending' = Loops(bundleFile) /\ plans' = {} /\ audited' = {}
        /\ final' = bundleFile \ Loops(bundleFile) /\ crew' = crew
    BY <1>1, <1>8 DEF ReadBundle, PlansOfRun, Memory
  <2>2. AreClaims(final') /\ (\A c \in final' : Ready(c)) /\ \A c \in pending' : IsLoop(c)
    BY <1>1, <1>8, <2>1, LoopsOf DEF ReadBundle, BundlesMade
  <2> QED
    BY <1>1, <2>1, <2>2 DEF Memory
<1>9. CASE FinalizeNext
  BY <1>9, FinalizingMade
<1>10. CASE FinalizeEnds
  BY <1>1, <1>10 DEF FinalizeEnds, memory, Memory
<1>11. CASE WriteBundle
  <2>1. /\ pending' = final /\ stage' = "plan" /\ final' = final /\ audited' = audited
        /\ plans' = plans /\ crew' = Min({ClaimWorkers, Cardinality(final)})
    BY <1>11 DEF WriteBundle
  <2>2. crew' \in 0 .. ClaimWorkers
    BY <1>1, <2>1, CrewType DEF Memory, AreClaims
  <2> QED
    BY <1>1, <2>1, <2>2 DEF Memory
<1>12. CASE PlanNext
  BY <1>12, PlanningMade
<1>13. CASE PlanEnds
  BY <1>1, <1>3, <1>13 DEF PlanEnds, memory, Memory
<1>14. CASE Validate
  BY <1>1, <1>3, <1>14 DEF Validate, memory, Memory
<1>15. CASE WriteLock \/ Kill
  BY <1>3, <1>15 DEF WriteLock, Kill
<1> QED
  BY <1>5, <1>6, <1>7, <1>8, <1>9, <1>10, <1>11, <1>12, <1>13, <1>14, <1>15 DEF Next, Run

-----------------------------------------------------------------------------
LEMMA MadeStep ==
  ASSUME MadeInv, WholeInv, [Next]_vars
  PROVE  MadeInv'
  BY BoundedStep, BundlesMadeStep, MemoryMadeStep, ClaimSavesStep, PlanSavesStep DEF MadeInv

\* A lock has the two digests and the root.
LockMade == lockFile \in {Nothing, Torn} \/ DOMAIN lockFile = {"root", "bundle", "plan"}

LEMMA LockMadeStep ==
  ASSUME LockMade, [Next]_vars
  PROVE  LockMade'
<1>1. CASE lockFile' = lockFile \/ lockFile' = Torn
  BY <1>1 DEF LockMade
<1>2. CASE UNCHANGED vars
  BY <1>1, <1>2 DEF vars, files
<1>3. CASE Start \/ OrphanWrites \/ ChangePolicy \/ DeleteTorn
  BY <1>1, <1>3 DEF Start, OrphanWrites, ChangePolicy, DeleteTorn, files
<1>4. CASE BuildBundle \/ ReadBundle \/ FinalizeNext \/ FinalizeEnds \/ WriteBundle
  BY <1>1, <1>4 DEF BuildBundle, ReadBundle, FinalizeNext, ResumeClaim, FinalizeClaim,
                    FinalizeFails, FinalizeEnds, WriteBundle, files
<1>5. CASE PlanNext \/ PlanEnds \/ Validate
  BY <1>1, <1>5 DEF PlanNext, ResumePlan, MakePlan, WorkerThrows, PlanEnds, Validate, files
<1>6. CASE WriteLock
  BY <1>6 DEF WriteLock, LockMade
<1>7. CASE Kill
  BY <1>1, <1>7 DEF Kill, KilledWriting, files
<1> QED
  BY <1>2, <1>3, <1>4, <1>5, <1>6, <1>7 DEF Next, Run

\* Everything that is said of a snapshot and is inductive.
SoundInv == WholeInv /\ MadeInv /\ LockMade

LEMMA SoundInit ==
  ASSUME Init
  PROVE  SoundInv
  BY WholeInit, MadeInit DEF SoundInv, LockMade, Init

LEMMA SoundStep ==
  ASSUME SoundInv, [Next]_vars
  PROVE  SoundInv'
  BY WholeStep, MadeStep, LockMadeStep DEF SoundInv

\* The invariant implies the types.
LEMMA SoundImplies ==
  ASSUME SoundInv
  PROVE  TypeOK
<1>1. /\ Bounded /\ BundlesMade /\ MemoryMade /\ ClaimSavesMade /\ PlanSavesMade
      /\ WrittenPlan /\ LockMade
  BY DEF SoundInv, MadeInv, WholeInv
<1>2. bundleFile \in {Nothing, Torn} \/ \A c \in bundleFile : c.settlements \subseteq SettlementRows
  BY <1>1 DEF BundlesMade, AreClaims, IsLoop, IsPair
<1>3. \A saves \in {claimFiles, planFiles} :
        \A s, t \in saves : s.policy \in Policies /\ (s.source = t.source => s = t)
  BY <1>1 DEF ClaimSavesMade, PlanSavesMade, SavedClaim, SavedPlan, OneEach
<1>4. audited \subseteq final /\ {p.claim : p \in plans} \subseteq final
  BY <1>1 DEF MemoryMade
<1> QED
  BY <1>1, <1>2, <1>3, <1>4 DEF TypeOK, Bounded, WrittenPlan, LockMade, MemoryMade

\* The files and the memory of the process are well typed in every state, kills and
\* changes of the policy included: each source has one checkpoint per directory, a plan
\* file one plan per claim, and no more faults are counted than are allowed.
THEOREM SnapshotTypes == Spec => []TypeOK
<1>1. Init => SoundInv
  BY SoundInit
<1>2. SoundInv /\ [Next]_vars => SoundInv'
  BY SoundStep
<1>3. SoundInv => TypeOK
  BY SoundImplies
<1> QED
  BY <1>1, <1>2, <1>3, PTL DEF Spec

\* A claim that was saved can be planned again from its own evidence, with the same
\* settlements and fundings, under the policy it was saved with: a rerun that takes it
\* from its checkpoint does not stop there, whatever the provider hid when it was made
\* (proof-planner.mjs 384-404, 740-751).
THEOREM SavedClaimsReplan == Spec => []SavedClaimReplans
<1>1. Init => SoundInv
  BY SoundInit
<1>2. SoundInv /\ [Next]_vars => SoundInv'
  BY SoundStep
<1>3. SoundInv => SavedClaimReplans
  BY DEF SoundInv, MadeInv, ClaimSavesMade, SavedClaim, Replans, SavedClaimReplans
<1> QED
  BY <1>1, <1>2, <1>3, PTL DEF Spec

-----------------------------------------------------------------------------
(* Memberships *)

\* Different numbers, different leaves.
LEMMA LeavesDiffer ==
  ASSUME NEW n \in Nat
  PROVE  \A k, m \in 1 .. n : Leaf(k) = Leaf(m) <=> k = m
  BY DEF Leaf

\* In a tree of any size every leaf's membership leads to the root, and no other's does.
LEMMA PathsLead ==
  ASSUME NEW n \in Nat
  PROVE  PathsLeadToRoot(n)
<1> SUFFICES ASSUME NEW k \in 1 .. n, NEW m \in 1 .. n
             PROVE  Climb(Leaf(k), Membership(n, m)) = RootOf(LeavesTo(n)) <=> k = m
  BY DEF PathsLeadToRoot
<1>1. PICK leaves : leaves = LeavesTo(n)
  OBVIOUS
<1>2. IsLevel(leaves) /\ Len(leaves) = n /\ \A i \in 1 .. n : leaves[i] = Leaf(i)
  BY <1>1, LevelWithDomain DEF LeavesTo
<1>3. PICK steps : steps = Membership(n, m)
  OBVIOUS
<1>4. PICK index \in 0 .. n - 1 : index = m - 1
  OBVIOUS
<1>5. IsPathOf(leaves, index, steps)
  <2>1. PICK height \in Nat : height = Height(leaves)
    BY <1>2, HeightIs
  <2>2. PICK step : step = [h \in 1 .. height |->
          [node |-> Sibling(leaves, index, h - 1),
           left |-> Beside(LevelAbove(leaves, h - 1), Place(index, h - 1)) < Place(index, h - 1)]]
    OBVIOUS
  <2>3. steps = step
    BY <1>1, <1>3, <1>4, <2>1, <2>2 DEF Membership, Sibling
  <2>4. Len(steps) = height
    BY <2>1, <2>2, <2>3, LevelWithDomain
  <2>5. ASSUME NEW h \in 1 .. height PROVE Follows(leaves, index, h - 1, steps[h])
    <3>1. PICK g \in Nat : g = h - 1
      OBVIOUS
    <3>2. PICK level, p : level = LevelAbove(leaves, g) /\ p = Place(index, g)
      OBVIOUS
    <3>3. p \in Nat
      BY <3>2, PlaceType
    <3>4. PICK node : node = Sibling(leaves, index, g)
      OBVIOUS
    <3>5. PICK r : r = steps[h]
      OBVIOUS
    <3>6. r = [node |-> node, left |-> Beside(level, p) < p]
      BY <2>2, <2>3, <3>1, <3>2, <3>4, <3>5
    <3>7. Beside(level, p) < p <=> p % 2 = 1
      BY <3>3 DEF Beside
    <3>8. r.node = node /\ (r.left <=> p % 2 = 1)
      BY <3>6, <3>7
    <3> QED
      BY <3>1, <3>2, <3>4, <3>5, <3>8 DEF Follows
  <2> QED
    BY <2>1, <2>4, <2>5 DEF IsPathOf
<1>6. PICK leaf : leaf = Leaf(k)
  OBVIOUS
<1>7. index \in 0 .. Len(leaves) - 1 /\ Len(leaves) >= 1
  BY <1>2, <1>4
<1>8. Climb(leaf, steps) = RootOf(leaves) <=> leaf = leaves[index + 1]
  BY <1>2, <1>5, <1>7, PathLeadsUp
<1>9. leaf = leaves[index + 1] <=> k = m
  <2>1. leaves[m] = Leaf(m) /\ index + 1 = m
    BY <1>2, <1>4
  <2> QED
    BY <1>6, <2>1, LeavesDiffer
<1> QED
  BY <1>1, <1>3, <1>6, <1>8, <1>9

LEMMA DependenciesType ==
  ASSUME Bounded, NEW c, IsLoop(c) \/ IsPair(c)
  PROVE  Dependencies(c) \in Nat
<1>1. IsFiniteSet(c.settlements) /\ IsFiniteSet(c.fundings)
  BY HistoryTyped, SettlementKeys, FS_Subset DEF IsLoop, IsPair, AreFundings
<1>2. c.kind # "reciprocal" => IsFiniteSet(c.returns)
  BY KindOfClaim DEF IsLoop, ArePaths
<1> QED
  BY <1>1, <1>2, FS_CardinalityType DEF Dependencies

LEMMA SoundLeads ==
  ASSUME SoundInv
  PROVE  MembershipsLeadToRoot
<1>1. Bounded /\ MemoryMade
  BY DEF SoundInv, MadeInv
<1>2. Cardinality(final) \in Nat
  BY <1>1, FS_CardinalityType DEF MemoryMade, AreClaims
<1>3. PathsLeadToRoot(Cardinality(final))
  BY <1>2, PathsLead
<1>4. \A c \in final : PathsLeadToRoot(Dependencies(c))
  BY <1>1, DependenciesType, PathsLead DEF MemoryMade, AreClaims
<1>5. \A p \in plans : WithinClaim(p)
  BY <1>1 DEF MemoryMade
<1> QED
  BY <1>3, <1>4, <1>5 DEF MembershipsLeadToRoot, WithinClaim

\* When the plans of a run are validated, each proves evidence of its claim, and the
\* memberships attached to the claims and to their evidence lead to the report root and
\* to the claims' roots, each from its own leaf and from no other, in trees of any size.
THEOREM PlansLeadToRoot == Spec => []MembershipsLeadToRoot
<1>1. Init => SoundInv
  BY SoundInit
<1>2. SoundInv /\ [Next]_vars => SoundInv'
  BY SoundStep
<1>3. SoundInv => MembershipsLeadToRoot
  BY SoundLeads
<1> QED
  BY <1>1, <1>2, <1>3, PTL DEF Spec

LEMMA SoundIsComplete ==
  ASSUME SoundInv
  PROVE  PlansAreComplete
  BY DEF SoundInv, MadeInv, MemoryMade, Proves, PlansAreComplete

\* Every plan of a run, made now or resumed, proves its claim: all of its settlements, each
\* funded before, within the ledgers of the buyers where those were at hand, and disjoint
\* valid returns after them that cover the volume at the plan's policy; a pair's volumes
\* qualify; and all its evidence leads to the claim's root, the claim to the report's
\* (proof-planner.mjs 344-428, 637-660, return-path-selection.mjs 24-54).
THEOREM PlansProveAll == Spec => []PlansProveClaims
<1>1. Init => SoundInv
  BY SoundInit
<1>2. SoundInv /\ [Next]_vars => SoundInv'
  BY SoundStep
<1>3. SoundInv => PlansProveClaims
  BY SoundIsComplete, SoundLeads DEF PlansProveClaims
<1> QED
  BY <1>1, <1>2, <1>3, PTL DEF Spec

===============================================================================
