------------------------------- MODULE Snapshot -------------------------------
(***************************************************************************)
(* Freezing what is to be proved (scripts/build-unified-historical-        *)
(* snapshot.mjs and planFile of scripts/proof-planner.mjs): a child writes *)
(* the draft bundle, each closed loop of it is finalized within its        *)
(* ledgers, the bundle is written again, workers plan its claims, the plan *)
(* is written and a lock with the digests of both.  Checkpoints let a      *)
(* rerun skip claims; a plain write that a kill interrupts leaves a torn   *)
(* file, which is not JSON.                                                *)
(*                                                                         *)
(* A digest is the file's contents.  A worker's reading, planning and      *)
(* saving of a claim is one step: workers share no file.                   *)
(***************************************************************************)
EXTENDS Planner

CONSTANTS
  Histories,     \* stretches of history to plan in
  Policies,      \* values of ALPHA_RETURN_BPS in predicate/src/lib.rs over time
  ClaimWorkers,  \* --claim-concurrency
  Torn, Nothing, \* contents of a file: an interrupted write, no file
  MaxKills, MaxFaults, MaxChanges \* bounds: kills, provider faults, changes of the policy

LogKinds == {"transfer", "deposited", "settled"}
Logs == [block : Nat, tx : Nat, kind : LogKinds, from : Nat, to : Nat, amount : Nat, signer : Nat]
LoopCases == [kind : {"closed-loop"}, seller : Nat, funder : Nat, buyers : SUBSET Nat,
              count : Nat, volume : Nat]
PairCases == [kind : {"reciprocal"}, a : Nat, b : Nat, soldA : Nat, soldB : Nat]

\* The analysis of a scan names finitely many cases, and a balance for each of their buyers.
IsHistory(h) ==
  /\ h.logs \in Seq(Logs)
  /\ IsFiniteSet(h.known) /\ h.known \subseteq Seq(1 .. Len(h.logs))
  /\ IsFiniteSet(h.cases) /\ h.cases \subseteq LoopCases \cup PairCases
  /\ \A case \in h.cases : case.kind = "closed-loop" =>
       IsFiniteSet(case.buyers) /\ \A b \in case.buyers : h.end[b] \in Nat

ASSUME SnapshotAssumption ==
  /\ \A h \in Histories : IsHistory(h)
  /\ Policies \subseteq Nat \ {0} /\ MaxReturns \in Nat \ {0} /\ ClaimWorkers \in Nat
  /\ MaxKills \in Nat /\ MaxFaults \in Nat /\ MaxChanges \in Nat

VARIABLES
  policy,      \* the policy of the checked-out predicate
  \* files in the output directory
  bundleFile,  \* proof-bundle.json: its claims
  planFile,    \* proof-plan.json: policy, root, plans
  lockFile,    \* snapshot-lock.json: root, bundle, plan
  claimFiles,  \* ledger-finalization-checkpoints/<draft claim>.json
  planFiles,   \* proof-plan-checkpoints/<final claim>.json
  \* the process
  stage,       \* what it does now
  pending,     \* claims of the bundle still to finalize or to plan
  final,       \* claims done, later the bundle's root
  audited,     \* final claims whose period-end balances were loaded in this run
  plans,       \* plans made
  crew,        \* planning workers that have not thrown
  orphans,     \* drafts that children of killed runs are still to write
  kills, faults, changes

files == <<bundleFile, planFile, lockFile, claimFiles, planFiles>>
memory == <<pending, final, audited, plans, crew>>
bounds == <<kills, faults, changes>>
vars == <<history, policy, files, stage, memory, orphans, bounds>>

Stages == {"idle", "draft", "read", "finalize", "bundle", "plan", "validate", "lock"}

Loops(claims) == {c \in claims : c.kind = "closed-loop"}

\* A checkpoint: what it was made from, under which policy, and the result.
Saved(saves, source) == {s \in saves : s.source = source}

\* Mutant of Save: the checkpoint that was there is kept beside the new one.
SaveBeside(saves, new) == saves \cup {new}

Save(saves, new) == (saves \ Saved(saves, new.source)) \cup {new}
IsTorn(saves, source) == \E s \in Saved(saves, source) : s.result = Torn

Init ==
  /\ history \in Histories /\ policy \in Policies
  /\ bundleFile = Nothing /\ planFile = Nothing /\ lockFile = Nothing
  /\ claimFiles = {} /\ planFiles = {}
  /\ stage = "idle" /\ pending = {} /\ final = {} /\ audited = {} /\ plans = {} /\ crew = 0
  /\ orphans = {}
  /\ kills = 0 /\ faults = 0 /\ changes = 0

\* The process ends; what it had in memory is gone.
Exit ==
  /\ stage' = "idle"
  /\ pending' = {} /\ final' = {} /\ audited' = {} /\ plans' = {} /\ crew' = 0

-----------------------------------------------------------------------------
(* The draft bundle *)

Start ==
  /\ stage = "idle" /\ stage' = "draft"
  /\ UNCHANGED <<history, policy, files, memory, orphans, bounds>>

\* The child builds the draft of the whole scan or writes nothing.
BuildBundle ==
  /\ stage = "draft"
  /\ \/ /\ DraftFails(policy) /\ Exit /\ UNCHANGED bundleFile
     \/ /\ ~DraftFails(policy)
        /\ bundleFile' = Drafts(policy) /\ stage' = "read"
        /\ UNCHANGED memory
  /\ UNCHANGED <<history, policy, planFile, lockFile, claimFiles, planFiles, orphans, bounds>>

\* planFile reads the draft; reciprocal claims are final as they are.
ReadBundle ==
  /\ stage = "read"
  /\ stage' = "finalize"
  /\ pending' = Loops(bundleFile) /\ final' = bundleFile \ Loops(bundleFile)
  /\ UNCHANGED <<history, policy, files, audited, plans, crew, orphans, bounds>>

-----------------------------------------------------------------------------
(* Finalizing the closed loops, one after the other *)

\* What a fault of the provider can hide: the logs of one transaction of the evidence.
Losses(c) ==
  {{}} \cup (IF faults = MaxFaults THEN {}
             ELSE LET logs == {f.transfer : f \in c.fundings} \cup c.settlements
                              \cup (IF c.kind = "reciprocal" THEN {}
                                    ELSE UNION {Entries(p.hops) : p \in c.returns})
                  IN {{j \in Keys : SameTx(i, j)} : i \in logs})
Fault(lost) == faults' = faults + IF lost = {} THEN 0 ELSE 1

Finalized(c, saved) == pending' = pending \ {c} /\ final' = final \cup {saved}

\* Mutant of ClaimResumes: a checkpoint of another policy is taken too.
ClaimResumesAnyPolicy(c, s) == s \in Saved(claimFiles, c) /\ s.result # Torn

\* A checkpoint of this draft claim under this policy is resumed without its balances.
ClaimResumes(c, s) == s \in Saved(claimFiles, c) /\ s.result # Torn /\ s.policy = policy

ResumeClaim(c) ==
  /\ \E s \in claimFiles : ClaimResumes(c, s) /\ Finalized(c, s.result)
  /\ UNCHANGED <<history, policy, files, stage, audited, plans, crew, orphans, bounds>>

\* The claim is looked up, planned within its ledgers and saved.
FinalizeClaim(c) ==
  /\ ~IsTorn(claimFiles, c) /\ ~\E s \in claimFiles : ClaimResumes(c, s)
  /\ \E lost \in Losses(c) :
       /\ Fault(lost)
       /\ \/ \E saved \in FinalClaim(c, lost, policy) :
               /\ Finalized(c, saved) /\ audited' = audited \cup {saved}
               /\ claimFiles' = Save(claimFiles, [source |-> c, policy |-> policy, result |-> saved])
               /\ UNCHANGED <<stage, plans, crew>>
          \/ FinalClaim(c, lost, policy) = {} /\ Exit /\ UNCHANGED claimFiles
  /\ UNCHANGED <<history, policy, bundleFile, planFile, lockFile, planFiles, orphans, kills, changes>>

\* The checkpoint is torn, or the provider fails for good: the run ends.
FinalizeFails(c) ==
  /\ \/ IsTorn(claimFiles, c) /\ UNCHANGED faults
     \/ /\ ~\E s \in claimFiles : ClaimResumes(c, s)
        /\ faults < MaxFaults /\ faults' = faults + 1
  /\ Exit
  /\ UNCHANGED <<history, policy, files, orphans, kills, changes>>

FinalizeNext ==
  /\ stage = "finalize"
  /\ \E c \in pending : ResumeClaim(c) \/ FinalizeClaim(c) \/ FinalizeFails(c)

FinalizeEnds ==
  /\ stage = "finalize" /\ pending = {} /\ stage' = "bundle"
  /\ UNCHANGED <<history, policy, files, memory, orphans, bounds>>

\* The final bundle replaces the draft, and its claims are planned.
WriteBundle ==
  /\ stage = "bundle"
  /\ bundleFile' = final /\ pending' = final
  /\ crew' = Min({ClaimWorkers, Cardinality(final)}) /\ stage' = "plan"
  /\ UNCHANGED <<history, policy, planFile, lockFile, claimFiles, planFiles, final, audited, plans,
                 orphans, bounds>>

-----------------------------------------------------------------------------
(* Planning the claims of the bundle, whose root is final *)

\* Mutant of PlanResumes: the policy of the checkpoint is not compared.
PlanResumesAnyPolicy(c, s) ==
  s \in Saved(planFiles, c) /\ s.result # Torn /\ s.result.root = final

\* A checkpoint of this claim in this bundle under this policy is resumed.
PlanResumes(c, s) ==
  s \in Saved(planFiles, c) /\ s.result # Torn /\ s.policy = policy /\ s.result.root = final

Planned(c, plan) == pending' = pending \ {c} /\ plans' = plans \cup {plan}

\* Mutant of PlansOf: balances are loaded again for a resumed claim.
PlansOfAudited(c, lost) ==
  LET made == IF c.kind = "reciprocal" THEN PlanPair(c, Resolved(c, lost))
              ELSE PlanLoop(c, c, TRUE, FALSE, policy)
  IN {[claim |-> p.claim, fundings |-> p.fundings, settlements |-> p.settlements,
       returns |-> p.returns, root |-> final, policy |-> policy, ledger |-> TRUE] : p \in made}

\* A closed loop is planned from its own evidence, with the balances only if this run
\* loaded them; a pair is looked up now.  ledger notes which it was.
PlansOf(c, lost) ==
  LET made == IF c.kind = "reciprocal" THEN PlanPair(c, Resolved(c, lost))
              ELSE PlanLoop(c, c, c \in audited, FALSE, policy)
  IN {[claim |-> p.claim, fundings |-> p.fundings, settlements |-> p.settlements,
       returns |-> p.returns, root |-> final, policy |-> policy, ledger |-> c \in audited] :
        p \in made}

ResumePlan(c) ==
  /\ \E s \in planFiles : PlanResumes(c, s) /\ Planned(c, s.result)
  /\ UNCHANGED <<history, policy, files, stage, final, audited, crew, orphans, bounds>>

MakePlan(c) ==
  /\ ~IsTorn(planFiles, c) /\ ~\E s \in planFiles : PlanResumes(c, s)
  /\ \E lost \in IF c.kind = "reciprocal" THEN Losses(c) ELSE {{}} :
       /\ Fault(lost)
       /\ \/ \E plan \in PlansOf(c, lost) :
               /\ Planned(c, plan)
               /\ planFiles' = Save(planFiles, [source |-> c, policy |-> policy, result |-> plan])
               /\ UNCHANGED crew
          \/ /\ PlansOf(c, lost) = {} /\ pending' = pending \ {c} /\ crew' = crew - 1
             /\ UNCHANGED <<planFiles, plans>>
  /\ UNCHANGED <<history, policy, bundleFile, planFile, lockFile, claimFiles, stage, final, audited,
                 orphans, kills, changes>>

\* A worker that throws rejects the run; the others go on to the end.
WorkerThrows(c) ==
  /\ \/ IsTorn(planFiles, c) /\ UNCHANGED faults
     \/ /\ c.kind = "reciprocal" /\ ~\E s \in planFiles : PlanResumes(c, s)
        /\ faults < MaxFaults /\ faults' = faults + 1
  /\ pending' = pending \ {c} /\ crew' = crew - 1
  /\ UNCHANGED <<history, policy, files, stage, final, audited, plans, orphans, kills, changes>>

PlanNext ==
  /\ stage = "plan" /\ crew > 0
  /\ \E c \in pending : ResumePlan(c) \/ MakePlan(c) \/ WorkerThrows(c)

\* All claims are planned and the plan is written, or the run was rejected.
PlanEnds ==
  /\ stage = "plan" /\ (pending = {} \/ crew = 0)
  /\ \/ /\ Cardinality(plans) = Cardinality(final)
        /\ planFile' = [policy |-> policy, root |-> final, plans |-> plans]
        /\ stage' = "validate" /\ UNCHANGED memory
     \/ Cardinality(plans) # Cardinality(final) /\ Exit /\ UNCHANGED planFile
  /\ UNCHANGED <<history, policy, bundleFile, lockFile, claimFiles, planFiles, orphans, bounds>>

-----------------------------------------------------------------------------
(* The lock *)

\* The bundle on disk has every approved case, and the plan has the bundle's root and
\* exactly its claims.
InputsAgree ==
  /\ Cardinality(bundleFile) = Cardinality(history.cases)
  /\ final = bundleFile /\ {p.claim : p \in plans} = bundleFile

Validate ==
  /\ stage = "validate"
  /\ IF InputsAgree THEN stage' = "lock" /\ UNCHANGED memory ELSE Exit
  /\ UNCHANGED <<history, policy, files, orphans, bounds>>

\* The digests are those of the files as they are now.
WriteLock ==
  /\ stage = "lock"
  /\ lockFile' = [root |-> final, bundle |-> bundleFile, plan |-> planFile]
  /\ Exit
  /\ UNCHANGED <<history, policy, bundleFile, planFile, claimFiles, planFiles, orphans, bounds>>

-----------------------------------------------------------------------------
(* Kills, and what happens between runs *)

TearClaim(c) == claimFiles' = Save(claimFiles, [source |-> c, policy |-> policy, result |-> Torn])
TearPlans(S) ==
  planFiles' = {s \in planFiles : s.source \notin S}
               \cup {[source |-> c, policy |-> policy, result |-> Torn] : c \in S}

\* The file a killed process was writing is torn; its child builds on.
KilledWriting ==
  \/ /\ stage = "draft" /\ ~DraftFails(policy) /\ orphans' = orphans \cup {Drafts(policy)}
     /\ UNCHANGED files
  \/ /\ stage \in {"draft", "bundle"} /\ bundleFile' = Torn
     /\ UNCHANGED <<planFile, lockFile, claimFiles, planFiles, orphans>>
  \/ /\ stage = "finalize"
     /\ \E c \in pending : /\ ~\E s \in claimFiles : ClaimResumes(c, s)
                           /\ FinalClaim(c, {}, policy) # {} /\ TearClaim(c)
     /\ UNCHANGED <<bundleFile, planFile, lockFile, planFiles, orphans>>
  \/ /\ stage = "plan"
     /\ \E S \in SUBSET {c \in pending : /\ ~\E s \in planFiles : PlanResumes(c, s)
                                       /\ PlansOf(c, {}) # {}} :
          S # {} /\ Cardinality(S) <= crew /\ TearPlans(S)
     /\ UNCHANGED <<bundleFile, planFile, lockFile, claimFiles, orphans>>
  \/ /\ stage = "plan" /\ Cardinality(plans) = Cardinality(final) /\ planFile' = Torn
     /\ UNCHANGED <<bundleFile, lockFile, claimFiles, planFiles, orphans>>
  \/ /\ stage = "lock" /\ lockFile' = Torn
     /\ UNCHANGED <<bundleFile, planFile, claimFiles, planFiles, orphans>>
  \/ UNCHANGED <<files, orphans>>

Kill ==
  /\ stage # "idle" /\ kills < MaxKills /\ kills' = kills + 1
  /\ KilledWriting /\ Exit
  /\ UNCHANGED <<history, policy, faults, changes>>

\* The child of a killed run writes its draft, whatever is in the file by now.
OrphanWrites ==
  /\ \E draft \in orphans : bundleFile' = draft /\ orphans' = orphans \ {draft}
  /\ UNCHANGED <<history, policy, planFile, lockFile, claimFiles, planFiles, stage, memory, bounds>>

\* No child of an earlier run is left when the predicate is changed.
ChangePolicy ==
  /\ stage = "idle" /\ orphans = {}
  /\ changes < MaxChanges /\ changes' = changes + 1
  /\ policy' \in Policies \ {policy}
  /\ UNCHANGED <<history, files, stage, memory, orphans, kills, faults>>

\* The operator deletes a checkpoint that is not JSON.
DeleteTorn ==
  /\ stage = "idle"
  /\ \/ /\ \E s \in claimFiles : s.result = Torn /\ claimFiles' = claimFiles \ {s}
        /\ UNCHANGED planFiles
     \/ /\ \E s \in planFiles : s.result = Torn /\ planFiles' = planFiles \ {s}
        /\ UNCHANGED claimFiles
  /\ UNCHANGED <<history, policy, bundleFile, planFile, lockFile, stage, memory, orphans, bounds>>

-----------------------------------------------------------------------------
Run ==
  \/ BuildBundle \/ ReadBundle \/ FinalizeNext \/ FinalizeEnds \/ WriteBundle
  \/ PlanNext \/ PlanEnds \/ Validate \/ WriteLock

Next == Start \/ Run \/ Kill \/ OrphanWrites \/ ChangePolicy \/ DeleteTorn

Spec == Init /\ [][Next]_vars

\* A step of a run: kills and orphans are not its own.
Proceeds == stage # "idle" /\ UNCHANGED <<orphans, kills>>

\* WF_vars(Run), which is enabled in every stage of a run and nowhere else.
RunGoesOn == []<>(stage = "idle") \/ []<><<Proceeds>>_vars

\* The process and its children run on; the operator deletes what is torn and starts the
\* script again.
FairSpec ==
  /\ Spec /\ RunGoesOn /\ WF_vars(OrphanWrites)
  /\ WF_vars(Start) /\ SF_vars(DeleteTorn)

=============================================================================
