------------------------------ MODULE ApprovedBatch ------------------------------
(***************************************************************************)
(* scripts/prove-approved-batch.mjs: the older way to pay for production   *)
(* proofs, started by scripts/run-production-proofs-safe.sh.  A run first  *)
(* verifies every seller of its scope natively, and only if all pass has   *)
(* a pool of concurrent workers (mapWithConcurrency) obtain one paid proof *)
(* for each seller from the prover child (SellerProver).                   *)
(*                                                                         *)
(* One run is active at a time.  Procs are the slots for the workers of a  *)
(* run; a child that outlives a killed run keeps its slot.  Unlike         *)
(* FrozenBatch there is no lock and no marker of a started submission: a   *)
(* run only has seller.request.json and seller.json to go by.              *)
(*                                                                         *)
(* A plan stands for everything the run configuration pins but the quote   *)
(* digest: bundle, proof plan, guest and network limits.  The public       *)
(* values a seller's proof must have depend on it.                         *)
(***************************************************************************)
EXTENDS SellerProver, FiniteSets, Sequences

CONSTANTS
  Plans,       \* plans the operator may run
  NoPlan,      \* no plan
  Canaries,    \* sellers the operator may run alone (--seller)
  MaxCrashes,  \* bound: kills of a run
  MaxFaults    \* bound: failures of a child, of the network or of a read

ASSUME ApprovedAssumption ==
  /\ IsFiniteSet(Procs)
  /\ NoPlan \notin Plans
  /\ Canaries \subseteq Sellers
  /\ MaxCrashes \in Nat
  /\ MaxFaults \in Nat

Scopes == {Sellers} \cup {{c} : c \in Canaries}

VARIABLES
  unfit,      \* [Plans -> SUBSET Sellers]: sellers whose input fails verification
  config,     \* [Scopes -> Plans \cup {NoPlan}]: runs/<scope>.json, NoPlan = no file
  status,     \* of the run
  plan, scope, confirmed,  \* what the run was given
  queue,      \* sellers of the current mapWithConcurrency not yet taken
  failures,   \* sellers that failed the native preflight
  results,    \* [Sellers -> Plans \cup {NoPlan}]: the plan of the paid proof the run holds
  crew,       \* the slots of the run's workers
  pc,         \* [Procs -> ...]: where a worker is
  item,       \* [Procs -> Sellers]: the seller it took
  asking,     \* [Procs -> Plans \cup {NoPlan}]: the plan a child works for
  asked,      \* [Sellers -> Seq(Plans)]: the plan each paid request was made for
  crashes, faults

runVars == <<status, plan, scope, confirmed, queue, failures, results, crew, pc, item>>
batchVars == <<unfit, config, runVars, asking, asked, crashes, faults>>
vars == <<proverVars, unfit, config, runVars, asking, asked, crashes, faults>>

Active == {"preflight", "proving", "rejected"}
Ended == {"none", "checked", "refused", "failed", "killed", "done"}

TypeOK ==
  /\ ProverTypeOK
  /\ unfit \in [Plans -> SUBSET Sellers]
  /\ config \in [Scopes -> Plans \cup {NoPlan}]
  /\ status \in Active \cup Ended
  /\ plan \in Plans \cup {NoPlan} /\ scope \subseteq Sellers /\ confirmed \in BOOLEAN
  /\ queue \subseteq scope /\ failures \subseteq scope
  /\ results \in [Sellers -> Plans \cup {NoPlan}]
  /\ crew \subseteq Procs
  /\ pc \in [Procs -> {"off", "next", "verify", "check", "prove"}]
  /\ item \in [Procs -> Sellers]
  /\ \A p \in crew : pc[p] \notin {"off", "next"} => item[p] \in scope \ queue
  /\ asking \in [Procs -> Plans \cup {NoPlan}]
  /\ \A s \in Sellers : asked[s] \in Seq(Plans) /\ Len(asked[s]) = paid[s]
  /\ crashes \in 0 .. MaxCrashes /\ faults \in 0 .. MaxFaults

Init ==
  /\ ProverInit
  /\ balance = 1
  /\ unfit \in [Plans -> SUBSET Sellers]
  /\ config = [sc \in Scopes |-> NoPlan]
  /\ status = "none" /\ plan = NoPlan /\ scope = {} /\ confirmed = FALSE
  /\ queue = {} /\ failures = {} /\ crew = {}
  /\ results = [s \in Sellers |-> NoPlan]
  /\ pc = [p \in Procs |-> "off"]
  /\ item = [p \in Procs |-> 1]
  /\ asking = [p \in Procs |-> NoPlan]
  /\ asked = [s \in Sellers |-> <<>>]
  /\ crashes = 0 /\ faults = 0

-----------------------------------------------------------------------------
(* The run.                                                                *)

\* writeStableRunConfig: a preflight-only run may replace the configuration, a paid
\* run must find its own plan or none.
WriteStableRunConfig(sc, pl, paidRun) ==
  /\ paidRun => config[sc] \in {NoPlan, pl}
  /\ config' = [config EXCEPT ![sc] = pl]

\* main, up to the preflight, with --preflight-only or --confirm-production-proving.
Launch(pl, sc, confirm) ==
  /\ status \in Ended
  /\ WriteStableRunConfig(sc, pl, confirm)
  /\ status' = "preflight" /\ plan' = pl /\ scope' = sc /\ confirmed' = confirm
  /\ queue' = sc /\ failures' = {}
  /\ results' = [s \in Sellers |-> NoPlan]
  /\ \E workers \in SUBSET {p \in Procs : prover[p] = "none"} :
       /\ workers # {} /\ Cardinality(workers) <= Cardinality(sc)
       /\ crew' = workers
       /\ pc' = [p \in Procs |-> IF p \in workers THEN "next" ELSE "off"]
  /\ UNCHANGED <<proverVars, unfit, item, asking, asked, crashes, faults>>

\* Mutant of TakeItem: nextIndex is advanced only after the item's work.
TakeItemTwice(p) ==
  /\ queue # {}
  /\ \E s \in queue :
       /\ \A t \in queue : s <= t
       /\ item' = [item EXCEPT ![p] = s]
       /\ queue' = IF \E q \in crew : pc[q] # "next" /\ item[q] = s
                   THEN queue \ {s} ELSE queue

\* const index = nextIndex; nextIndex += 1
TakeItem(p) ==
  \E s \in queue :
    /\ \A t \in queue : s <= t
    /\ item' = [item EXCEPT ![p] = s]
    /\ queue' = queue \ {s}

VerifyNext(p) ==
  /\ status = "preflight" /\ pc[p] = "next"
  /\ TakeItem(p)
  /\ pc' = [pc EXCEPT ![p] = "verify"]
  /\ UNCHANGED <<proverVars, unfit, config, status, plan, scope, confirmed,
                 failures, results, crew, asking, asked, crashes, faults>>

\* Mutant of VerifyReturns: the verdict on a seller whose turn comes late is lost.
VerifyReturnsLast(p) ==
  /\ pc[p] = "verify"
  /\ pc' = [pc EXCEPT ![p] = "next"]
  /\ failures' = {item[p]} \cap unfit[plan]
  /\ UNCHANGED <<proverVars, unfit, config, status, plan, scope, confirmed,
                 queue, results, crew, item, asking, asked, crashes, faults>>

\* The --witness-only child exits: a failure is caught and collected.
VerifyReturns(p) ==
  /\ pc[p] = "verify"
  /\ pc' = [pc EXCEPT ![p] = "next"]
  /\ failures' = failures \cup ({item[p]} \cap unfit[plan])
  /\ UNCHANGED <<proverVars, unfit, config, status, plan, scope, confirmed,
                 queue, results, crew, item, asking, asked, crashes, faults>>

AllAt(step) == \A p \in crew : pc[p] = step

\* The run is over: its workers and their queue are gone.
Forget(how) ==
  /\ status' = how
  /\ queue' = {} /\ crew' = {}
  /\ pc' = [p \in Procs |-> "off"]
  /\ item' = [p \in Procs |-> 1]

\* Mutant of PreflightEnds: the first idle worker passes the barrier.
PreflightEndsEarly ==
  /\ status = "preflight" /\ queue = {}
  /\ \E p \in crew : pc[p] = "next"
  /\ IF failures = {} /\ confirmed
     THEN /\ status' = "proving" /\ queue' = scope
          /\ pc' = [p \in Procs |-> IF p \in crew THEN "next" ELSE "off"]
          /\ UNCHANGED <<crew, item>>
     ELSE Forget(IF failures = {} THEN "checked" ELSE "refused")
  /\ UNCHANGED <<proverVars, unfit, config, plan, scope, confirmed,
                 failures, results, asking, asked, crashes, faults>>

\* The preflight's Promise.all resolves: refuse, stop here, or start proving.
PreflightEnds ==
  /\ status = "preflight" /\ queue = {} /\ AllAt("next")
  /\ IF failures = {} /\ confirmed
     THEN status' = "proving" /\ queue' = scope /\ UNCHANGED <<crew, pc, item>>
     ELSE Forget(IF failures = {} THEN "checked" ELSE "refused")
  /\ UNCHANGED <<proverVars, unfit, config, plan, scope, confirmed,
                 failures, results, asking, asked, crashes, faults>>

\* A worker takes a seller, also after another worker's error has rejected the run.
ProveNext(p) ==
  /\ status \in {"proving", "rejected"} /\ pc[p] = "next"
  /\ TakeItem(p)
  /\ pc' = [pc EXCEPT ![p] = "check"]
  /\ UNCHANGED <<proverVars, unfit, config, status, plan, scope, confirmed,
                 failures, results, crew, asking, asked, crashes, faults>>

\* The plan that the artifact of seller s was proved for.
ArtifactPlan(s) == IF artifact[s].request = 0 THEN NoPlan ELSE asked[s][artifact[s].request]

\* loadCurrentSellerProof finds a paid artifact.  It compares the seller, the period
\* and the guest, not the plan.
ReuseProof(p) ==
  /\ pc[p] = "check" /\ artifact[item[p]].request # 0
  /\ pc' = [pc EXCEPT ![p] = "next"]
  /\ results' = [results EXCEPT ![item[p]] = ArtifactPlan(item[p])]
  /\ UNCHANGED <<proverVars, unfit, config, status, plan, scope, confirmed,
                 queue, failures, crew, item, asking, asked, crashes, faults>>

StartProver(p) ==
  /\ pc[p] = "check" /\ artifact[item[p]].request = 0
  /\ Spawn(p, item[p])
  /\ pc' = [pc EXCEPT ![p] = "prove"]
  /\ asking' = [asking EXCEPT ![p] = plan]
  /\ UNCHANGED <<checkpoint, artifact, paid, fulfilled, expired, balance, unfit, config,
                 status, plan, scope, confirmed, queue, failures, results, crew, item,
                 asked, crashes, faults>>

\* The worker throws: the run is rejected, the other workers go on.
WorkerThrows(p) ==
  /\ pc' = [pc EXCEPT ![p] = "off"]
  /\ status' = "rejected"

\* Mutant of ProverReturns: the child's exit status is not looked at.
ProverReturnsAnyExit(p) ==
  /\ pc[p] = "prove" /\ prover[p] \in {"ok", "failed"}
  /\ pc' = [pc EXCEPT ![p] = "next"]
  /\ results' = [results EXCEPT ![item[p]] = ArtifactPlan(item[p])]
  /\ UNCHANGED status
  /\ Reap(p)
  /\ asking' = [asking EXCEPT ![p] = NoPlan]
  /\ UNCHANGED <<checkpoint, artifact, paid, fulfilled, expired, balance, unfit, config,
                 plan, scope, confirmed, queue, failures, crew, item, asked, crashes, faults>>

\* The child exits: its artifact is loaded, or its error is thrown.
ProverReturns(p) ==
  /\ pc[p] = "prove"
  /\ \/ /\ prover[p] = "ok"
        /\ pc' = [pc EXCEPT ![p] = "next"]
        /\ results' = [results EXCEPT ![item[p]] = ArtifactPlan(item[p])]
        /\ UNCHANGED status
     \/ /\ prover[p] = "failed"
        /\ WorkerThrows(p)
        /\ UNCHANGED results
  /\ Reap(p)
  /\ asking' = [asking EXCEPT ![p] = NoPlan]
  /\ UNCHANGED <<checkpoint, artifact, paid, fulfilled, expired, balance, unfit, config,
                 plan, scope, confirmed, queue, failures, crew, item, asked, crashes, faults>>

\* loadCurrentSellerProof throws: the artifact cannot be read or parsed.
CheckThrows(p) ==
  /\ faults < MaxFaults /\ faults' = faults + 1
  /\ pc[p] = "check" /\ artifact[item[p]].request # 0
  /\ WorkerThrows(p)
  /\ UNCHANGED <<proverVars, unfit, config, plan, scope, confirmed,
                 queue, failures, results, crew, item, asking, asked, crashes>>

WorkerEnds(p) ==
  /\ status \in {"proving", "rejected"} /\ pc[p] = "next" /\ queue = {}
  /\ pc' = [pc EXCEPT ![p] = "off"]
  /\ UNCHANGED <<proverVars, unfit, config, status, plan, scope, confirmed,
                 queue, failures, results, crew, item, asking, asked, crashes, faults>>

\* A full run compares the proven total with the plan's.  Proofs made for another
\* plan may or may not add up to the same.
TotalsMayDiffer == scope = Sellers /\ \E s \in scope : results[s] # plan

\* Every worker is done: write the summary, or exit with the first error.
RunEnds ==
  /\ status \in {"proving", "rejected"} /\ AllAt("off")
  /\ \/ status = "proving" /\ Forget("done")
     \/ status = "rejected" /\ Forget("failed")
     \/ status = "proving" /\ TotalsMayDiffer /\ Forget("failed")
  /\ UNCHANGED <<proverVars, unfit, config, plan, scope, confirmed,
                 failures, results, asking, asked, crashes, faults>>

-----------------------------------------------------------------------------
(* The children, and what goes wrong.                                      *)

\* Mutant of RejectsCheckpoint: the comparison never succeeds.
RejectsAnyCheckpoint(p) ==
  /\ prover[p] = "load" /\ checkpoint[job[p]] # 0
  /\ prover' = [prover EXCEPT ![p] = "failed"]
  /\ UNCHANGED <<checkpoint, artifact, paid, fulfilled, expired, balance, job, request, asked>>

\* load_request_checkpoint: the saved request expects other public values.
RejectsCheckpoint(p) ==
  LET saved == checkpoint[job[p]] IN
  /\ prover[p] = "load" /\ saved # 0 /\ asked[job[p]][saved] # asking[p]
  /\ prover' = [prover EXCEPT ![p] = "failed"]
  /\ UNCHANGED <<checkpoint, artifact, paid, fulfilled, expired, balance, job, request, asked>>

\* verify_seller comes first in the child too: it never requests for an unfit input.
RejectsInput(p) ==
  /\ prover[p] = "load" /\ job[p] \in unfit[asking[p]]
  /\ prover' = [prover EXCEPT ![p] = "failed"]
  /\ UNCHANGED <<checkpoint, artifact, paid, fulfilled, expired, balance, job, request, asked>>

\* Mutant of LoadsOwn: the checkpoint's public values are not compared.
LoadsOwnOrOther(p) == prover[p] = "load" => job[p] \notin unfit[asking[p]]

LoadsOwn(p) ==
  prover[p] = "load" =>
    /\ job[p] \notin unfit[asking[p]]
    /\ checkpoint[job[p]] # 0 => asked[job[p]][checkpoint[job[p]]] = asking[p]

ChildStep(p) ==
  /\ \/ RejectsCheckpoint(p)
     \/ RejectsInput(p)
     \/ /\ LoadsOwn(p) /\ ProverStep(p)
        /\ asked' = [s \in Sellers |-> IF paid'[s] = paid[s] THEN asked[s]
                                       ELSE Append(asked[s], asking[p])]
  /\ UNCHANGED <<unfit, config, runVars, asking, crashes, faults>>

ChildFault(p) ==
  /\ faults < MaxFaults /\ faults' = faults + 1
  /\ ProverFault(p)
  /\ asked' = [s \in Sellers |-> IF paid'[s] = paid[s] THEN asked[s]
                                 ELSE Append(asked[s], asking[p])]
  /\ UNCHANGED <<unfit, config, runVars, asking, crashes>>

RequestFulfilled(s) == Fulfil(s) /\ UNCHANGED batchVars

\* The network does not prove a request of seller s in time.
RequestExpires(s) ==
  /\ faults < MaxFaults /\ faults' = faults + 1
  /\ Expire(s)
  /\ UNCHANGED <<unfit, config, runVars, asking, asked, crashes>>

\* The run is killed; its children die with it, or all go on alone.
Crash(childrenDie) ==
  /\ crashes < MaxCrashes /\ crashes' = crashes + 1
  /\ status \in Active
  /\ Forget("killed")
  /\ plan' = NoPlan /\ scope' = {} /\ confirmed' = FALSE
  /\ failures' = {} /\ results' = [s \in Sellers |-> NoPlan]
  /\ IF childrenDie
     THEN /\ prover' = [p \in Procs |-> IF p \in crew THEN "none" ELSE prover[p]]
          /\ job' = [p \in Procs |-> IF p \in crew THEN 1 ELSE job[p]]
          /\ request' = [p \in Procs |-> IF p \in crew THEN 0 ELSE request[p]]
          /\ asking' = [p \in Procs |-> IF p \in crew THEN NoPlan ELSE asking[p]]
     ELSE UNCHANGED <<prover, job, request, asking>>
  /\ UNCHANGED <<checkpoint, artifact, paid, fulfilled, expired, balance, unfit, config,
                 asked, faults>>

KilledWithChildren == Crash(TRUE)
KilledAlone == (\E p \in crew : Running(p)) /\ Crash(FALSE)

OrphanExits(p) ==
  /\ pc[p] = "off" /\ prover[p] \in {"ok", "failed"}
  /\ Reap(p)
  /\ asking' = [asking EXCEPT ![p] = NoPlan]
  /\ UNCHANGED <<checkpoint, artifact, paid, fulfilled, expired, balance,
                 unfit, config, runVars, asked, crashes, faults>>

-----------------------------------------------------------------------------

WorkerStep(p) ==
  \/ VerifyNext(p) \/ VerifyReturns(p) \/ ProveNext(p) \/ ReuseProof(p)
  \/ StartProver(p) \/ ProverReturns(p) \/ WorkerEnds(p)

Operator ==
  \/ \E pl \in Plans, sc \in Scopes, confirm \in BOOLEAN : Launch(pl, sc, confirm)
  \/ TopUp /\ UNCHANGED batchVars

Next ==
  \/ \E p \in Procs : WorkerStep(p) \/ ChildStep(p)
  \/ PreflightEnds \/ RunEnds
  \/ Operator
  \/ \E s \in Sellers : RequestFulfilled(s) \/ RequestExpires(s)
  \/ \E p \in Procs : CheckThrows(p) \/ ChildFault(p) \/ OrphanExits(p)
  \/ KilledWithChildren \/ KilledAlone

Spec == Init /\ [][Next]_vars

-----------------------------------------------------------------------------
(* Safety.                                                                 *)

\* No request is paid for a plan unless some scope of it passed the native preflight
\* entirely: one unfit seller keeps every worker of the run from paying for anyone.
PreflightGuardsPayments ==
  \A s \in Sellers : \A r \in 1 .. paid[s] :
    \E sc \in Scopes : s \in sc /\ sc \cap unfit[asked[s][r]] = {}

\* A refused run names every unfit seller of its scope, whatever the order in which
\* the concurrent verifiers returned.
PreflightReportsAll == status = "refused" => failures = scope \cap unfit[plan]

\* A seller is paid for again only after a kill or a lost request: concurrent workers
\* and repeated runs alone never pay twice.
PaymentsAreExplained == \A s \in Sellers : paid[s] <= 1 + crashes + faults

\* A child never waits for, or turns into an artifact, a request made for another plan.
ResumesOwnPlan ==
  \A p \in Procs : prover[p] \in {"wait", "write"} => asked[job[p]][request[p]] = asking[p]

\* A run that wrote its summary has a fulfilled paid proof of every seller of its scope.
DoneIsProved ==
  status = "done" => \A s \in scope : artifact[s].request \in fulfilled[s]

\* What README.md claims: interrupted runs resume each seller from its checkpoint, so
\* rerunning them pays nobody twice.
ResumesAfterInterruption == \A s \in Sellers : paid[s] <= 1

\* What README.md claims: the no-spend pass validates the stable run configuration, so
\* the summary of a run holds proofs made for the plan it ran.
SummaryIsForItsPlan == status = "done" => \A s \in scope : results[s] = plan

(* Liveness.                                                               *)

\* Workers and children make progress, and no request stays open beyond its deadline;
\* nothing is assumed of the operator.
FairSpec ==
  /\ Spec
  /\ \A p \in Procs : /\ WF_vars(WorkerStep(p))
                        /\ WF_vars(ChildStep(p)) /\ WF_vars(OrphanExits(p))
  /\ WF_vars(PreflightEnds) /\ WF_vars(RunEnds)
  /\ \A s \in Sellers : WF_vars(RequestFulfilled(s) \/ RequestExpires(s))

\* A run always ends, also when a worker's error has rejected it and others go on.
RunsEnd == status \in Active ~> status \in Ended

\* What the operator does to get plan pl proved: in the end only start the launcher for
\* it, which makes a preflight-only pass and then the paid run, and top up.
OperatorServes(pl) ==
  /\ <>[][status' = "preflight" /\ status # "preflight" => plan' = pl /\ scope' = Sellers]_vars
  /\ unfit[pl] = {}
  /\ SF_vars(Launch(pl, Sellers, FALSE)) /\ SF_vars(Launch(pl, Sellers, TRUE))
  /\ WF_vars(TopUp /\ UNCHANGED batchVars)

\* What no rerun of plan pl gets past: a paid artifact of another plan, which is taken
\* for its own (219) until the totals differ (181); a saved request of another plan, which
\* every child refuses; and one of its own that has expired, which every child waits for
\* again, since the checkpoint stays (prove-seller 270-276).
Blocks(s, pl) ==
  IF artifact[s].request # 0 THEN ArtifactPlan(s) # pl
  ELSE LET saved == checkpoint[s] IN
       saved # 0 /\ (asked[s][saved] # pl \/ saved \in expired[s])

\* Unless such a seller blocks it, rerunning a plan finishes it, again and again: as long
\* as no run is killed, lost answers, failing children and reads, timeouts, runs of other
\* plans before it and an empty balance only delay it.
BatchCompletes ==
  \A pl \in Plans : OperatorServes(pl) =>
    \/ []<>(status = "done" /\ plan = pl /\ scope = Sellers)
    \/ []<>(\E s \in Sellers : Blocks(s, pl))

=============================================================================
