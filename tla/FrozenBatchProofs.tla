---------------------------- MODULE FrozenBatchProofs ----------------------------
(***************************************************************************)
(* Proofs about FrozenBatch for every number of sellers, processes,        *)
(* crashes, faults and refreshes: first who pays, then what the queue      *)
(* records of it.                                                          *)
(***************************************************************************)
EXTENDS FrozenBatch, SellerProverProofs

LEMMA Constants ==
  /\ FirstQuote \in Quotes
  /\ NoSummary \in Summaries
  /\ NoArtifact \in [request : Nat, digest : Digests \cup {0}]
  /\ 1 \in Sellers /\ 1 \in 1 .. N + 1
BY ProverAssumption
   DEF FirstQuote, Quotes, NoSummary, Summaries, Statuses, NoArtifact, Sellers

LEMMA Entries ==
  /\ Sellers \subseteq 1 .. N + 1
  /\ \A i \in Sellers : i + 1 \in 1 .. N + 1
  /\ \A i \in 1 .. N + 1 : i <= N => i \in Sellers
BY ProverAssumption DEF Sellers

LEMMA TypeInit == Init => TypeOK
BY Constants, BatchAssumption
   DEF Init, ProverInit, TypeOK, ProverTypeOK, FilesTypeOK, ScriptsTypeOK, AtAnEntry,
       ProverStates, Steps, SubmitSteps, Kinds

LEMMA EndTypes ==
  ASSUME ScriptsTypeOK, AtAnEntry, NEW p \in Procs, End(p)
  PROVE  ScriptsTypeOK' /\ AtAnEntry'
BY Constants DEF ScriptsTypeOK, AtAnEntry, End, Steps, SubmitSteps, Kinds

LEMMA SubmitReturnsTypes ==
  ASSUME ScriptsTypeOK, AtAnEntry, NEW p \in Procs, pc[p] \in SubmitSteps,
         NEW how \in {"none", "ok", "funds", "error"}, SubmitReturns(p, how)
  PROVE  ScriptsTypeOK' /\ AtAnEntry'
<1>1. CASE End(p)
  BY <1>1, EndTypes
<1>2. CASE kind[p] = "run" /\ ~End(p)
  BY <1>2 DEF SubmitReturns, ScriptsTypeOK, AtAnEntry, Steps, SubmitSteps
<1> QED
  BY <1>1, <1>2 DEF SubmitReturns

LEMMA RunTypes ==
  ASSUME TypeOK, NEW p \in Procs, RunStep(p)
  PROVE  TypeOK'
<1> USE DEF TypeOK, FilesTypeOK, ScriptsTypeOK, AtAnEntry, Goto, Persist, Steps, SubmitSteps,
        ProverTypeOK, proverVars, fileVars, envVars
<1>1. CASE RunLoad(p)
  <2>1. [gen |-> seen[p].gen, status |-> "running", results |-> summary.results] \in Summaries
    BY DEF Quotes, Summaries, Statuses
  <2>2. CASE Accepted(p)
    <3>1. mem' \in [Procs -> Summaries] /\ summary' \in Summaries
      <4>1. PICK m \in Summaries : mem' = [mem EXCEPT ![p] = m] /\ summary' = m
        BY <1>1, <2>1, <2>2 DEF RunLoad
      <4> QED
        BY <4>1
    <3>2. pc' \in [Procs -> Steps] /\ AtAnEntry'
      BY <1>1, <2>2 DEF RunLoad
    <3> QED
      BY <1>1, <3>1, <3>2 DEF RunLoad
  <2>3. CASE ~Accepted(p)
    BY <1>1, <2>3 DEF RunLoad
  <2> QED
    BY <2>2, <2>3
<1>2. CASE RunSkip(p)
  <2>1. pos[p] + 1 \in 1 .. N + 1
    BY <1>2, Entries DEF RunSkip
  <2> QED
    BY <1>2, <2>1 DEF RunSkip
<1>3. CASE RunArtifactChanged(p)
  BY <1>3 DEF RunArtifactChanged
<1>4. CASE RunSelect(p)
  <2>1. pos[p] \in Sellers
    BY <1>4, Entries DEF RunSelect
  <2> QED
    BY <1>4, <2>1 DEF RunSelect
<1>5. CASE RunRecord(p)
  <2>1. pos[p] \in Sellers
    BY <1>5 DEF RunRecord
  <2>2. [mem[p] EXCEPT !.results[pos[p]] = digest[p]] \in Summaries
    BY <2>1 DEF Summaries
  <2>3. pos[p] + 1 \in 1 .. N + 1
    BY <2>1, Entries
  <2> QED
    BY <1>5, <2>2, <2>3 DEF RunRecord
<1>6. CASE RunPause(p)
  <2>1. \A status \in Statuses : [mem[p] EXCEPT !.status = status] \in Summaries
    BY DEF Summaries
  <2>2. "paused-insufficient-funds" \in Statuses /\ "needs-attention" \in Statuses
    BY DEF Statuses
  <2> QED
    BY <1>6, <2>1, <2>2 DEF RunPause
<1>7. CASE RunFinish(p)
  <2>1. [mem[p] EXCEPT !.status = "complete"] \in Summaries
    BY DEF Summaries, Statuses
  <2> QED
    BY <1>7, <2>1 DEF RunFinish
<1> QED
  BY <1>1, <1>2, <1>3, <1>4, <1>5, <1>6, <1>7 DEF RunStep

LEMMA SubmitTypes ==
  ASSUME TypeOK, NEW p \in Procs, SubmitStep(p)
  PROVE  TypeOK'
<1> USE DEF TypeOK, FilesTypeOK, proverVars, fileVars, envVars
<1>1. CASE SubmitCheck(p)
  BY <1>1 DEF SubmitCheck, Goto, ScriptsTypeOK, AtAnEntry, Steps, SubmitSteps, ProverTypeOK
<1>2. CASE SubmitAfford(p)
  <2>1. ScriptsTypeOK' /\ AtAnEntry'
    <3>1. CASE SubmitReturns(p, "error") \/ SubmitReturns(p, "funds")
      BY <1>2, <3>1, SubmitReturnsTypes DEF SubmitAfford, SubmitSteps
    <3>2. CASE /\ Goto(p, "afford", "lock")
               /\ UNCHANGED <<kind, pos, seen, mem, resuming, outcome, digest>>
      BY <3>2 DEF Goto, ScriptsTypeOK, AtAnEntry, Steps, SubmitSteps
    <3> QED
      BY <1>2, <3>1, <3>2 DEF SubmitAfford
  <2> QED
    BY <1>2, <2>1 DEF SubmitAfford, ProverTypeOK
<1>3. CASE SubmitLock(p)
  <2>1. ScriptsTypeOK' /\ AtAnEntry'
    <3>1. CASE SubmitReturns(p, "error")
      BY <1>3, <3>1, SubmitReturnsTypes DEF SubmitLock, SubmitSteps
    <3>2. CASE /\ Goto(p, "lock", "mark")
               /\ UNCHANGED <<kind, pos, seen, mem, resuming, outcome, digest>>
      BY <3>2 DEF Goto, ScriptsTypeOK, AtAnEntry, Steps, SubmitSteps
    <3> QED
      BY <1>3, <3>1, <3>2 DEF SubmitLock
  <2> QED
    BY <1>3, <2>1 DEF SubmitLock, ProverTypeOK
<1>4. CASE SubmitAmbiguous(p)
  BY <1>4 DEF SubmitAmbiguous, Goto, ScriptsTypeOK, AtAnEntry, Steps, SubmitSteps, ProverTypeOK
<1>5. CASE SubmitMark(p)
  <2>1. pos[p] \in Sellers
    BY <1>5 DEF SubmitMark, Goto, AtAnEntry, SubmitSteps
  <2>2. ProverTypeOK'
    BY <1>5, <2>1 DEF SubmitMark, Spawn, ProverTypeOK, ProverStates
  <2>3. ScriptsTypeOK' /\ AtAnEntry'
    BY <1>5 DEF SubmitMark, Goto, ScriptsTypeOK, AtAnEntry, Steps, SubmitSteps
  <2> QED
    BY <1>5, <2>2, <2>3 DEF SubmitMark, Resuming
<1>6. CASE SubmitVerify(p)
  <2>1. pos[p] \in Sellers
    BY <1>6 DEF SubmitVerify, Goto, AtAnEntry, SubmitSteps
  <2>2. ProverTypeOK'
    BY <1>6, Constants DEF SubmitVerify, Reap, ProverTypeOK, ProverStates
  <2>3. ScriptsTypeOK' /\ AtAnEntry'
    BY <1>6, <2>1 DEF SubmitVerify, Goto, ProverTypeOK, ScriptsTypeOK, AtAnEntry, Steps, SubmitSteps
  <2> QED
    BY <1>6, <2>2, <2>3 DEF SubmitVerify
<1>7. CASE SubmitRelease(p)
  <2>1. ScriptsTypeOK' /\ AtAnEntry'
    BY <1>7, SubmitReturnsTypes DEF SubmitRelease, SubmitSteps, ScriptsTypeOK
  <2> QED
    BY <1>7, <2>1 DEF SubmitRelease, ProverTypeOK
<1> QED
  BY <1>1, <1>2, <1>3, <1>4, <1>5, <1>6, <1>7 DEF SubmitStep

LEMMA RefreshTypes ==
  ASSUME TypeOK, NEW p \in Procs, RefreshStep(p)
  PROVE  TypeOK'
<1> USE DEF TypeOK, FilesTypeOK, ScriptsTypeOK, AtAnEntry, Goto, Steps, SubmitSteps,
        ProverTypeOK, proverVars, fileVars, envVars
<1>1. CASE RefreshLoad(p)
  <2>1. mem' \in [Procs -> Summaries]
    BY <1>1 DEF RefreshLoad
  <2>2. pc' \in [Procs -> Steps] /\ AtAnEntry'
    BY <1>1 DEF RefreshLoad
  <2> QED
    BY <1>1, <2>1, <2>2 DEF RefreshLoad
<1>2. CASE RefreshSeesLock(p)
  BY <1>2, Entries DEF RefreshSeesLock
<1>3. CASE RefreshEntry(p)
  <2>1. pos[p] \in Sellers
    BY <1>3 DEF RefreshEntry
  <2>2. pos[p] + 1 \in 1 .. N + 1
    BY <2>1, Entries
  <2>3. pc' \in [Procs -> Steps] /\ AtAnEntry'
    BY <1>3 DEF RefreshEntry
  <2>4. pos' \in [Procs -> 1 .. N + 1]
    BY <1>3, <2>2 DEF RefreshEntry
  <2>5. resuming' \in [Procs -> SUBSET Sellers]
    <3>1. resuming[p] \cup (IF checkpoint[pos[p]] # 0 THEN {pos[p]} ELSE {}) \in SUBSET Sellers
      BY <2>1
    <3>2. PICK R \in SUBSET Sellers :
            resuming' = resuming \/ resuming' = [resuming EXCEPT ![p] = R]
      BY <1>3, <3>1 DEF RefreshEntry
    <3> QED
      BY <3>2
  <2> QED
    BY <1>3, <2>3, <2>4, <2>5 DEF RefreshEntry
<1>4. CASE RefreshQuote(p)
  <2>1. Repriced(p) \in Quotes
    BY DEF Repriced, Quotes
  <2> QED
    BY <1>4, <2>1 DEF RefreshQuote
<1>5. CASE RefreshState(p)
  <2>1. [gen |-> seen[p].gen + 1,
         status |-> IF mem[p].status = "complete" THEN "complete"
                    ELSE "awaiting-approval",
         results |-> mem[p].results] \in Summaries
    BY DEF Summaries, Statuses, Quotes
  <2> QED
    BY <1>5, <2>1 DEF RefreshState
<1> QED
  BY <1>1, <1>2, <1>3, <1>4, <1>5 DEF RefreshStep

LEMMA LaunchTypes ==
  ASSUME TypeOK, NEW p \in Procs, NEW k \in Kinds, NEW s \in Sellers, Launch(p, k, s)
  PROVE  TypeOK'
<1> USE DEF ScriptsTypeOK
<1>1. (IF k = "submit" THEN s ELSE 1) \in 1 .. N + 1
  BY Entries, Constants
<1>2. (IF k = "submit" THEN FirstQuote ELSE batch) \in Quotes
  BY Constants DEF TypeOK, FilesTypeOK
<1>3. ScriptsTypeOK'
  BY <1>1, <1>2 DEF Launch, Goto, TypeOK, Steps, SubmitSteps
<1>4. AtAnEntry'
  BY Entries DEF Launch, Goto, TypeOK, AtAnEntry, SubmitSteps
<1> QED
  BY <1>3, <1>4 DEF Launch, TypeOK, FilesTypeOK, ProverTypeOK, proverVars, fileVars, envVars

LEMMA CrashTypes ==
  ASSUME TypeOK, NEW p \in Procs, NEW childDies \in BOOLEAN, Crash(p, childDies)
  PROVE  TypeOK'
<1>1. ScriptsTypeOK' /\ AtAnEntry'
  BY EndTypes DEF Crash, TypeOK
<1>2. ProverTypeOK'
  <2> USE DEF Crash, TypeOK, ProverTypeOK, ProverStates
  <2>1. CASE Reap(p)
    BY <2>1, Constants DEF Reap
  <2>2. CASE UNCHANGED <<prover, job, request>>
    BY <2>2
  <2> QED
    BY <2>1, <2>2
<1>3. FilesTypeOK'
  BY DEF Crash, TypeOK, FilesTypeOK
<1> QED
  BY <1>1, <1>2, <1>3 DEF Crash, TypeOK

LEMMA OperatorTypes ==
  ASSUME TypeOK, Operator
  PROVE  TypeOK'
<1>1. ASSUME NEW p \in Procs, LaunchRun(p) \/ LaunchRefresh(p) \/ LaunchSubmit(p)
      PROVE  TypeOK'
  BY <1>1, LaunchTypes, Constants, BatchAssumption
     DEF LaunchRun, LaunchRefresh, LaunchSubmit, Kinds
<1> USE DEF TypeOK, ProverTypeOK, FilesTypeOK, ScriptsTypeOK, AtAnEntry,
            proverVars, procVars, fileVars, envVars, scriptVars
<1>2. CASE ReviewBatchLock
  BY <1>2 DEF ReviewBatchLock
<1>3. ASSUME NEW s \in Sellers, ReviewExecLock(s)
      PROVE  TypeOK'
  BY <1>3 DEF ReviewExecLock
<1>4. ASSUME NEW s \in Sellers, Reconcile(s)
      PROVE  TypeOK'
  <2>1. checkpoint' \in [Sellers -> Nat]
    <3>1. \A r \in 1 .. paid[s] : r \in Nat
      OBVIOUS
    <3> QED
      BY <1>4, <3>1 DEF Reconcile
  <2>2. started' \in [Sellers -> BOOLEAN]
    BY <1>4 DEF Reconcile
  <2> QED
    BY <1>4, <2>1, <2>2 DEF Reconcile
<1>5. CASE TopUp /\ UNCHANGED scriptVars
  BY <1>5 DEF TopUp
<1> QED
  BY <1>1, <1>2, <1>3, <1>4, <1>5 DEF Operator

LEMMA EnvironmentTypes ==
  ASSUME TypeOK, Environment
  PROVE  TypeOK'
<1>1. ASSUME NEW p \in Procs, KilledWithChild(p) \/ KilledAlone(p)
      PROVE  TypeOK'
  BY <1>1, CrashTypes DEF KilledWithChild, KilledAlone
<1>2. ASSUME NEW p \in Procs, InputFails(p)
      PROVE  TypeOK'
  <2>1. ScriptsTypeOK' /\ AtAnEntry'
    <3>1. CASE pc[p] \in {"check", "afford"} /\ SubmitReturns(p, "error")
      BY <3>1, SubmitReturnsTypes DEF TypeOK, SubmitSteps
    <3>2. CASE Goto(p, "refresh.entry", "unlock")
               /\ UNCHANGED <<kind, pos, seen, mem, resuming, outcome, digest>>
      BY <3>2 DEF Goto, TypeOK, ScriptsTypeOK, AtAnEntry, Steps, SubmitSteps
    <3> QED
      BY <1>2, <3>1, <3>2 DEF InputFails
  <2> QED
    BY <1>2, <2>1 DEF InputFails, TypeOK, ProverTypeOK, FilesTypeOK, proverVars, fileVars
<1>3. ASSUME NEW p \in Procs, ChildFault(p)
      PROVE  TypeOK'
  <2>1. ProverTypeOK'
    BY <1>3, ChildTypes DEF ChildFault, TypeOK
  <2> QED
    BY <1>3, <2>1
       DEF ChildFault, TypeOK, FilesTypeOK, ScriptsTypeOK, AtAnEntry, fileVars, procVars
<1> USE DEF TypeOK, ProverTypeOK, FilesTypeOK, ScriptsTypeOK, AtAnEntry,
            proverVars, procVars, fileVars, envVars, scriptVars
<1>4. ASSUME NEW s \in Sellers, RequestFulfilled(s) \/ RequestExpires(s)
      PROVE  TypeOK'
  <2>1. \A r \in Awaiting(s) : r \in Nat
    BY DEF Awaiting
  <2>2. CASE RequestFulfilled(s)
    BY <2>1, <2>2 DEF RequestFulfilled, Fulfil
  <2>3. CASE RequestExpires(s)
    BY <2>1, <2>3, BatchAssumption DEF RequestExpires, Expire
  <2> QED
    BY <1>4, <2>2, <2>3
<1>5. CASE QuotesGoStale
  BY <1>5 DEF QuotesGoStale, Quotes
<1>6. ASSUME NEW p \in Procs, OrphanExits(p)
      PROVE  TypeOK'
  BY <1>6, Constants DEF OrphanExits, Reap, ProverStates
<1> QED
  BY <1>1, <1>2, <1>3, <1>4, <1>5, <1>6 DEF Environment

LEMMA TypeStep == TypeOK /\ [Next]_vars => TypeOK'
<1> SUFFICES ASSUME TypeOK, [Next]_vars
             PROVE  TypeOK'
  OBVIOUS
<1>1. ASSUME NEW p \in Procs, ScriptStep(p)
      PROVE  TypeOK'
  <2>1. CASE TakeBatchLock(p)
    <3>1. ScriptsTypeOK' /\ AtAnEntry'
      <4>1. CASE End(p)
        BY <4>1, EndTypes DEF TypeOK
      <4>2. CASE ~End(p)
        BY <2>1, <4>2 DEF TakeBatchLock, Goto, TypeOK, ScriptsTypeOK, AtAnEntry, Steps, SubmitSteps
      <4> QED
        BY <4>1, <4>2
    <3> QED
      BY <2>1, <3>1 DEF TakeBatchLock, TypeOK, ProverTypeOK, FilesTypeOK, proverVars, envVars
  <2>2. CASE BatchUnlock(p)
    BY <2>2, EndTypes DEF BatchUnlock, TypeOK, ProverTypeOK, FilesTypeOK, proverVars, envVars
  <2> QED
    BY <1>1, <2>1, <2>2, RunTypes, SubmitTypes, RefreshTypes DEF ScriptStep
<1>2. ASSUME NEW p \in Procs, ChildStep(p)
      PROVE  TypeOK'
  <2>1. ProverTypeOK'
    BY <1>2, ChildTypes DEF ChildStep, TypeOK
  <2> QED
    BY <1>2, <2>1 DEF ChildStep, TypeOK, FilesTypeOK, ScriptsTypeOK, AtAnEntry,
                      scriptVars, fileVars, procVars, envVars
<1>3. CASE UNCHANGED vars
  BY <1>3 DEF TypeOK, ProverTypeOK, FilesTypeOK, ScriptsTypeOK, AtAnEntry,
              vars, proverVars, fileVars, procVars, envVars
<1> QED
  BY <1>1, <1>2, <1>3, OperatorTypes, EnvironmentTypes DEF Next

\* Every variable keeps its type, and a script that works on an entry is at an
\* entry of the batch (no off-by-one of the queue's position), for every number of
\* sellers and processes.
THEOREM TypeCorrect == Spec => []TypeOK
BY TypeInit, TypeStep, PTL DEF Spec

-----------------------------------------------------------------------------
(* The trail of locks, markers and saved requests that keeps a second payment *)
(* away.  AtMostOnePaidRequest alone is not inductive: that a child about to  *)
(* request has not been paid for depends on where every other script and      *)
(* child is, which PaymentTrail says.                                         *)

Inv == TypeOK /\ PaymentTrail /\ AtMostOnePaidRequest

PaymentVars == <<checkpoint, paid, started, prover, job, request>>

LEMMA TrailInit == Init => PaymentTrail /\ AtMostOnePaidRequest
BY DEF Init, ProverInit, PaymentTrail, LocksAreOwned, PaymentsAreTraced, ChildrenPayOnce,
       AtMostOnePaidRequest, Resuming

\* A script without a child that moves outside the part of submit that relies on
\* what it has read and locked.
LEMMA Aside ==
  ASSUME Inv, NEW p \in Procs, prover[p] = "none",
         UNCHANGED <<PaymentVars, execLock>>,
         \A q \in Procs \ {p} :
           pc'[q] = pc[q] /\ pos'[q] = pos[q] /\ resuming'[q] = resuming[q],
         pc'[p] \notin {"afford", "lock", "mark", "prove", "release"}
  PROVE  PaymentTrail' /\ AtMostOnePaidRequest'
<1> USE DEF Inv, PaymentTrail, PaymentVars
<1>1. LocksAreOwned'
  BY DEF LocksAreOwned
<1>2. PaymentsAreTraced'
  BY DEF PaymentsAreTraced, Resuming
<1>3. ChildrenPayOnce'
  BY DEF ChildrenPayOnce
<1> QED
  BY <1>1, <1>2, <1>3 DEF AtMostOnePaidRequest

LEMMA NoChild ==
  ASSUME Inv, NEW p \in Procs, pc[p] \notin {"idle", "prove"}
  PROVE  prover[p] = "none"
BY DEF Inv, PaymentTrail, LocksAreOwned

LEMMA ChildLocks ==
  ASSUME Inv, NEW p \in Procs, ProverStep(p) \/ ProverFault(p),
         UNCHANGED <<pc, pos, execLock>>
  PROVE  LocksAreOwned' /\ Running(p)
<1>1. /\ Running(p) /\ prover'[p] # "none" /\ UNCHANGED job
      /\ \A q \in Procs \ {p} : prover'[q] = prover[q]
  BY DEF Inv, TypeOK, ProverTypeOK, Running, ProverStep, ProverFault, LoadRequestCheckpoint,
         RequestGroth16, RequestAnswerLost, RequestRefused, WriteRequestCheckpoint,
         WaitProof, WaitProofTimesOut, WriteArtifact, ProverAborts
<1> QED
  BY <1>1 DEF Inv, PaymentTrail, LocksAreOwned, Running

\* The step of a child: only it can pay or save for its seller, for no other child
\* works for that seller.
LEMMA ChildTrail ==
  ASSUME Inv, NEW p \in Procs, ProverStep(p) \/ ProverFault(p),
         UNCHANGED <<pc, pos, resuming, started, execLock>>
  PROVE  PaymentTrail' /\ AtMostOnePaidRequest'
<1> DEFINE s == job[p]
<1>1. LocksAreOwned' /\ Running(p)
  BY ChildLocks
<1>2. \A q \in Procs \ {p} : prover[q] # "none" => job[q] # s
  BY <1>1 DEF Inv, PaymentTrail, LocksAreOwned, Running
<1>3. s \in Sellers
  BY DEF Inv, TypeOK, ProverTypeOK
<1> USE DEF Inv, PaymentTrail, PaymentsAreTraced, ChildrenPayOnce, AtMostOnePaidRequest,
            Resuming, TypeOK, ProverTypeOK, ProverStates
<1>4. CASE LoadRequestCheckpoint(p)
  BY <1>1, <1>2, <1>3, <1>4 DEF LoadRequestCheckpoint
<1>5. CASE RequestGroth16(p)
  BY <1>1, <1>2, <1>3, <1>5 DEF RequestGroth16, Accept
<1>6. CASE RequestAnswerLost(p)
  BY <1>1, <1>2, <1>3, <1>6 DEF RequestAnswerLost, Accept
<1>7. CASE RequestRefused(p)
  BY <1>1, <1>2, <1>3, <1>7 DEF RequestRefused
<1>8. CASE WriteRequestCheckpoint(p)
  BY <1>1, <1>2, <1>3, <1>8 DEF WriteRequestCheckpoint
<1>9. CASE WaitProof(p)
  BY <1>1, <1>2, <1>3, <1>9 DEF WaitProof
<1>10. CASE WaitProofTimesOut(p)
  BY <1>1, <1>2, <1>3, <1>10 DEF WaitProofTimesOut
<1>11. CASE WriteArtifact(p)
  BY <1>1, <1>2, <1>3, <1>11 DEF WriteArtifact
<1>12. CASE ProverAborts(p)
  BY <1>1, <1>2, <1>3, <1>12 DEF ProverAborts
<1> QED
  BY <1>4, <1>5, <1>6, <1>7, <1>8, <1>9, <1>10, <1>11, <1>12 DEF ProverStep, ProverFault

LEMMA EndAside ==
  ASSUME Inv, NEW p \in Procs, End(p), prover[p] = "none",
         UNCHANGED <<PaymentVars, execLock>>
  PROVE  PaymentTrail' /\ AtMostOnePaidRequest'
<1>1. pc'[p] = "idle" /\ \A q \in Procs \ {p} :
        pc'[q] = pc[q] /\ pos'[q] = pos[q] /\ resuming'[q] = resuming[q]
  BY DEF End, Inv, TypeOK, ScriptsTypeOK
<1> QED
  BY <1>1, Aside

LEMMA ReturnAside ==
  ASSUME Inv, NEW p \in Procs, NEW how, SubmitReturns(p, how), prover[p] = "none",
         UNCHANGED <<PaymentVars, execLock>>
  PROVE  PaymentTrail' /\ AtMostOnePaidRequest'
<1>1. CASE End(p)
  BY <1>1, EndAside
<1>2. CASE ~End(p)
  <2>1. pc'[p] = "run.record" /\ \A q \in Procs \ {p} :
          pc'[q] = pc[q] /\ pos'[q] = pos[q] /\ resuming'[q] = resuming[q]
    BY <1>2 DEF SubmitReturns, Inv, TypeOK, ScriptsTypeOK
  <2> QED
    BY <2>1, Aside
<1> QED
  BY <1>1, <1>2

\* Launching, loading, recording and repricing leave the trail alone.
LEMMA QueueTrail ==
  ASSUME Inv, NEW p \in Procs,
         TakeBatchLock(p) \/ BatchUnlock(p) \/ RunStep(p) \/ RefreshStep(p)
  PROVE  PaymentTrail' /\ AtMostOnePaidRequest'
<1>1. prover[p] = "none"
  BY NoChild DEF TakeBatchLock, BatchUnlock, RunStep, RefreshStep, Goto,
     RunLoad, RunSkip, RunArtifactChanged, RunSelect, RunRecord, RunPause, RunFinish,
     RefreshLoad, RefreshSeesLock, RefreshEntry, RefreshQuote, RefreshState
<1>2. UNCHANGED <<PaymentVars, execLock>>
  BY DEF TakeBatchLock, BatchUnlock, RunStep, RefreshStep, PaymentVars,
     RunLoad, RunSkip, RunArtifactChanged, RunSelect, RunRecord, RunPause, RunFinish,
     RefreshLoad, RefreshSeesLock, RefreshEntry, RefreshQuote, RefreshState,
     proverVars, fileVars
<1>3. CASE End(p)
  BY <1>1, <1>2, <1>3, EndAside
<1>4. CASE ~End(p)
  <2>1. \A q \in Procs \ {p} :
          pc'[q] = pc[q] /\ pos'[q] = pos[q] /\ resuming'[q] = resuming[q]
    BY <1>4 DEF Inv, TypeOK, ScriptsTypeOK,
       TakeBatchLock, BatchUnlock, RunStep, RefreshStep, Goto,
       RunLoad, RunSkip, RunArtifactChanged, RunSelect, RunRecord, RunPause, RunFinish,
       RefreshLoad, RefreshSeesLock, RefreshEntry, RefreshQuote, RefreshState
  <2>2. pc'[p] \notin {"afford", "lock", "mark", "prove", "release"}
    BY <1>4 DEF Inv, TypeOK, ScriptsTypeOK,
       TakeBatchLock, BatchUnlock, RunStep, RefreshStep, Goto,
       RunLoad, RunSkip, RunArtifactChanged, RunSelect, RunRecord, RunPause, RunFinish,
       RefreshLoad, RefreshSeesLock, RefreshEntry, RefreshQuote, RefreshState
  <2> QED
    BY <1>1, <1>2, <2>1, <2>2, Aside
<1> QED
  BY <1>3, <1>4

LEMMA SubmitTrail ==
  ASSUME Inv, NEW p \in Procs, SubmitStep(p)
  PROVE  PaymentTrail' /\ AtMostOnePaidRequest'
<1> DEFINE s == pos[p]
<1> USE DEF PaymentVars
<1>1. pc[p] \in SubmitSteps /\ s \in Sellers
  BY DEF SubmitStep, SubmitCheck, SubmitAfford, SubmitLock, SubmitAmbiguous, SubmitMark,
         SubmitVerify, SubmitRelease, Goto, SubmitSteps, Inv, TypeOK, AtAnEntry
<1>2. pc[p] # "prove" => prover[p] = "none"
  BY <1>1, NoChild DEF SubmitSteps
<1>3. ASSUME UNCHANGED <<PaymentVars, execLock>>, NEW how, SubmitReturns(p, how), pc[p] # "prove"
      PROVE  PaymentTrail' /\ AtMostOnePaidRequest'
  BY <1>2, <1>3, ReturnAside
<1>4. CASE SubmitCheck(p)
  BY <1>1, <1>2, <1>4
     DEF SubmitCheck, Goto, Resuming, Inv, PaymentTrail, LocksAreOwned, PaymentsAreTraced,
         ChildrenPayOnce, AtMostOnePaidRequest, TypeOK, ScriptsTypeOK, proverVars, fileVars
<1>5. CASE SubmitAfford(p)
  <2>1. CASE SubmitReturns(p, "error") \/ SubmitReturns(p, "funds")
    BY <1>3, <1>5, <2>1 DEF SubmitAfford, proverVars, fileVars
  <2>2. CASE Goto(p, "afford", "lock") /\ UNCHANGED <<pos, resuming>>
    BY <1>1, <1>2, <1>5, <2>2
       DEF SubmitAfford, Goto, Resuming, Inv, PaymentTrail, LocksAreOwned, PaymentsAreTraced,
           ChildrenPayOnce, AtMostOnePaidRequest, TypeOK, ScriptsTypeOK, proverVars, fileVars
  <2> QED
    BY <1>5, <2>1, <2>2 DEF SubmitAfford
<1>6. CASE SubmitLock(p)
  <2>1. CASE SubmitReturns(p, "error") /\ UNCHANGED execLock
    BY <1>3, <1>6, <2>1 DEF SubmitLock, proverVars
  <2>2. CASE /\ execLock[s] = None
             /\ execLock' = [execLock EXCEPT ![s] = p]
             /\ Goto(p, "lock", "mark")
             /\ UNCHANGED <<pos, resuming>>
    BY <1>1, <1>2, <1>6, <2>2, BatchAssumption
       DEF SubmitLock, Goto, Resuming, Inv, PaymentTrail, LocksAreOwned, PaymentsAreTraced,
           ChildrenPayOnce, AtMostOnePaidRequest, TypeOK, FilesTypeOK, ScriptsTypeOK, proverVars
  <2> QED
    BY <1>6, <2>1, <2>2 DEF SubmitLock
<1>7. CASE SubmitAmbiguous(p)
  BY <1>1, <1>2, <1>7
     DEF SubmitAmbiguous, Goto, Resuming, Inv, PaymentTrail, LocksAreOwned, PaymentsAreTraced,
         ChildrenPayOnce, AtMostOnePaidRequest, TypeOK, ScriptsTypeOK, proverVars, fileVars
<1>8. CASE SubmitMark(p)
  <2>1. \A q \in Procs : prover[q] # "none" => job[q] # s
    BY <1>1, <1>8, BatchAssumption DEF SubmitMark, Goto, Inv, PaymentTrail, LocksAreOwned
  <2> USE DEF SubmitMark, Spawn, Goto, Inv, PaymentTrail, TypeOK, ProverTypeOK, FilesTypeOK,
              ScriptsTypeOK
  <2>2. Resuming(p) => checkpoint[s] # 0
    BY <1>8 DEF PaymentsAreTraced
  <2>3. LocksAreOwned'
    BY <1>1, <1>8, <2>1 DEF LocksAreOwned
  <2>4. PaymentsAreTraced'
    BY <1>1, <1>8 DEF PaymentsAreTraced, Resuming
  <2>5. ChildrenPayOnce'
    BY <1>1, <1>8, <2>1, <2>2 DEF ChildrenPayOnce, PaymentsAreTraced
  <2> QED
    BY <1>8, <2>3, <2>4, <2>5 DEF AtMostOnePaidRequest
<1>9. CASE SubmitVerify(p)
  BY <1>1, <1>9
     DEF SubmitVerify, Reap, Goto, Resuming, Inv, PaymentTrail, LocksAreOwned,
         PaymentsAreTraced, ChildrenPayOnce, AtMostOnePaidRequest,
         TypeOK, ProverTypeOK, ScriptsTypeOK, fileVars
<1>10. CASE SubmitRelease(p)
  <2>1. \A q \in Procs : prover[q] # "none" => job[q] # s
    BY <1>1, <1>10, BatchAssumption DEF SubmitRelease, Inv, PaymentTrail, LocksAreOwned
  <2>2. \A q \in Procs \ {p} : pc[q] \in {"mark", "prove", "release"} => pos[q] # s
    BY <1>1, <1>10 DEF SubmitRelease, Inv, PaymentTrail, LocksAreOwned
  <2>3. pc'[p] \in {"idle", "run.record"} /\ \A q \in Procs \ {p} :
          pc'[q] = pc[q] /\ pos'[q] = pos[q] /\ resuming'[q] = resuming[q]
    BY <1>10 DEF SubmitRelease, SubmitReturns, End, Inv, TypeOK, ScriptsTypeOK
  <2> QED
    BY <1>2, <1>10, <2>1, <2>2, <2>3
       DEF SubmitRelease, Resuming, Inv, PaymentTrail, LocksAreOwned, PaymentsAreTraced,
           ChildrenPayOnce, AtMostOnePaidRequest, TypeOK, FilesTypeOK, proverVars
<1> QED
  BY <1>4, <1>5, <1>6, <1>7, <1>8, <1>9, <1>10 DEF SubmitStep

\* A killed script leaves its locks behind; its child dies, or is an orphan that
\* the lock of its seller still guards.
LEMMA CrashTrail ==
  ASSUME Inv, NEW p \in Procs, NEW childDies \in BOOLEAN, Crash(p, childDies),
         childDies \/ Running(p)
  PROVE  PaymentTrail' /\ AtMostOnePaidRequest'
<1> USE DEF Inv, PaymentTrail, TypeOK, ProverTypeOK, FilesTypeOK, ScriptsTypeOK
<1>1. pc'[p] = "idle" /\ \A q \in Procs \ {p} :
        pc'[q] = pc[q] /\ pos'[q] = pos[q] /\ resuming'[q] = resuming[q]
  BY DEF Crash, End
<1>2. \A q \in Procs \ {p} :
        prover'[q] = prover[q] /\ job'[q] = job[q] /\ request'[q] = request[q]
  BY DEF Crash, Reap
<1>3. \/ prover'[p] = "none"
      \/ /\ Running(p) /\ UNCHANGED <<prover, job, request>>
         /\ pc[p] = "prove" /\ pos[p] = job[p] /\ execLock[job[p]] = p
  BY DEF Crash, Reap, Running, LocksAreOwned
<1>4. \A s \in Sellers : /\ execLock[s] = p => execLock'[s] = Stale
                         /\ execLock[s] # p => execLock'[s] = execLock[s]
  BY DEF Crash
<1>5. UNCHANGED <<checkpoint, paid, started>>
  BY DEF Crash
<1>6. LocksAreOwned'
  <2> USE DEF LocksAreOwned
  <2>1. \A q \in Procs : (pc[q] \in {"mark", "prove", "release"})' =>
          (pos[q] \in Sellers /\ execLock[pos[q]] = q)'
    BY <1>1, <1>4
  <2>2. \A q \in Procs : (prover[q] # "none")' =>
          (\/ pc[q] = "prove" /\ pos[q] = job[q]
           \/ pc[q] = "idle" /\ execLock[job[q]] = Stale)'
    <3>1. ASSUME prover'[p] # "none"
          PROVE  pc'[p] = "idle" /\ execLock'[job'[p]] = Stale
      BY <1>1, <1>3, <1>4, <3>1
    <3>2. ASSUME NEW q \in Procs \ {p}, prover'[q] # "none"
          PROVE  \/ pc'[q] = "prove" /\ pos'[q] = job'[q]
                 \/ pc'[q] = "idle" /\ execLock'[job'[q]] = Stale
      BY <1>1, <1>2, <1>4, <3>2, BatchAssumption
    <3> QED
      BY <3>1, <3>2
  <2>3. \A q, r \in Procs :
          (prover[q] # "none" /\ prover[r] # "none" /\ job[q] = job[r])' => q = r
    BY <1>2, <1>3 DEF Running
  <2> QED
    BY <2>1, <2>2, <2>3
<1>7. PaymentsAreTraced'
  BY <1>1, <1>5 DEF PaymentsAreTraced, Resuming
<1>8. ChildrenPayOnce'
  BY <1>2, <1>3, <1>5 DEF ChildrenPayOnce
<1> QED
  BY <1>5, <1>6, <1>7, <1>8 DEF AtMostOnePaidRequest

LEMMA OperatorTrail ==
  ASSUME Inv, Operator
  PROVE  PaymentTrail' /\ AtMostOnePaidRequest'
<1> USE DEF Inv, PaymentTrail
<1>1. ASSUME NEW p \in Procs, NEW k \in Kinds, NEW s \in Sellers, Launch(p, k, s)
      PROVE  PaymentTrail' /\ AtMostOnePaidRequest'
  <2>1. pc'[p] \in {"check", "batch.lock"} /\ \A q \in Procs \ {p} :
          pc'[q] = pc[q] /\ pos'[q] = pos[q] /\ resuming'[q] = resuming[q]
    BY <1>1 DEF Launch, Goto, TypeOK, ScriptsTypeOK
  <2>2. prover[p] = "none" /\ UNCHANGED <<PaymentVars, execLock>>
    BY <1>1 DEF Launch, proverVars, fileVars, PaymentVars
  <2> QED
    BY <2>1, <2>2, Aside
<1>2. ASSUME NEW p \in Procs, LaunchRun(p) \/ LaunchRefresh(p) \/ LaunchSubmit(p)
      PROVE  PaymentTrail' /\ AtMostOnePaidRequest'
  BY <1>1, <1>2, Constants, BatchAssumption
     DEF LaunchRun, LaunchRefresh, LaunchSubmit, Kinds
<1>3. CASE ReviewBatchLock \/ (TopUp /\ UNCHANGED scriptVars)
  BY <1>3 DEF ReviewBatchLock, TopUp, LocksAreOwned, PaymentsAreTraced, ChildrenPayOnce,
              AtMostOnePaidRequest, Resuming, proverVars, procVars, fileVars, scriptVars
<1>4. ASSUME NEW s \in Sellers, ReviewExecLock(s)
      PROVE  PaymentTrail' /\ AtMostOnePaidRequest'
  BY <1>4, BatchAssumption
     DEF ReviewExecLock, LocksAreOwned, PaymentsAreTraced, ChildrenPayOnce,
         AtMostOnePaidRequest, Resuming, TypeOK, FilesTypeOK, proverVars, procVars
<1>5. ASSUME NEW s \in Sellers, Reconcile(s)
      PROVE  PaymentTrail' /\ AtMostOnePaidRequest'
  <2>1. \A q \in Procs : prover[q] # "none" => job[q] # s
    BY <1>5, BatchAssumption DEF Reconcile, LocksAreOwned
  <2>2. LocksAreOwned'
    BY <1>5 DEF Reconcile, LocksAreOwned, procVars
  <2>3. PaymentsAreTraced'
    <3> USE DEF PaymentsAreTraced, Resuming, TypeOK, ProverTypeOK, FilesTypeOK
    <3>1. UNCHANGED <<paid, pc, pos, resuming>>
      BY <1>5 DEF Reconcile, procVars
    <3>2. CASE paid[s] = 0 /\ started' = [started EXCEPT ![s] = FALSE] /\ UNCHANGED checkpoint
      BY <3>1, <3>2
    <3>3. ASSUME NEW r \in 1 .. paid[s], checkpoint' = [checkpoint EXCEPT ![s] = r],
                 UNCHANGED started
          PROVE  PaymentsAreTraced'
      BY <3>1, <3>3
    <3> QED
      BY <1>5, <3>2, <3>3 DEF Reconcile
  <2>4. ChildrenPayOnce'
    BY <1>5, <2>1 DEF Reconcile, ChildrenPayOnce, TypeOK, ProverTypeOK, FilesTypeOK
  <2> QED
    BY <1>5, <2>2, <2>3, <2>4 DEF Reconcile, AtMostOnePaidRequest
<1> QED
  BY <1>2, <1>3, <1>4, <1>5 DEF Operator

LEMMA EnvironmentTrail ==
  ASSUME Inv, Environment
  PROVE  PaymentTrail' /\ AtMostOnePaidRequest'
<1>1. ASSUME NEW p \in Procs, KilledWithChild(p) \/ KilledAlone(p)
      PROVE  PaymentTrail' /\ AtMostOnePaidRequest'
  BY <1>1, CrashTrail DEF KilledWithChild, KilledAlone
<1>2. ASSUME NEW p \in Procs, InputFails(p)
      PROVE  PaymentTrail' /\ AtMostOnePaidRequest'
  <2>1. prover[p] = "none"
    BY <1>2, NoChild DEF InputFails, Goto
  <2>2. UNCHANGED <<PaymentVars, execLock>>
    BY <1>2 DEF InputFails, proverVars, fileVars, PaymentVars
  <2>3. CASE SubmitReturns(p, "error")
    BY <2>1, <2>2, <2>3, ReturnAside
  <2>4. CASE Goto(p, "refresh.entry", "unlock") /\ UNCHANGED <<pos, resuming>>
    <3>1. pc'[p] = "unlock" /\ \A q \in Procs \ {p} :
            pc'[q] = pc[q] /\ pos'[q] = pos[q] /\ resuming'[q] = resuming[q]
      BY <2>4 DEF Goto, Inv, TypeOK, ScriptsTypeOK
    <3> QED
      BY <2>1, <2>2, <3>1, Aside
  <2> QED
    BY <1>2, <2>3, <2>4 DEF InputFails
<1>3. ASSUME NEW p \in Procs, ChildFault(p)
      PROVE  PaymentTrail' /\ AtMostOnePaidRequest'
  BY <1>3, ChildTrail DEF ChildFault, fileVars, procVars
<1>4. ASSUME NEW p \in Procs, OrphanExits(p)
      PROVE  PaymentTrail' /\ AtMostOnePaidRequest'
  BY <1>4 DEF OrphanExits, Reap, Inv, PaymentTrail, LocksAreOwned, PaymentsAreTraced,
              ChildrenPayOnce, AtMostOnePaidRequest, Resuming, TypeOK, ProverTypeOK,
              scriptVars, fileVars, procVars
<1>5. CASE QuotesGoStale \/ \E s \in Sellers : RequestFulfilled(s) \/ RequestExpires(s)
  BY <1>5 DEF QuotesGoStale, RequestFulfilled, RequestExpires, Fulfil, Expire, Inv, PaymentTrail, LocksAreOwned, PaymentsAreTraced,
              ChildrenPayOnce, AtMostOnePaidRequest, Resuming,
              proverVars, scriptVars, fileVars, procVars
<1> QED
  BY <1>1, <1>2, <1>3, <1>4, <1>5 DEF Environment

LEMMA InvStep == Inv /\ [Next]_vars => Inv'
<1> SUFFICES ASSUME Inv, [Next]_vars
             PROVE  PaymentTrail' /\ AtMostOnePaidRequest'
  BY TypeStep DEF Inv
<1>1. ASSUME NEW p \in Procs, ScriptStep(p) \/ ChildStep(p)
      PROVE  PaymentTrail' /\ AtMostOnePaidRequest'
  BY <1>1, QueueTrail, SubmitTrail, ChildTrail
     DEF ScriptStep, ChildStep, scriptVars, fileVars, procVars
<1>2. CASE UNCHANGED vars
  BY <1>2 DEF Inv, PaymentTrail, LocksAreOwned, PaymentsAreTraced, ChildrenPayOnce,
              AtMostOnePaidRequest, Resuming, vars, proverVars, fileVars, procVars
<1> QED
  BY <1>1, <1>2, OperatorTrail, EnvironmentTrail DEF Next

LEMMA Invariance == Spec => []Inv
<1>1. Init => Inv
  BY TypeInit, TrailInit DEF Inv
<1> QED
  BY <1>1, InvStep, PTL DEF Spec

\* Locks, markers and saved requests account for every payment, across kills of the
\* scripts that leave their locks or their children behind.
THEOREM TrailKept == Spec => []PaymentTrail
BY Invariance, PTL DEF Inv

\* However often the scripts are killed, rerun or run side by side, and whatever the
\* network loses, no seller is paid for twice.
THEOREM NoSecondPayment == Spec => []AtMostOnePaidRequest
BY Invariance, PTL DEF Inv

\* execution.lock works, for every number of processes: no two live children for
\* the same seller.
THEOREM OneChild == Spec => []OneChildPerSeller
<1>1. Inv => OneChildPerSeller
  BY DEF Inv, PaymentTrail, LocksAreOwned, OneChildPerSeller, Running
<1> QED
  BY <1>1, Invariance, PTL

-----------------------------------------------------------------------------
(* Refinement: the queue implements PaidOnce.                               *)

Proved == [s \in Sellers |-> artifact[s].request # 0]

\* Only a child pays, and only a child writes an artifact.
LEMMA OthersStutter ==
  ASSUME [Next]_vars, ~ \E p \in Procs : ProverStep(p) \/ ProverFault(p)
  PROVE  UNCHANGED <<paid, artifact>>
<1> USE DEF proverVars
<1>1. ASSUME NEW p \in Procs, ScriptStep(p)
      PROVE  UNCHANGED <<paid, artifact>>
  BY <1>1 DEF ScriptStep, TakeBatchLock, BatchUnlock, RunStep, SubmitStep, RefreshStep,
     RunLoad, RunSkip, RunArtifactChanged, RunSelect, RunRecord, RunPause, RunFinish,
     SubmitCheck, SubmitAfford, SubmitLock, SubmitAmbiguous, SubmitMark, SubmitVerify,
     SubmitRelease, RefreshLoad, RefreshSeesLock, RefreshEntry, RefreshQuote, RefreshState
<1>2. CASE Operator
  BY <1>2 DEF Operator, LaunchRun, LaunchRefresh, LaunchSubmit, Launch, ReviewBatchLock,
              ReviewExecLock, Reconcile, TopUp
<1>3. CASE Environment
  BY <1>3 DEF Environment, RequestFulfilled, RequestExpires, Fulfil, Expire, QuotesGoStale,
              InputFails, ChildFault, OrphanExits, KilledWithChild, KilledAlone, Crash
<1>4. CASE UNCHANGED vars
  BY <1>4 DEF vars
<1> QED
  BY <1>1, <1>2, <1>3, <1>4 DEF Next, ChildStep

LEMMA PaymentPays ==
  ASSUME Inv, NEW p \in Procs, prover[p] = "request", Accept(job[p]), UNCHANGED artifact
  PROVE  Promise!Pay(job[p]) /\ job[p] \in Sellers
<1>1. job[p] \in Sellers
  BY DEF Inv, TypeOK, ProverTypeOK
<1>2. paid[job[p]] = 0
  BY DEF Inv, PaymentTrail, ChildrenPayOnce
<1>3. paid' = [paid EXCEPT ![job[p]] = 1]
  BY <1>2 DEF Accept
<1>4. Proved' = Proved
  BY DEF Proved
<1> QED
  BY <1>1, <1>2, <1>3, <1>4 DEF Promise!Pay, Proved

\* The artifact is that of a saved request, which was paid for.
LEMMA ArtifactProves ==
  ASSUME Inv, NEW p \in Procs, WriteArtifact(p)
  PROVE  Promise!Prove(job[p]) \/ UNCHANGED <<paid, Proved>>
<1> DEFINE s == job[p]
<1>1. s \in Sellers
  BY DEF Inv, TypeOK, ProverTypeOK
<1>2. request[p] # 0 /\ paid[s] = 1
  <2>1. request[p] = checkpoint[s] /\ checkpoint[s] # 0
    BY DEF WriteArtifact, Inv, PaymentTrail, ChildrenPayOnce
  <2>2. checkpoint[s] <= paid[s] /\ paid[s] <= 1
    BY <1>1 DEF Inv, PaymentTrail, PaymentsAreTraced, AtMostOnePaidRequest
  <2>3. checkpoint[s] \in Nat /\ paid[s] \in Nat
    BY <1>1 DEF Inv, TypeOK, ProverTypeOK
  <2> QED
    BY <2>1, <2>2, <2>3
<1>3. PICK d \in Digests : artifact' = [artifact EXCEPT ![s] = [request |-> request[p], digest |-> d]]
  BY DEF WriteArtifact
<1>4. artifact'[s].request = request[p]
  BY <1>1, <1>3 DEF Inv, TypeOK, ProverTypeOK
<1>5. \A t \in Sellers \ {s} : artifact'[t] = artifact[t]
  BY <1>3 DEF Inv, TypeOK, ProverTypeOK
<1>6. Proved' = [Proved EXCEPT ![s] = TRUE]
  BY <1>1, <1>2, <1>4, <1>5 DEF Proved
<1>7. UNCHANGED paid
  BY DEF WriteArtifact
<1>8. CASE Proved[s]
  <2>1. Proved' = Proved
    BY <1>1, <1>6, <1>8 DEF Proved
  <2> QED
    BY <1>7, <2>1
<1>9. CASE ~Proved[s]
  BY <1>2, <1>6, <1>7, <1>9 DEF Promise!Prove, Proved
<1> QED
  BY <1>8, <1>9

LEMMA StepRefines ==
  ASSUME Inv, [Next]_vars
  PROVE  [Promise!Next]_<<paid, Proved>>
<1>1. ASSUME NEW p \in Procs, RequestGroth16(p) \/ RequestAnswerLost(p)
      PROVE  Promise!Next
  BY <1>1, PaymentPays DEF RequestGroth16, RequestAnswerLost, Promise!Next
<1>2. ASSUME NEW p \in Procs, WriteArtifact(p)
      PROVE  Promise!Next \/ UNCHANGED <<paid, Proved>>
  <2>1. job[p] \in Sellers
    BY DEF Inv, TypeOK, ProverTypeOK
  <2>2. CASE Promise!Prove(job[p])
    BY <2>1, <2>2 DEF Promise!Next, Promise!Prove
  <2> QED
    BY <1>2, <2>2, ArtifactProves
<1>3. ASSUME UNCHANGED <<paid, artifact>>
      PROVE  UNCHANGED <<paid, Proved>>
  BY <1>3 DEF Proved
<1>4. ASSUME NEW p \in Procs, ProverStep(p) \/ ProverFault(p)
      PROVE  \/ RequestGroth16(p) \/ RequestAnswerLost(p) \/ WriteArtifact(p)
             \/ UNCHANGED <<paid, artifact>>
  BY <1>4 DEF ProverStep, ProverFault, LoadRequestCheckpoint, RequestRefused,
              WriteRequestCheckpoint, WaitProof, WaitProofTimesOut, ProverAborts
<1> QED
  BY <1>1, <1>2, <1>3, <1>4, OthersStutter

\* What the requester is promised follows from the locks, markers and saved requests:
\* each seller is charged once and proved after it, whatever happens to the scripts.
THEOREM ImplementsPaidOnce == Spec => PaysOncePerProof
<1>1. Init => Promise!Init
  <2> SUFFICES ASSUME Init
               PROVE  Promise!Init
    OBVIOUS
  <2>1. \A s \in Sellers : (artifact[s].request # 0) = FALSE
    BY DEF Init, ProverInit, NoArtifact
  <2> QED
    BY <2>1 DEF Init, ProverInit, Promise!Init
<1>2. Inv /\ [Next]_vars => [Promise!Next]_<<paid, Proved>>
  BY StepRefines
<1> QED
  BY <1>1, <1>2, Invariance, PTL DEF Spec, PaysOncePerProof, Promise!Spec, Proved

-----------------------------------------------------------------------------
(***************************************************************************)
(* What the queue records: the results in summary.json, the order and the  *)
(* quote it pays under, and the agreement of the two files.  run and       *)
(* refresh read summary.json and the batch quote once and write back what  *)
(* they hold in memory, so what is written is right only because           *)
(* batch.lock keeps everyone else away between the read and the write.     *)
(***************************************************************************)

\* The artifact of seller s is that of its saved request, which was fulfilled.
Proven(s) ==
  /\ artifact[s].request # 0
  /\ artifact[s].request = checkpoint[s]
  /\ artifact[s].request \in fulfilled[s]

\* Neither file says more than what was proved.
FilesProved ==
  /\ \A s \in Sellers : artifact[s].request # 0 => artifact[s].digest # 0
  /\ \A s \in Sellers : summary.results[s] # 0 => Proven(s)
  /\ summary.status = "complete" => \A s \in Sellers : summary.results[s] # 0

\* A child writes the artifact of a fulfilled request, and exits well after it.
ChildProves(p) ==
  /\ prover[p] = "write" => request[p] \in fulfilled[job[p]]
  /\ prover[p] = "ok" => Proven(job[p])

RunHolds(p) == kind[p] = "run" /\ pc[p] \in {"run.next", "run.record"} \cup SubmitSteps
RefreshHolds(p) == pc[p] \in {"refresh.lock", "refresh.entry", "refresh.state"}

\* Between reading summary.json and ending, a script holds batch.lock.
HoldsBatchLock(p) ==
  RunHolds(p) \/ RefreshHolds(p) \/ pc[p] \in {"run.load", "refresh.load", "unlock"}
    => batchLock = p

KnowsItsCommand(p) ==
  /\ pc[p] \in {"run.load", "run.next", "run.record"} => kind[p] = "run"
  /\ pc[p] = "batch.lock" => kind[p] \in {"run", "refresh"}
  /\ pc[p] \in {"batch.lock", "run.load"} => pos[p] = 1

\* What it has in memory is what is on disk.
IsCurrent(p) ==
  /\ RunHolds(p) \/ RefreshHolds(p) => mem[p] = summary
  /\ RunHolds(p) => mem[p].gen = batch.gen
  /\ RunHolds(p) \/ pc[p] \in {"refresh.lock", "refresh.entry"} => seen[p].gen = batch.gen
  /\ pc[p] = "refresh.state" => seen[p].gen + 1 = batch.gen

\* The entries before the one it is at are recorded, that one is not yet.
IsInOrder(p) ==
  RunHolds(p) =>
    /\ \A t \in Sellers : t < pos[p] => mem[p].results[t] # 0
    /\ pc[p] # "run.next" => mem[p].results[pos[p]] = 0

\* The digest a submission returns is that of a proved artifact.
ReturnsProof(p) ==
  pc[p] \in {"release", "run.record"} /\ outcome[p] = "ok" =>
    digest[p] # 0 /\ Proven(pos[p])

ScriptHolds(p) ==
  HoldsBatchLock(p) /\ KnowsItsCommand(p) /\ IsCurrent(p) /\ IsInOrder(p) /\ ReturnsProof(p)

\* Only a refresh between its two renames has the quote ahead of the summary.
SummaryFollowsQuote ==
  \/ crashes # 0
  \/ summary.status = "absent"
  \/ summary.gen = batch.gen
  \/ \E p \in Procs : pc[p] = "refresh.state"

QueueInv ==
  /\ Inv
  /\ FilesProved
  /\ \A p \in Procs : ChildProves(p) /\ ScriptHolds(p)
  /\ SummaryFollowsQuote

LEMMA QueueInit == Init => QueueInv
<1> SUFFICES ASSUME Init
             PROVE  QueueInv
  OBVIOUS
<1>1. Inv
  BY TypeInit, TrailInit DEF Inv
<1>2. FilesProved /\ SummaryFollowsQuote
  BY DEF Init, ProverInit, NoArtifact, NoSummary, FilesProved, SummaryFollowsQuote
<1>3. \A p \in Procs : ChildProves(p) /\ ScriptHolds(p)
  BY DEF Init, ProverInit, ChildProves, ScriptHolds, HoldsBatchLock, KnowsItsCommand,
         IsCurrent, IsInOrder, ReturnsProof, RunHolds, RefreshHolds, SubmitSteps
<1> QED
  BY <1>1, <1>2, <1>3 DEF QueueInv

-----------------------------------------------------------------------------
(* What is proved stays proved: a saved request is never replaced, and the *)
(* artifact is only ever that of the saved request.                        *)

\* The steps that touch the files of a seller.
LEMMA FilesMove ==
  ASSUME [Next]_vars
  PROVE  \/ UNCHANGED <<checkpoint, artifact, fulfilled>>
         \/ \E p \in Procs : WriteRequestCheckpoint(p) \/ WriteArtifact(p)
         \/ \E s \in Sellers : Reconcile(s) \/ Fulfil(s)
<1> USE DEF proverVars
<1>1. ASSUME NEW p \in Procs, ScriptStep(p)
      PROVE  UNCHANGED <<checkpoint, artifact, fulfilled>>
  BY <1>1 DEF ScriptStep, TakeBatchLock, BatchUnlock, RunStep, SubmitStep, RefreshStep,
     RunLoad, RunSkip, RunArtifactChanged, RunSelect, RunRecord, RunPause, RunFinish,
     SubmitCheck, SubmitAfford, SubmitLock, SubmitAmbiguous, SubmitMark, SubmitVerify,
     SubmitRelease, RefreshLoad, RefreshSeesLock, RefreshEntry, RefreshQuote, RefreshState
<1>2. ASSUME NEW p \in Procs, ProverStep(p) \/ ProverFault(p)
      PROVE  \/ UNCHANGED <<checkpoint, artifact, fulfilled>>
             \/ WriteRequestCheckpoint(p) \/ WriteArtifact(p)
  BY <1>2 DEF ProverStep, ProverFault, LoadRequestCheckpoint, RequestGroth16,
     RequestAnswerLost, RequestRefused, WaitProof, WaitProofTimesOut, ProverAborts
<1>3. CASE Operator
  BY <1>3 DEF Operator, LaunchRun, LaunchRefresh, LaunchSubmit, Launch, ReviewBatchLock,
              ReviewExecLock, TopUp
<1>4. CASE Environment
  BY <1>2, <1>4 DEF Environment, RequestFulfilled, RequestExpires, Expire, QuotesGoStale,
                    InputFails, ChildFault, OrphanExits, KilledWithChild, KilledAlone, Crash
<1>5. CASE UNCHANGED vars
  BY <1>5 DEF vars
<1> QED
  BY <1>1, <1>2, <1>3, <1>4, <1>5 DEF Next, ChildStep

ProvenStay == \A s \in Sellers : Proven(s) => Proven(s)'

LEMMA ProvenAreKept ==
  ASSUME QueueInv, [Next]_vars
  PROVE  ProvenStay
<1> USE DEF ProvenStay, Proven, QueueInv, Inv, TypeOK, ProverTypeOK
<1>1. ASSUME NEW p \in Procs, WriteRequestCheckpoint(p)
      PROVE  ProvenStay
  <2>1. checkpoint[job[p]] = 0
    BY <1>1 DEF WriteRequestCheckpoint, PaymentTrail, ChildrenPayOnce
  <2> QED
    BY <1>1, <2>1 DEF WriteRequestCheckpoint
<1>2. ASSUME NEW p \in Procs, WriteArtifact(p)
      PROVE  ProvenStay
  <2>1. request[p] = checkpoint[job[p]] /\ checkpoint[job[p]] # 0
    BY <1>2 DEF WriteArtifact, PaymentTrail, ChildrenPayOnce
  <2>2. request[p] \in fulfilled[job[p]]
    BY <1>2 DEF WriteArtifact, ChildProves
  <2>3. PICK d \in Digests :
          artifact' = [artifact EXCEPT ![job[p]] = [request |-> request[p], digest |-> d]]
    BY <1>2 DEF WriteArtifact
  <2> QED
    BY <1>2, <2>1, <2>2, <2>3 DEF WriteArtifact
<1>3. ASSUME NEW s \in Sellers, Reconcile(s)
      PROVE  ProvenStay
  BY <1>3 DEF Reconcile
<1>4. ASSUME NEW s \in Sellers, Fulfil(s)
      PROVE  ProvenStay
  BY <1>4 DEF Fulfil
<1> QED
  BY <1>1, <1>2, <1>3, <1>4, FilesMove

\* A child that is about to write or has exited well was so already, or has just
\* been given its proof, or has just written it.
LEMMA ChildMoves ==
  ASSUME TypeOK, [Next]_vars, NEW p \in Procs, prover'[p] \in {"write", "ok"}
  PROVE  \/ prover'[p] = prover[p] /\ job'[p] = job[p] /\ request'[p] = request[p]
         \/ WaitProof(p) \/ WriteArtifact(p)
<1> USE DEF TypeOK, ProverTypeOK, proverVars
<1>1. ASSUME NEW q \in Procs, ScriptStep(q)
      PROVE  prover'[p] = prover[p] /\ job'[p] = job[p] /\ request'[p] = request[p]
  BY <1>1 DEF ScriptStep, TakeBatchLock, BatchUnlock, RunStep, SubmitStep, RefreshStep,
     RunLoad, RunSkip, RunArtifactChanged, RunSelect, RunRecord, RunPause, RunFinish,
     SubmitCheck, SubmitAfford, SubmitLock, SubmitAmbiguous, SubmitMark, SubmitVerify,
     SubmitRelease, RefreshLoad, RefreshSeesLock, RefreshEntry, RefreshQuote, RefreshState,
     Spawn, Reap
<1>2. ASSUME NEW q \in Procs, ProverStep(q) \/ ProverFault(q)
      PROVE  \/ prover'[p] = prover[p] /\ job'[p] = job[p] /\ request'[p] = request[p]
             \/ WaitProof(p) \/ WriteArtifact(p)
  BY <1>2 DEF ProverStep, ProverFault, LoadRequestCheckpoint, RequestGroth16,
     RequestAnswerLost, RequestRefused, WriteRequestCheckpoint, WaitProof,
     WaitProofTimesOut, WriteArtifact, ProverAborts, Running
<1>3. CASE Operator
  BY <1>3 DEF Operator, LaunchRun, LaunchRefresh, LaunchSubmit, Launch, ReviewBatchLock,
              ReviewExecLock, Reconcile, TopUp
<1>4. CASE Environment
  <2>1. ASSUME NEW q \in Procs, Crash(q, TRUE) \/ Crash(q, FALSE) \/ OrphanExits(q)
        PROVE  prover'[p] = prover[p] /\ job'[p] = job[p] /\ request'[p] = request[p]
    BY <2>1 DEF Crash, OrphanExits, Reap
  <2> QED
    BY <1>2, <1>4, <2>1 DEF Environment, RequestFulfilled, RequestExpires, Fulfil,
                            Expire, QuotesGoStale, InputFails, ChildFault, KilledWithChild,
                            KilledAlone
<1>5. CASE UNCHANGED vars
  BY <1>5 DEF vars
<1> QED
  BY <1>1, <1>2, <1>3, <1>4, <1>5 DEF Next, ChildStep

LEMMA ChildrenStep ==
  ASSUME QueueInv, [Next]_vars, NEW p \in Procs
  PROVE  ChildProves(p)'
<1> USE DEF QueueInv, Inv, TypeOK, ProverTypeOK
<1>1. job[p] \in Sellers
  OBVIOUS
<1>2. \A s \in Sellers : fulfilled[s] \subseteq fulfilled'[s]
  BY FilesMove DEF Reconcile, Fulfil, WriteRequestCheckpoint, WriteArtifact
<1>3. CASE prover'[p] = prover[p] /\ job'[p] = job[p] /\ request'[p] = request[p]
  BY <1>1, <1>2, <1>3, ProvenAreKept DEF ChildProves, ProvenStay
<1>4. CASE WaitProof(p)
  BY <1>1, <1>4 DEF WaitProof, ChildProves
<1>5. CASE WriteArtifact(p)
  <2>1. request[p] = checkpoint[job[p]] /\ checkpoint[job[p]] # 0
    BY <1>5 DEF WriteArtifact, PaymentTrail, ChildrenPayOnce
  <2>2. request[p] \in fulfilled[job[p]]
    BY <1>5 DEF WriteArtifact, ChildProves
  <2>3. PICK d \in Digests :
          artifact' = [artifact EXCEPT ![job[p]] = [request |-> request[p], digest |-> d]]
    BY <1>5 DEF WriteArtifact
  <2> QED
    BY <1>1, <1>5, <2>1, <2>2, <2>3 DEF WriteArtifact, ChildProves, Proven
<1> QED
  BY <1>3, <1>4, <1>5, ChildMoves DEF ChildProves

-----------------------------------------------------------------------------
(* One script moves, the others hold what they held.                       *)

Stays(q) ==
  /\ pc'[q] = pc[q] /\ kind'[q] = kind[q] /\ pos'[q] = pos[q] /\ seen'[q] = seen[q]
  /\ mem'[q] = mem[q] /\ outcome'[q] = outcome[q] /\ digest'[q] = digest[q]

\* The quote and the summary do not change under a script that holds batch.lock.
LEMMA StaysHolding ==
  ASSUME QueueInv, NEW q \in Procs, Stays(q), ProvenStay,
         batchLock' = batchLock \/ batchLock # q,
         UNCHANGED <<batch, summary>> \/ batchLock # q
  PROVE  ScriptHolds(q)'
<1> USE DEF QueueInv, Stays, RunHolds, RefreshHolds
<1>1. HoldsBatchLock(q)' /\ KnowsItsCommand(q)'
  BY DEF ScriptHolds, HoldsBatchLock, KnowsItsCommand
<1>2. IsCurrent(q)' /\ IsInOrder(q)'
  BY DEF ScriptHolds, HoldsBatchLock, IsCurrent, IsInOrder
<1>3. ReturnsProof(q)'
  BY DEF ScriptHolds, ReturnsProof, ProvenStay, Inv, TypeOK, AtAnEntry, SubmitSteps
<1> QED
  BY <1>1, <1>2, <1>3 DEF ScriptHolds

\* A script that moves away from what the queue relies on.
LEMMA OutsideHolds ==
  ASSUME NEW p \in Procs,
         \/ pc'[p] = "idle"
         \/ pc'[p] = "unlock" /\ batchLock' = p
         \/ kind'[p] = "submit" /\ pc'[p] \in SubmitSteps \ {"release"}
  PROVE  ScriptHolds(p)'
BY DEF ScriptHolds, HoldsBatchLock, KnowsItsCommand, IsCurrent, IsInOrder, ReturnsProof,
       RunHolds, RefreshHolds, SubmitSteps

Rest == FilesProved /\ (\A p \in Procs : ScriptHolds(p)) /\ SummaryFollowsQuote

\* A script that writes neither the quote nor the summary.
LEMMA ScriptAside ==
  ASSUME QueueInv, NEW p \in Procs, ProvenStay, ScriptHolds(p)',
         UNCHANGED <<batch, summary, artifact>>,
         batchLock' = batchLock \/ batchLock \in {None, Stale, p},
         \A q \in Procs \ {p} : Stays(q),
         (crashes' = crashes /\ pc[p] # "refresh.state") \/ crashes' # 0
  PROVE  Rest'
<1>1. \A q \in Procs : ScriptHolds(q)'
  BY StaysHolding, BatchAssumption
<1>2. FilesProved'
  BY DEF QueueInv, FilesProved, ProvenStay
<1>3. SummaryFollowsQuote'
  BY DEF QueueInv, SummaryFollowsQuote, Stays
<1> QED
  BY <1>1, <1>2, <1>3 DEF Rest

\* A script that writes the quote or the summary, or both, under batch.lock.
LEMMA ScriptWrites ==
  ASSUME QueueInv, NEW p \in Procs, ProvenStay, ScriptHolds(p)', batchLock = p,
         UNCHANGED <<batchLock, artifact>>,
         \A q \in Procs \ {p} : Stays(q),
         \A s \in Sellers : summary'.results[s] # 0 => Proven(s)',
         summary'.status = "complete" => \A s \in Sellers : summary'.results[s] # 0,
         \/ summary'.status = "absent"
         \/ summary'.gen = batch'.gen
         \/ pc'[p] = "refresh.state"
  PROVE  Rest'
<1>1. \A q \in Procs : ScriptHolds(q)'
  BY StaysHolding
<1>2. FilesProved'
  BY DEF QueueInv, FilesProved, ProvenStay
<1>3. SummaryFollowsQuote'
  BY DEF SummaryFollowsQuote
<1> QED
  BY <1>1, <1>2, <1>3 DEF Rest

\* A step of no script.
LEMMA NoScript ==
  ASSUME QueueInv, ProvenStay, UNCHANGED <<procVars, batch, summary, crashes>>,
         batchLock' = batchLock \/ batchLock = Stale,
         \A s \in Sellers : artifact'[s].request # 0 => artifact'[s].digest # 0
  PROVE  Rest'
<1>1. \A q \in Procs : ScriptHolds(q)'
  BY StaysHolding, BatchAssumption DEF Stays, procVars
<1>2. FilesProved'
  BY DEF QueueInv, FilesProved, ProvenStay
<1>3. SummaryFollowsQuote'
  BY DEF QueueInv, SummaryFollowsQuote, procVars
<1> QED
  BY <1>1, <1>2, <1>3 DEF Rest

-----------------------------------------------------------------------------
(* The actions.                                                            *)

LEMMA EndHolds ==
  ASSUME QueueInv, NEW p \in Procs, End(p)
  PROVE  ScriptHolds(p)' /\ \A q \in Procs \ {p} : Stays(q)
<1>1. pc'[p] = "idle" /\ \A q \in Procs \ {p} : Stays(q)
  BY DEF End, Stays, QueueInv, Inv, TypeOK, ScriptsTypeOK
<1> QED
  BY <1>1, OutsideHolds

LEMMA RunRest ==
  ASSUME QueueInv, NEW p \in Procs, RunStep(p), ProvenStay
  PROVE  Rest'
<1> USE DEF Goto, RunHolds, RefreshHolds, SubmitSteps
<1>1. pc[p] \in {"run.load", "run.next", "run.record"} /\ kind[p] = "run" /\ batchLock = p
      /\ UNCHANGED <<batch, batchLock, artifact, crashes>>
  BY DEF RunStep, RunLoad, RunSkip, RunArtifactChanged, RunSelect, RunRecord, RunPause,
         RunFinish, QueueInv, ScriptHolds, HoldsBatchLock, KnowsItsCommand,
         proverVars, fileVars, envVars
<1>2. /\ batch \in Quotes /\ summary \in Summaries /\ seen[p] \in Quotes
      /\ mem[p] \in Summaries /\ pos[p] \in 1 .. N + 1 /\ mem \in [Procs -> Summaries]
  BY DEF QueueInv, Inv, TypeOK, FilesTypeOK, ScriptsTypeOK
<1>3. pc[p] # "run.load" =>
        /\ mem[p] = summary /\ mem[p].gen = batch.gen /\ seen[p].gen = batch.gen
        /\ \A t \in Sellers : t < pos[p] => mem[p].results[t] # 0
  BY <1>1 DEF QueueInv, ScriptHolds, IsCurrent, IsInOrder
<1>4. \A q \in Procs \ {p} : Stays(q)
  BY DEF RunStep, RunLoad, RunSkip, RunArtifactChanged, RunSelect, RunRecord, RunPause,
         RunFinish, Persist, Stays, QueueInv, Inv, TypeOK, ScriptsTypeOK
<1> USE DEF QueueInv, Inv, TypeOK, ScriptsTypeOK
<1>5. CASE RunLoad(p)
  <2>1. CASE Accepted(p)
    <3>1. PICK x : x = [gen |-> seen[p].gen, status |-> "running", results |-> summary.results]
      OBVIOUS
    <3>2. x.gen = batch.gen /\ x.status = "running" /\ x.results = summary.results
      BY <2>1, <3>1 DEF Accepted
    <3>3. /\ pc'[p] = "run.next" /\ kind'[p] = "run" /\ pos'[p] = 1 /\ summary' = x
          /\ mem'[p] = x /\ seen'[p] = seen[p]
      BY <1>5, <2>1, <3>1 DEF RunLoad, Persist, ScriptHolds, KnowsItsCommand
    <3>4. ScriptHolds(p)'
      BY <1>1, <2>1, <3>2, <3>3
         DEF Accepted, ScriptHolds, HoldsBatchLock, KnowsItsCommand, IsCurrent, IsInOrder,
             ReturnsProof, Sellers
    <3> QED
      BY <1>1, <1>4, <3>2, <3>3, <3>4, ScriptWrites DEF FilesProved, ProvenStay
  <2>2. CASE ~Accepted(p)
    <3>1. pc'[p] = "unlock" /\ UNCHANGED summary
      BY <1>5, <2>2 DEF RunLoad
    <3> QED
      BY <1>1, <1>4, <3>1, OutsideHolds, ScriptAside
  <2> QED
    BY <2>1, <2>2
<1>6. CASE RunSkip(p)
  <2>1. /\ pc'[p] = "run.next" /\ pos'[p] = pos[p] + 1 /\ kind'[p] = "run" /\ mem'[p] = mem[p]
        /\ seen'[p] = seen[p] /\ summary' = summary /\ mem[p].results[pos[p]] # 0
        /\ pc[p] = "run.next"
    BY <1>1, <1>6 DEF RunSkip, fileVars
  <2>2. ScriptHolds(p)'
    BY <1>1, <1>2, <1>3, <2>1
       DEF ScriptHolds, HoldsBatchLock, KnowsItsCommand, IsCurrent, IsInOrder, ReturnsProof,
           Sellers
  <2> QED
    BY <1>1, <1>4, <2>1, <2>2, ScriptAside
<1>7. CASE RunArtifactChanged(p)
  <2>1. pc'[p] = "unlock" /\ UNCHANGED summary
    BY <1>7 DEF RunArtifactChanged, fileVars
  <2> QED
    BY <1>1, <1>4, <2>1, OutsideHolds, ScriptAside
<1>8. CASE RunSelect(p)
  <2>1. /\ pc'[p] = "check" /\ pos'[p] = pos[p] /\ kind'[p] = "run" /\ mem'[p] = mem[p]
        /\ seen'[p] = seen[p] /\ summary' = summary /\ mem[p].results[pos[p]] = 0
    BY <1>1, <1>3, <1>8 DEF RunSelect, Persist
  <2>2. ScriptHolds(p)'
    BY <1>1, <1>3, <1>8, <2>1
       DEF RunSelect, ScriptHolds, HoldsBatchLock, KnowsItsCommand, IsCurrent, IsInOrder,
           ReturnsProof
  <2> QED
    BY <1>1, <1>4, <2>1, <2>2, ScriptAside
<1>9. CASE RunRecord(p)
  <2>1. pos[p] \in Sellers /\ digest[p] # 0 /\ Proven(pos[p])
    BY <1>9 DEF RunRecord, AtAnEntry, ScriptHolds, ReturnsProof
  <2>2. PICK x : x = [mem[p] EXCEPT !.results[pos[p]] = digest[p]]
    OBVIOUS
  <2>3. /\ x.gen = mem[p].gen /\ x.status = mem[p].status
        /\ \A t \in Sellers : x.results[t] = IF t = pos[p] THEN digest[p] ELSE mem[p].results[t]
    BY <1>2, <2>1, <2>2 DEF Summaries
  <2>4. /\ pc'[p] = "run.next" /\ pos'[p] = pos[p] + 1 /\ kind'[p] = "run" /\ mem'[p] = x
        /\ seen'[p] = seen[p] /\ summary' = x /\ pc[p] = "run.record"
    BY <1>1, <1>9, <2>2 DEF RunRecord, Persist
  <2>5. ScriptHolds(p)'
    <3>1. \A t \in Sellers : t < pos[p] + 1 => t < pos[p] \/ t = pos[p]
      BY <1>2 DEF Sellers
    <3>2. \A t \in Sellers : t < pos[p] + 1 => x.results[t] # 0
      BY <1>3, <1>9, <2>1, <2>3, <3>1 DEF RunRecord, AtAnEntry
    <3>3. HoldsBatchLock(p)' /\ KnowsItsCommand(p)' /\ ReturnsProof(p)'
      BY <1>1, <2>4 DEF HoldsBatchLock, KnowsItsCommand, ReturnsProof
    <3>4. IsCurrent(p)'
      BY <1>1, <1>3, <2>3, <2>4 DEF IsCurrent
    <3>5. IsInOrder(p)'
      BY <2>4, <3>2 DEF IsInOrder
    <3> QED
      BY <3>3, <3>4, <3>5 DEF ScriptHolds
  <2>6. \A s \in Sellers : summary'.results[s] # 0 => Proven(s)'
    BY <1>3, <2>1, <2>3, <2>4 DEF FilesProved, ProvenStay
  <2>7. summary'.status = "complete" => \A s \in Sellers : summary'.results[s] # 0
    BY <1>3, <2>1, <2>3, <2>4 DEF FilesProved
  <2> QED
    BY <1>1, <1>3, <1>4, <2>3, <2>4, <2>5, <2>6, <2>7, ScriptWrites
<1>10. ASSUME NEW status, pc'[p] = "unlock", summary' = [mem[p] EXCEPT !.status = status],
              pc[p] # "run.load",
              status = "complete" => \A s \in Sellers : mem[p].results[s] # 0
       PROVE  Rest'
  <2>1. summary'.gen = mem[p].gen /\ summary'.results = mem[p].results
        /\ summary'.status = status
    BY <1>2, <1>10 DEF Summaries
  <2>2. ScriptHolds(p)'
    BY <1>1, <1>10, OutsideHolds
  <2> QED
    BY <1>1, <1>3, <1>4, <1>10, <2>1, <2>2, ScriptWrites DEF FilesProved, ProvenStay
<1>11. CASE RunPause(p)
  <2>1. PICK status \in {"paused-insufficient-funds", "needs-attention"} :
          summary' = [mem[p] EXCEPT !.status = status]
    BY <1>11 DEF RunPause, Persist
  <2>2. pc'[p] = "unlock" /\ pc[p] # "run.load" /\ status # "complete"
    BY <1>11 DEF RunPause
  <2> QED
    BY <1>10, <2>1, <2>2
<1>12. CASE RunFinish(p)
  <2>1. \A s \in Sellers : mem[p].results[s] # 0
    BY <1>3, <1>12, ProverAssumption DEF RunFinish, Sellers
  <2> QED
    BY <1>10, <1>12, <2>1 DEF RunFinish, Persist
<1> QED
  BY <1>5, <1>6, <1>7, <1>8, <1>9, <1>11, <1>12 DEF RunStep

LEMMA ReturnHolds ==
  ASSUME QueueInv, NEW p \in Procs, pc[p] \in SubmitSteps, NEW how, SubmitReturns(p, how),
         ProvenStay, UNCHANGED <<batch, summary, batchLock>>,
         how = "ok" => digest[p] # 0 /\ Proven(pos[p])
  PROVE  ScriptHolds(p)' /\ \A q \in Procs \ {p} : Stays(q)
<1>1. CASE End(p)
  BY <1>1, EndHolds
<1>2. CASE ~End(p)
  <2>1. /\ kind[p] = "run" /\ pc'[p] = "run.record" /\ outcome'[p] = how
        /\ kind'[p] = kind[p] /\ pos'[p] = pos[p] /\ seen'[p] = seen[p] /\ mem'[p] = mem[p]
        /\ digest'[p] = digest[p] /\ \A q \in Procs \ {p} : Stays(q)
    BY <1>2 DEF SubmitReturns, Stays, QueueInv, Inv, TypeOK, ScriptsTypeOK
  <2>2. pos[p] \in Sellers
    BY DEF QueueInv, Inv, TypeOK, AtAnEntry
  <2>3. ScriptHolds(p)'
    BY <2>1, <2>2 DEF QueueInv, ScriptHolds, HoldsBatchLock, KnowsItsCommand, IsCurrent, IsInOrder,
           ReturnsProof, ProvenStay, RunHolds, RefreshHolds, SubmitSteps
  <2> QED
    BY <2>1, <2>3
<1> QED
  BY <1>1, <1>2

\* From one step of submit to the next: only what submit returned may change.
LEMMA SubmitHolds ==
  ASSUME QueueInv, NEW p \in Procs, NEW from \in SubmitSteps, NEW to \in SubmitSteps,
         Goto(p, from, to), UNCHANGED <<batch, summary, batchLock, kind, pos, seen, mem>>,
         \A q \in Procs \ {p} : outcome'[q] = outcome[q] /\ digest'[q] = digest[q],
         to = "release" /\ outcome'[p] = "ok" => digest'[p] # 0 /\ Proven(pos[p])'
  PROVE  ScriptHolds(p)' /\ \A q \in Procs \ {p} : Stays(q)
<1>1. /\ pc[p] = from /\ pc'[p] = to /\ \A q \in Procs \ {p} : Stays(q)
  BY DEF Goto, Stays, QueueInv, Inv, TypeOK, ScriptsTypeOK
<1>2. ScriptHolds(p)'
  BY <1>1 DEF QueueInv, ScriptHolds, HoldsBatchLock, KnowsItsCommand, IsCurrent, IsInOrder,
              ReturnsProof, RunHolds, RefreshHolds, SubmitSteps
<1> QED
  BY <1>1, <1>2

LEMMA SubmitRest ==
  ASSUME QueueInv, NEW p \in Procs, SubmitStep(p), ProvenStay
  PROVE  Rest'
<1>1. UNCHANGED <<batch, summary, batchLock, artifact, crashes>> /\ pc[p] \in SubmitSteps
  BY DEF SubmitStep, SubmitCheck, SubmitAfford, SubmitLock, SubmitAmbiguous, SubmitMark,
         SubmitVerify, SubmitRelease, Goto, SubmitSteps, proverVars, fileVars, envVars
<1>2. SUFFICES ScriptHolds(p)' /\ \A q \in Procs \ {p} : Stays(q)
  <2>1. pc[p] # "refresh.state"
    BY <1>1 DEF SubmitSteps
  <2> QED
    BY <1>1, <2>1, ScriptAside
<1>3. ASSUME NEW how \in {"error", "funds"}, SubmitReturns(p, how)
      PROVE  ScriptHolds(p)' /\ \A q \in Procs \ {p} : Stays(q)
  BY <1>1, <1>3, ReturnHolds
<1>4. ASSUME NEW from \in SubmitSteps, NEW to \in SubmitSteps, to # "release",
             Goto(p, from, to), UNCHANGED <<kind, pos, seen, mem, outcome, digest>>
      PROVE  ScriptHolds(p)' /\ \A q \in Procs \ {p} : Stays(q)
  BY <1>1, <1>4, SubmitHolds
<1>5. CASE SubmitCheck(p)
  BY <1>4, <1>5 DEF SubmitCheck, SubmitSteps
<1>6. CASE SubmitAfford(p)
  BY <1>3, <1>4, <1>6 DEF SubmitAfford, SubmitSteps
<1>7. CASE SubmitLock(p)
  BY <1>3, <1>4, <1>7 DEF SubmitLock, SubmitSteps
<1>8. CASE SubmitAmbiguous(p)
  <2>1. outcome'[p] = "error" /\ \A q \in Procs \ {p} : outcome'[q] = outcome[q]
    BY <1>8 DEF SubmitAmbiguous, QueueInv, Inv, TypeOK, ScriptsTypeOK
  <2>2. Goto(p, "mark", "release") /\ UNCHANGED <<kind, pos, seen, mem, digest>>
    BY <1>8 DEF SubmitAmbiguous
  <2>3. "mark" \in SubmitSteps /\ "release" \in SubmitSteps
    BY DEF SubmitSteps
  <2> QED
    BY <1>1, <2>1, <2>2, <2>3, SubmitHolds
<1>9. CASE SubmitMark(p)
  BY <1>4, <1>9 DEF SubmitMark, SubmitSteps
<1>10. CASE SubmitVerify(p)
  <2>1. pos[p] \in Sellers /\ (prover[p] # "none" => job[p] = pos[p])
    BY <1>1, <1>10 DEF SubmitVerify, Goto, QueueInv, Inv, TypeOK, AtAnEntry, PaymentTrail,
                       LocksAreOwned
  <2>2. prover[p] = "ok" => artifact[pos[p]].digest # 0 /\ Proven(pos[p])
    BY <2>1 DEF QueueInv, ChildProves, FilesProved, Proven
  <2>3. \A q \in Procs \ {p} : outcome'[q] = outcome[q] /\ digest'[q] = digest[q]
    BY <1>10 DEF SubmitVerify, QueueInv, Inv, TypeOK, ScriptsTypeOK
  <2>4. outcome'[p] = "ok" => digest'[p] # 0 /\ Proven(pos[p])
    BY <1>10, <2>2 DEF SubmitVerify, QueueInv, Inv, TypeOK, ScriptsTypeOK
  <2>5. Goto(p, "prove", "release") /\ UNCHANGED <<kind, pos, seen, mem>>
    BY <1>10 DEF SubmitVerify
  <2>6. outcome'[p] = "ok" => digest'[p] # 0 /\ Proven(pos[p])'
    BY <2>1, <2>4, <2>5 DEF ProvenStay, Proven
  <2>7. "prove" \in SubmitSteps /\ "release" \in SubmitSteps
    BY DEF SubmitSteps
  <2> QED
    BY <1>1, <2>3, <2>5, <2>6, <2>7, SubmitHolds
<1>11. CASE SubmitRelease(p)
  <2>1. outcome[p] = "ok" => digest[p] # 0 /\ Proven(pos[p])
    BY <1>11 DEF SubmitRelease, QueueInv, ScriptHolds, ReturnsProof
  <2> QED
    BY <1>1, <1>11, <2>1, ReturnHolds DEF SubmitRelease
<1> QED
  BY <1>5, <1>6, <1>7, <1>8, <1>9, <1>10, <1>11 DEF SubmitStep

LEMMA RefreshRest ==
  ASSUME QueueInv, NEW p \in Procs, RefreshStep(p), ProvenStay
  PROVE  Rest'
<1> USE DEF Goto, RunHolds, RefreshHolds, SubmitSteps
<1>1. /\ pc[p] \in {"refresh.load", "refresh.lock", "refresh.entry", "refresh.state"}
      /\ batchLock = p /\ UNCHANGED <<batchLock, artifact, crashes, kind, seen>>
  BY DEF RefreshStep, RefreshLoad, RefreshSeesLock, RefreshEntry, RefreshQuote, RefreshState,
         QueueInv, ScriptHolds, HoldsBatchLock, proverVars, fileVars, envVars
<1>2. \A q \in Procs \ {p} : Stays(q)
  BY DEF RefreshStep, RefreshLoad, RefreshSeesLock, RefreshEntry, RefreshQuote, RefreshState,
         Stays, QueueInv, Inv, TypeOK, ScriptsTypeOK
<1>3. pc[p] # "refresh.load" => mem[p] = summary
  BY <1>1 DEF QueueInv, ScriptHolds, IsCurrent
<1>4. pc[p] \in {"refresh.lock", "refresh.entry"} => seen[p].gen = batch.gen
  BY DEF QueueInv, ScriptHolds, IsCurrent
<1>5. /\ mem \in [Procs -> Summaries] /\ pc \in [Procs -> Steps] /\ seen \in [Procs -> Quotes]
      /\ batch \in Quotes /\ summary \in Summaries
  BY DEF QueueInv, Inv, TypeOK, FilesTypeOK, ScriptsTypeOK
<1>6. ASSUME pc'[p] = "unlock", UNCHANGED <<batch, summary>>, pc[p] # "refresh.state"
      PROVE  Rest'
  BY <1>1, <1>2, <1>6, OutsideHolds, ScriptAside
<1>7. ASSUME pc'[p] \in {"refresh.lock", "refresh.entry"}, UNCHANGED <<batch, summary>>,
             mem'[p] = summary, seen[p].gen = batch.gen, pc[p] # "refresh.state"
      PROVE  Rest'
  <2>1. ScriptHolds(p)'
    BY <1>1, <1>7 DEF ScriptHolds, HoldsBatchLock, KnowsItsCommand, IsCurrent,
       IsInOrder, ReturnsProof
  <2> QED
    BY <1>1, <1>2, <1>7, <2>1, ScriptAside
<1>8. CASE RefreshLoad(p)
  BY <1>1, <1>5, <1>6, <1>7, <1>8 DEF RefreshLoad, Accepted, fileVars
<1>9. CASE RefreshSeesLock(p)
  BY <1>3, <1>4, <1>5, <1>6, <1>7, <1>9 DEF RefreshSeesLock, fileVars
<1>10. CASE RefreshEntry(p)
  BY <1>3, <1>4, <1>5, <1>6, <1>7, <1>10 DEF RefreshEntry, fileVars
<1>11. CASE RefreshQuote(p)
  <2>1. /\ pc[p] = "refresh.lock" /\ pc'[p] = "refresh.state" /\ mem'[p] = mem[p]
        /\ summary' = summary
    BY <1>5, <1>11 DEF RefreshQuote
  <2>2. batch'.gen = seen[p].gen + 1
    BY <1>11 DEF RefreshQuote, Repriced
  <2>3. ScriptHolds(p)'
    BY <1>1, <1>3, <2>1, <2>2 DEF ScriptHolds, HoldsBatchLock, KnowsItsCommand, IsCurrent,
       IsInOrder, ReturnsProof
  <2> QED
    BY <1>1, <1>2, <2>1, <2>3, ScriptWrites DEF QueueInv, FilesProved, ProvenStay
<1>12. CASE RefreshState(p)
  <2>1. pc[p] = "refresh.state" /\ pc'[p] = "unlock" /\ mem[p] = summary /\ batch' = batch
    BY <1>3, <1>5, <1>12 DEF RefreshState
  <2>2. seen[p].gen + 1 = batch.gen
    BY <2>1 DEF QueueInv, ScriptHolds, IsCurrent
  <2>3. \/ summary.status = "absent" /\ summary' = summary
        \/ /\ summary'.gen = batch.gen /\ summary'.results = summary.results
           /\ summary'.status = "complete" => summary.status = "complete"
    BY <1>12, <2>1, <2>2 DEF RefreshState
  <2>4. ScriptHolds(p)'
    BY <1>1, <2>1, OutsideHolds
  <2> QED
    BY <1>1, <1>2, <2>1, <2>3, <2>4, ScriptWrites DEF QueueInv, FilesProved, ProvenStay
<1> QED
  BY <1>8, <1>9, <1>10, <1>11, <1>12 DEF RefreshStep

LEMMA LaunchRest ==
  ASSUME QueueInv, NEW p \in Procs, NEW k \in Kinds, NEW s \in Sellers, Launch(p, k, s),
         ProvenStay
  PROVE  Rest'
<1>1. /\ pc[p] = "idle" /\ UNCHANGED <<batch, summary, batchLock, artifact, crashes>>
      /\ \A q \in Procs \ {p} : Stays(q)
  BY DEF Launch, Goto, Stays, QueueInv, Inv, TypeOK, ScriptsTypeOK, proverVars, fileVars, envVars
<1>2. kind'[p] = k /\ (IF k = "submit" THEN pc'[p] = "check"
                       ELSE pc'[p] = "batch.lock" /\ pos'[p] = 1)
  BY DEF Launch, Goto, QueueInv, Inv, TypeOK, ScriptsTypeOK
<1>3. ScriptHolds(p)'
  BY <1>2 DEF ScriptHolds, HoldsBatchLock, KnowsItsCommand, IsCurrent, IsInOrder, ReturnsProof,
              RunHolds, RefreshHolds, SubmitSteps, Kinds
<1> QED
  BY <1>1, <1>3, ScriptAside

LEMMA LockRest ==
  ASSUME QueueInv, NEW p \in Procs, TakeBatchLock(p) \/ BatchUnlock(p), ProvenStay
  PROVE  Rest'
<1>1. /\ pc[p] # "refresh.state" /\ UNCHANGED <<batch, summary, artifact, crashes>>
      /\ batchLock' = batchLock \/ batchLock \in {None, p}
  BY DEF TakeBatchLock, BatchUnlock, proverVars, envVars, QueueInv, ScriptHolds, HoldsBatchLock
<1>2. CASE End(p)
  BY <1>1, <1>2, EndHolds, ScriptAside
<1>3. CASE ~End(p)
  <2>1. /\ pc[p] = "batch.lock" /\ batchLock' = p /\ kind'[p] = kind[p] /\ pos'[p] = pos[p]
        /\ pc'[p] = IF kind[p] = "run" THEN "run.load" ELSE "refresh.load"
        /\ \A q \in Procs \ {p} : Stays(q)
    BY <1>3 DEF TakeBatchLock, BatchUnlock, Goto, Stays, QueueInv, Inv, TypeOK, ScriptsTypeOK
  <2>2. ScriptHolds(p)'
    BY <2>1 DEF QueueInv, ScriptHolds, HoldsBatchLock, KnowsItsCommand, IsCurrent, IsInOrder,
                ReturnsProof, RunHolds, RefreshHolds, SubmitSteps
  <2> QED
    BY <1>1, <2>1, <2>2, ScriptAside
<1> QED
  BY <1>2, <1>3

\* A kill between the two renames of refresh leaves the summary behind: from then on
\* crashes is not 0.
LEMMA CrashRest ==
  ASSUME QueueInv, NEW p \in Procs, NEW childDies \in BOOLEAN, Crash(p, childDies), ProvenStay
  PROVE  Rest'
<1>1. crashes' # 0
  BY DEF Crash, QueueInv, Inv, TypeOK
<1>2. /\ UNCHANGED <<batch, summary, artifact>> /\ End(p)
      /\ batchLock' = batchLock \/ batchLock = p
  BY DEF Crash
<1> QED
  BY <1>1, <1>2, EndHolds, ScriptAside

LEMMA InputFailsRest ==
  ASSUME QueueInv, NEW p \in Procs, InputFails(p), ProvenStay
  PROVE  Rest'
<1>1. /\ pc[p] \in {"check", "afford", "refresh.entry"}
      /\ UNCHANGED <<batch, summary, batchLock, artifact, crashes>>
  BY DEF InputFails, Goto, proverVars, fileVars
<1>2. CASE pc[p] \in {"check", "afford"} /\ SubmitReturns(p, "error")
  <2>1. ScriptHolds(p)' /\ \A q \in Procs \ {p} : Stays(q)
    BY <1>1, <1>2, ReturnHolds DEF SubmitSteps
  <2> QED
    BY <1>1, <2>1, ScriptAside
<1>3. CASE Goto(p, "refresh.entry", "unlock")
           /\ UNCHANGED <<kind, pos, seen, mem, resuming, outcome, digest>>
  <2>1. pc'[p] = "unlock" /\ batchLock' = p /\ \A q \in Procs \ {p} : Stays(q)
    BY <1>1, <1>3 DEF Goto, Stays, QueueInv, Inv, TypeOK, ScriptsTypeOK, ScriptHolds,
                      HoldsBatchLock, RefreshHolds
  <2> QED
    BY <1>1, <2>1, OutsideHolds, ScriptAside
<1> QED
  BY <1>2, <1>3 DEF InputFails

\* A child writes an artifact with a digest.
LEMMA ArtifactsAreWhole ==
  ASSUME QueueInv, NEW p \in Procs, ProverStep(p) \/ ProverFault(p)
  PROVE  \A s \in Sellers : artifact'[s].request # 0 => artifact'[s].digest # 0
<1>1. CASE UNCHANGED artifact
  BY <1>1 DEF QueueInv, FilesProved
<1>2. CASE WriteArtifact(p)
  <2>1. PICK d \in Digests :
          artifact' = [artifact EXCEPT ![job[p]] = [request |-> request[p], digest |-> d]]
    BY <1>2 DEF WriteArtifact
  <2>2. d # 0
    BY ProverAssumption
  <2> QED
    BY <2>1, <2>2 DEF QueueInv, Inv, TypeOK, ProverTypeOK, FilesProved
<1> QED
  BY <1>1, <1>2 DEF ProverStep, ProverFault, LoadRequestCheckpoint, RequestGroth16,
     RequestAnswerLost, RequestRefused, WriteRequestCheckpoint, WaitProof,
     WaitProofTimesOut, ProverAborts

LEMMA NoScriptRest ==
  ASSUME QueueInv, ProvenStay,
         \/ \E p \in Procs : ChildStep(p) \/ ChildFault(p) \/ OrphanExits(p)
         \/ ReviewBatchLock \/ QuotesGoStale
         \/ \E s \in Sellers : ReviewExecLock(s) \/ Reconcile(s)
         \/ \E s \in Sellers : RequestFulfilled(s) \/ RequestExpires(s)
         \/ TopUp /\ UNCHANGED scriptVars
  PROVE  Rest'
<1>1. UNCHANGED <<procVars, batch, summary, crashes>>
      /\ (batchLock' = batchLock \/ batchLock = Stale)
  BY DEF ChildStep, ChildFault, OrphanExits, ReviewBatchLock, QuotesGoStale, ReviewExecLock,
         Reconcile, RequestFulfilled, RequestExpires, scriptVars, fileVars, envVars
<1>2. \A s \in Sellers : artifact'[s].request # 0 => artifact'[s].digest # 0
  <2>1. CASE UNCHANGED artifact
    BY <2>1 DEF QueueInv, FilesProved
  <2>2. CASE \E p \in Procs : ProverStep(p) \/ ProverFault(p)
    BY <2>2, ArtifactsAreWhole
  <2> QED
    BY <2>1, <2>2 DEF ChildStep, ChildFault, OrphanExits, ReviewBatchLock, QuotesGoStale,
       ReviewExecLock, Reconcile, RequestFulfilled, RequestExpires, Fulfil, Expire, TopUp,
       proverVars
<1> QED
  BY <1>1, <1>2, NoScript

LEMMA QueueStep == QueueInv /\ [Next]_vars => QueueInv'
<1> SUFFICES ASSUME QueueInv, [Next]_vars
             PROVE  QueueInv'
  OBVIOUS
<1>1. Inv' /\ ProvenStay /\ \A p \in Procs : ChildProves(p)'
  BY InvStep, ProvenAreKept, ChildrenStep DEF QueueInv
<1>2. Rest'
  <2>1. ASSUME NEW p \in Procs, ScriptStep(p)
        PROVE  Rest'
    BY <1>1, <2>1, LockRest, RunRest, SubmitRest, RefreshRest DEF ScriptStep
  <2>2. ASSUME NEW p \in Procs, LaunchRun(p) \/ LaunchRefresh(p) \/ LaunchSubmit(p)
        PROVE  Rest'
    BY <1>1, <2>2, LaunchRest, Constants, BatchAssumption
       DEF LaunchRun, LaunchRefresh, LaunchSubmit, Kinds
  <2>3. ASSUME NEW p \in Procs, InputFails(p) \/ KilledWithChild(p) \/ KilledAlone(p)
        PROVE  Rest'
    BY <1>1, <2>3, InputFailsRest, CrashRest DEF KilledWithChild, KilledAlone
  <2>4. CASE UNCHANGED vars
    BY <1>1, <2>4, NoScript DEF vars, proverVars, fileVars, envVars, QueueInv, FilesProved
  <2> QED
    BY <1>1, <2>1, <2>2, <2>3, <2>4, NoScriptRest DEF Next, Operator, Environment
<1> QED
  BY <1>1, <1>2 DEF QueueInv, Rest

LEMMA QueueInvariance == Spec => []QueueInv
BY QueueInit, QueueStep, PTL DEF Spec

-----------------------------------------------------------------------------

\* summary.json never lists a seller whose saved, paid request was not fulfilled and
\* turned into the artifact, and is "complete" only with every seller in it: through
\* kills, replaced artifacts, refreshes and any number of scripts.
THEOREM RecordedProved == Spec => []RecordedIsProved
<1>1. QueueInv => RecordedIsProved
  BY DEF QueueInv, FilesProved, Proven, RecordedIsProved
<1> QED
  BY <1>1, QueueInvariance, PTL

\* When run is about to pay for an entry, every entry before it is recorded on disk,
\* and the quote it read when it started is still the approved one.
THEOREM PaysInOrder == Spec => []PaysInOrderUnderCurrentQuote
<1>1. QueueInv => PaysInOrderUnderCurrentQuote
  <2> SUFFICES ASSUME QueueInv, NEW p \in Procs,
                      prover[p] = "request", pc[p] = "prove", kind[p] = "run"
               PROVE  /\ \A t \in 1 .. job[p] - 1 : summary.results[t] # 0
                      /\ seen[p].gen = batch.gen
    BY DEF PaysInOrderUnderCurrentQuote
  <2>1. pos[p] = job[p] /\ job[p] \in Sellers
    BY DEF QueueInv, Inv, TypeOK, ProverTypeOK, PaymentTrail, LocksAreOwned
  <2>2. RunHolds(p)
    BY DEF RunHolds, SubmitSteps
  <2>3. seen[p].gen = batch.gen /\ mem[p] = summary
    BY <2>2 DEF QueueInv, ScriptHolds, IsCurrent
  <2>4. \A t \in Sellers : t < job[p] => summary.results[t] # 0
    BY <2>1, <2>2, <2>3 DEF QueueInv, ScriptHolds, IsInOrder
  <2>5. \A t \in 1 .. job[p] - 1 : t \in Sellers /\ t < job[p]
    BY <2>1, ProverAssumption DEF Sellers
  <2> QED
    BY <2>3, <2>4, <2>5
<1> QED
  BY <1>1, QueueInvariance, PTL

\* With every lock gone and no script running, the launcher accepts the files it
\* finds, unless a script was killed: only a kill between the two renames of refresh
\* can leave a summary for another quote.
THEOREM LauncherResumes == Spec => []ResumableUnlessKilled
<1>1. QueueInv => ResumableUnlessKilled
  BY DEF QueueInv, SummaryFollowsQuote, LauncherCanResume, ResumableUnlessKilled
<1> QED
  BY <1>1, QueueInvariance, PTL

\* Who writes the summary, and what: the results it read, and perhaps one more.
LEMMA ResultsStep ==
  ASSUME QueueInv, [Next]_vars, NEW s \in Sellers, summary.results[s] # 0
  PROVE  summary'.results[s] = summary.results[s]
<1> USE DEF QueueInv, Inv, TypeOK, FilesTypeOK, ScriptsTypeOK
<1>1. ASSUME NEW p \in Procs, RunStep(p)
      PROVE  summary'.results[s] = summary.results[s]
  <2>1. pc[p] \in {"run.next", "run.record"} => mem[p] = summary
    BY DEF ScriptHolds, KnowsItsCommand, IsCurrent, RunHolds
  <2>2. CASE RunRecord(p)
    <3>1. mem[p] = summary /\ mem[p].results[pos[p]] = 0
      BY <2>1, <2>2 DEF RunRecord, Goto, ScriptHolds, KnowsItsCommand, IsInOrder, RunHolds
    <3>2. summary' = [mem[p] EXCEPT !.results[pos[p]] = digest[p]]
      BY <2>2 DEF RunRecord, Persist
    <3>3. s # pos[p]
      BY <3>1
    <3> QED
      BY <3>1, <3>2, <3>3 DEF Summaries
  <2>3. CASE RunPause(p)
    BY <2>1, <2>3 DEF RunPause, Persist, Goto, Summaries
  <2>4. CASE RunFinish(p)
    BY <2>1, <2>4 DEF RunFinish, Persist, Goto, Summaries
  <2>5. CASE RunSelect(p)
    BY <2>1, <2>5 DEF RunSelect, Persist, Goto
  <2> QED
    BY <1>1, <2>2, <2>3, <2>4, <2>5
       DEF RunStep, RunLoad, Persist, RunSkip, RunArtifactChanged, fileVars
<1>2. ASSUME NEW p \in Procs, RefreshStep(p)
      PROVE  summary'.results[s] = summary.results[s]
  <2>1. CASE RefreshState(p)
    <3>1. mem[p] = summary
      BY <2>1 DEF RefreshState, Goto, ScriptHolds, IsCurrent, RefreshHolds
    <3> QED
      BY <2>1, <3>1 DEF RefreshState
  <2> QED
    BY <1>2, <2>1 DEF RefreshStep, RefreshLoad, RefreshSeesLock, RefreshEntry, RefreshQuote, fileVars
<1>3. ASSUME NEW p \in Procs, TakeBatchLock(p) \/ BatchUnlock(p) \/ SubmitStep(p) \/ ChildStep(p)
      PROVE  UNCHANGED summary
  BY <1>3 DEF TakeBatchLock, BatchUnlock, SubmitStep, SubmitCheck, SubmitAfford, SubmitLock,
     SubmitAmbiguous, SubmitMark, SubmitVerify, SubmitRelease, ChildStep, scriptVars, fileVars
<1>4. CASE Operator \/ Environment \/ UNCHANGED vars
  BY <1>4 DEF Operator, Environment, LaunchRun, LaunchRefresh, LaunchSubmit, Launch,
     ReviewBatchLock, ReviewExecLock, Reconcile, TopUp, RequestFulfilled, RequestExpires,
     Fulfil, Expire, QuotesGoStale, InputFails,
     ChildFault, OrphanExits, KilledWithChild, KilledAlone, Crash, vars, scriptVars, fileVars
<1> QED
  BY <1>1, <1>2, <1>3, <1>4 DEF Next, ScriptStep

\* No step forgets or replaces a completed result: the stale copy that run or refresh
\* writes back is never stale.
THEOREM ResultsKept == Spec => ResultsAreKept
<1>1. QueueInv /\ [Next]_vars =>
        [\A s \in Sellers : summary.results[s] # 0 => summary'.results[s] = summary.results[s]]_vars
  BY ResultsStep
<1> QED
  BY <1>1, QueueInvariance, PTL DEF Spec, ResultsAreKept

=============================================================================
