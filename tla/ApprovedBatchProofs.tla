--------------------------- MODULE ApprovedBatchProofs ---------------------------
(***************************************************************************)
(* Proofs about ApprovedBatch for every number of sellers, slots, plans,   *)
(* kills and faults.                                                       *)
(***************************************************************************)
EXTENDS ApprovedBatch, SellerProverProofs, FiniteSetTheorems

(***************************************************************************)
(* The inductive invariant, in the parts the properties come from.         *)
(***************************************************************************)

Working(p) == pc[p] \in {"verify", "check", "prove"}

\* One run, whose workers never share a seller and stop only with an empty queue.
RunHolds ==
  /\ status \notin {"none", "killed"} => plan \in Plans /\ scope \in Scopes
  /\ status \in Active => crew # {}
  /\ \A p \in Procs : pc[p] # "off" => p \in crew /\ status \in Active
  /\ \A p \in crew : status = "preflight" => pc[p] \in {"next", "verify"}
  /\ \A p \in Procs : pc[p] = "verify" => status = "preflight"
  /\ \A p, q \in Procs : Working(p) /\ Working(q) /\ item[p] = item[q] => p = q
  /\ status = "proving" => queue = {} \/ \A p \in crew : pc[p] # "off"

\* The sellers whose verdict the preflight has.
Verified == {s \in scope \ queue : \A p \in Procs : pc[p] = "verify" => item[p] # s}

PreflightHolds ==
  /\ status = "preflight" => failures = Verified \cap unfit[plan]
  /\ status \in {"proving", "rejected"} => scope \cap unfit[plan] = {}
  /\ PreflightReportsAll

\* The sellers the run has passed are proved, or a worker is at them.
ProvingHolds ==
  /\ status = "proving" => \A s \in scope \ queue :
       \/ artifact[s].request # 0
       \/ \E p \in Procs : pc[p] \in {"check", "prove"} /\ item[p] = s
  /\ status = "done" => \A s \in scope : artifact[s].request # 0

\* Seller s was verified for plan pl, with everyone else of some scope.
Passed(s, pl) == \E sc \in Scopes : s \in sc /\ sc \cap unfit[pl] = {}

\* What the files and the network's record of a seller say of each other.
RecordsHold(s) ==
  /\ checkpoint[s] <= paid[s]
  /\ artifact[s].request <= paid[s]
  /\ artifact[s].request # 0 => artifact[s].request \in fulfilled[s]
  /\ \A r \in 1 .. paid[s] : Passed(s, asked[s][r])

\* A child belongs to a worker or has outlived its run; the request it holds was made
\* for its plan, and its plan has passed the preflight.
ChildHolds(p) ==
  /\ pc[p] = "prove" => prover[p] # "none"
  /\ prover[p] # "none" =>
       /\ \/ pc[p] = "prove" /\ job[p] = item[p] /\ asking[p] = plan
          \/ pc[p] = "off" /\ p \notin crew
       /\ asking[p] \in Plans /\ Passed(job[p], asking[p])
  /\ prover[p] \in {"save", "wait", "write"} =>
       request[p] \in 1 .. paid[job[p]] /\ asked[job[p]][request[p]] = asking[p]
  /\ prover[p] = "write" => request[p] \in fulfilled[job[p]]
  /\ prover[p] = "ok" => artifact[job[p]].request # 0

\* The children of earlier runs that can still pay for seller s.
Payers(s) ==
  {p \in Procs : /\ pc[p] = "off" /\ job[p] = s
                 /\ prover[p] = "request" \/ (prover[p] = "load" /\ checkpoint[s] = 0)}

Own(s, state) == \E p \in Procs : pc[p] = "prove" /\ job[p] = s /\ prover[p] = state

\* Whether the run, or the next one, can still pay for seller s: not when its request
\* is saved, or about to be.
OpenTo(s) == Own(s, "request") \/ (checkpoint[s] = 0 /\ ~Own(s, "save"))
Open(s) == IF OpenTo(s) THEN 1 ELSE 0

\* Every payment made or still to be made, but one, is owed to a kill or a fault.
Accounted(s) == paid[s] + Open(s) + Cardinality(Payers(s)) <= 1 + crashes + faults

BatchInv ==
  /\ TypeOK /\ RunHolds /\ PreflightHolds /\ ProvingHolds
  /\ \A p \in Procs : ChildHolds(p)
  /\ \A s \in Sellers : RecordsHold(s) /\ Accounted(s)

-----------------------------------------------------------------------------

LEMMA BatchInit == Init => BatchInv
<1> SUFFICES ASSUME Init
             PROVE  BatchInv
  OBVIOUS
<1>1. 1 \in Sellers /\ 0 \in 0 .. MaxCrashes /\ 0 \in 0 .. MaxFaults
  BY ProverAssumption, ApprovedAssumption DEF Sellers
<1>2. ProverTypeOK
  BY <1>1 DEF Init, ProverInit, ProverTypeOK, ProverStates, NoArtifact
<1>3. TypeOK
  <2>1. \A t \in Sellers : asked[t] \in Seq(Plans) /\ Len(asked[t]) = paid[t]
    BY DEF Init, ProverInit
  <2> QED
    BY <1>1, <1>2, <2>1 DEF Init, TypeOK, Active, Ended
<1>4. RunHolds /\ PreflightHolds /\ ProvingHolds
  BY DEF Init, RunHolds, PreflightHolds, ProvingHolds, PreflightReportsAll, Active, Working
<1>5. \A p \in Procs : ChildHolds(p)
  BY DEF Init, ProverInit, ChildHolds
<1>6. \A s \in Sellers : RecordsHold(s)
  BY DEF Init, ProverInit, RecordsHold, NoArtifact
<1>7. ASSUME NEW s \in Sellers
      PROVE  Accounted(s)
  <2>1. Payers(s) = {}
    BY DEF Init, ProverInit, Payers
  <2> QED
    BY <1>7, <2>1, FS_EmptySet DEF Init, ProverInit, Accounted, Open
<1> QED
  BY <1>3, <1>4, <1>5, <1>6, <1>7 DEF BatchInv

-----------------------------------------------------------------------------
(* Counting.                                                               *)

LEMMA PayersCount ==
  ASSUME NEW S \in SUBSET Procs, NEW T \in SUBSET Procs
  PROVE  /\ Cardinality(S) \in Nat
         /\ T \subseteq S => Cardinality(T) <= Cardinality(S)
         /\ \A x : T \subseteq S \cup {x} => Cardinality(T) <= Cardinality(S) + 1
         /\ \A x \in S : T \subseteq S \ {x} => Cardinality(T) + 1 <= Cardinality(S)
<1>1. IsFiniteSet(S)
  BY ApprovedAssumption, FS_Subset
<1>2. Cardinality(S) \in Nat
  BY <1>1, FS_CardinalityType
<1>3. T \subseteq S => Cardinality(T) <= Cardinality(S)
  BY <1>1, FS_Subset
<1>4. ASSUME NEW x, T \subseteq S \cup {x}
      PROVE  Cardinality(T) <= Cardinality(S) + 1
  <2>1. /\ IsFiniteSet(S \cup {x})
        /\ Cardinality(S \cup {x}) = IF x \in S THEN Cardinality(S) ELSE Cardinality(S) + 1
    BY <1>1, FS_AddElement
  <2>2. T \in SUBSET (S \cup {x})
    BY <1>4
  <2>3. Cardinality(T) <= Cardinality(S \cup {x}) /\ IsFiniteSet(T)
    BY <2>1, <2>2, FS_Subset
  <2>4. Cardinality(T) \in Nat
    BY <2>3, FS_CardinalityType
  <2> QED
    BY <1>2, <2>1, <2>3, <2>4
<1>5. ASSUME NEW x \in S, T \subseteq S \ {x}
      PROVE  Cardinality(T) + 1 <= Cardinality(S)
  <2>1. IsFiniteSet(S \ {x}) /\ Cardinality(S \ {x}) = Cardinality(S) - 1
    BY <1>1, FS_RemoveElement
  <2>2. T \in SUBSET (S \ {x})
    BY <1>5
  <2>3. Cardinality(T) <= Cardinality(S \ {x}) /\ IsFiniteSet(T)
    BY <2>1, <2>2, FS_Subset
  <2>4. Cardinality(T) \in Nat
    BY <2>3, FS_CardinalityType
  <2> QED
    BY <1>2, <2>1, <2>3, <2>4
<1> QED
  BY <1>2, <1>3, <1>4, <1>5

Budget == crashes + faults

LEMMA BudgetType ==
  ASSUME TypeOK, TypeOK'
  PROVE  Budget \in Nat /\ Budget' \in Nat
<1>1. crashes \in 0 .. MaxCrashes /\ faults \in 0 .. MaxFaults
  BY Zenon DEF TypeOK
<1>2. crashes' \in 0 .. MaxCrashes /\ faults' \in 0 .. MaxFaults
  BY Zenon DEF TypeOK
<1>3. MaxCrashes \in Nat /\ MaxFaults \in Nat
  BY ApprovedAssumption
<1>4. crashes \in Nat /\ faults \in Nat /\ crashes' \in Nat /\ faults' \in Nat
  BY <1>1, <1>2, <1>3
<1>5. \A a, b \in Nat : a + b \in Nat
  OBVIOUS
<1> QED
  BY <1>4, <1>5 DEF Budget

\* A step that neither pays nor opens the seller to a payment, or that a kill or a
\* fault has bought.
LEMMA AccountStays ==
  ASSUME NEW s \in Sellers, Accounted(s), TypeOK, TypeOK',
         paid'[s] = paid[s] \/ paid'[s] = paid[s] + 1,
         \/ paid'[s] = paid[s] /\ Payers(s)' \subseteq Payers(s) /\ Budget' >= Budget
            /\ (OpenTo(s)' => OpenTo(s))
         \/ paid'[s] = paid[s] /\ Payers(s)' \subseteq Payers(s) /\ Budget' >= Budget + 1
         \/ Payers(s)' \subseteq Payers(s) /\ Budget' >= Budget + 1 /\ (OpenTo(s)' => OpenTo(s))
         \/ /\ paid'[s] = paid[s] /\ OpenTo(s) /\ Budget' >= Budget + 1
            /\ \E x \in Procs : Payers(s)' \subseteq Payers(s) \cup {x}
         \/ Payers(s)' \subseteq Payers(s) /\ OpenTo(s) /\ ~OpenTo(s)' /\ Budget' >= Budget
         \/ /\ \E x \in Payers(s) : Payers(s)' \subseteq Payers(s) \ {x}
            /\ (OpenTo(s)' => OpenTo(s)) /\ Budget' >= Budget
  PROVE  Accounted(s)'
<1>1. PICK S \in SUBSET Procs : S = Payers(s)
  BY DEF Payers
<1>2. PICK T \in SUBSET Procs : T = Payers(s)'
  BY DEF Payers
<1>3. /\ Cardinality(S) \in Nat /\ Cardinality(T) \in Nat
      /\ paid[s] \in Nat /\ paid'[s] \in Nat /\ Budget \in Nat /\ Budget' \in Nat
  <2>1. Cardinality(S) \in Nat /\ Cardinality(T) \in Nat
    BY PayersCount
  <2>2. paid[s] \in Nat /\ paid'[s] \in Nat
    BY DEF TypeOK, ProverTypeOK
  <2>3. Budget \in Nat /\ Budget' \in Nat
    BY BudgetType
  <2> QED
    BY <2>1, <2>2, <2>3
<1>4. paid[s] + Open(s) + Cardinality(S) <= 1 + Budget
  BY <1>1, <1>3 DEF Accounted, Budget, TypeOK
<1>5. /\ T \subseteq S => Cardinality(T) <= Cardinality(S)
      /\ \A x : T \subseteq S \cup {x} => Cardinality(T) <= Cardinality(S) + 1
      /\ \A x \in S : T \subseteq S \ {x} => Cardinality(T) + 1 <= Cardinality(S)
  BY PayersCount
<1>6. /\ Open(s) \in {0, 1} /\ Open(s)' \in {0, 1}
      /\ OpenTo(s) <=> Open(s) = 1
      /\ OpenTo(s)' <=> Open(s)' = 1
  BY DEF Open
<1>7. paid'[s] + Open(s)' + Cardinality(T) <= 1 + Budget'
  <2>1. \A x \in Procs : T \subseteq S \cup {x} => Cardinality(T) <= Cardinality(S) + 1
    BY <1>5
  <2>2. CASE \E x \in Payers(s) : Payers(s)' \subseteq Payers(s) \ {x}
    <3>1. Cardinality(T) + 1 <= Cardinality(S)
      BY <1>1, <1>2, <1>5, <2>2
    <3> QED
      BY <1>1, <1>2, <1>3, <1>4, <1>6, <3>1
  <2>3. CASE T \subseteq S /\ ~ \E x \in Payers(s) : Payers(s)' \subseteq Payers(s) \ {x}
    <3>1. Cardinality(T) <= Cardinality(S)
      BY <1>5, <2>3
    <3> QED
      BY <1>1, <1>2, <1>3, <1>4, <1>6, <2>3, <3>1
  <2>4. CASE \E x \in Procs : Payers(s)' \subseteq Payers(s) \cup {x}
    <3>1. Cardinality(T) <= Cardinality(S) + 1
      BY <1>1, <1>2, <2>1, <2>4
    <3>2. CASE T \subseteq S
      BY <1>1, <1>2, <2>2, <2>3, <3>2
    <3>3. CASE ~(T \subseteq S)
      <4>1. ~ \E x \in Payers(s) : Payers(s)' \subseteq Payers(s) \ {x}
        BY <1>1, <1>2, <3>3
      <4> QED
        BY <1>1, <1>2, <1>3, <1>4, <1>6, <3>1, <3>3, <4>1
    <3> QED
      BY <3>2, <3>3
  <2> QED
    BY <1>1, <1>2, <2>2, <2>3, <2>4
<1> QED
  BY <1>2, <1>3, <1>6, <1>7 DEF Accounted, Budget, TypeOK

-----------------------------------------------------------------------------
(* The steps of a child.                                                   *)

ChildMove(p) == ChildStep(p) \/ ChildFault(p)

\* Sellers other than the child's are left alone; a payment is recorded with its plan.
LEMMA ChildEffect ==
  ASSUME BatchInv, NEW p \in Procs, ChildMove(p)
  PROVE  /\ ProverTypeOK'
         /\ Running(p) /\ prover'[p] # "none" /\ job' = job /\ fulfilled' = fulfilled
         /\ \A q \in Procs \ {p} : prover'[q] = prover[q] /\ request'[q] = request[q]
         /\ UNCHANGED <<runVars, unfit, config, asking, crashes>>
         /\ faults' = faults \/ (faults < MaxFaults /\ faults' = faults + 1)
<1> USE DEF BatchInv, TypeOK
<1>1. CASE ProverStep(p) \/ ProverFault(p)
  BY <1>1, ChildTypes, ChildFrame DEF ChildMove, ChildStep, ChildFault, ProverStep, ProverFault,
     LoadRequestCheckpoint, RequestGroth16, RequestAnswerLost, RequestRefused,
     WriteRequestCheckpoint, WaitProof, WaitProofTimesOut, WriteArtifact, ProverAborts
<1>2. CASE RejectsCheckpoint(p) \/ RejectsInput(p)
  BY <1>2 DEF ChildMove, ChildStep, ChildFault, RejectsCheckpoint, RejectsInput, Running,
     ProverTypeOK, ProverStates
<1> QED
  BY <1>1, <1>2 DEF ChildMove, ChildStep, ChildFault

LEMMA ChildFiles ==
  ASSUME BatchInv, NEW p \in Procs, ChildMove(p), NEW s \in Sellers
  PROVE  /\ \/ paid'[s] = paid[s] /\ asked'[s] = asked[s]
            \/ /\ s = job[p] /\ prover[p] = "request"
               /\ paid'[s] = paid[s] + 1 /\ asked'[s] = Append(asked[s], asking[p])
         /\ \/ checkpoint'[s] = checkpoint[s]
            \/ s = job[p] /\ prover[p] = "save" /\ checkpoint'[s] = request[p]
         /\ \/ artifact'[s].request = artifact[s].request
            \/ s = job[p] /\ prover[p] = "write" /\ artifact'[s].request = request[p]
<1> USE DEF BatchInv, TypeOK, ProverTypeOK
<1>1. CASE ProverStep(p) \/ ProverFault(p)
  <2>1. \/ paid'[s] = paid[s]
        \/ s = job[p] /\ prover[p] = "request" /\ paid'[s] = paid[s] + 1
    BY <1>1 DEF ProverStep, ProverFault, Accept,
     LoadRequestCheckpoint, RequestGroth16, RequestAnswerLost, RequestRefused,
     WriteRequestCheckpoint, WaitProof, WaitProofTimesOut, WriteArtifact, ProverAborts
  <2>2. \/ checkpoint'[s] = checkpoint[s]
        \/ s = job[p] /\ prover[p] = "save" /\ checkpoint'[s] = request[p]
    BY <1>1 DEF ProverStep, ProverFault,
     LoadRequestCheckpoint, RequestGroth16, RequestAnswerLost, RequestRefused,
     WriteRequestCheckpoint, WaitProof, WaitProofTimesOut, WriteArtifact, ProverAborts
  <2>3. \/ artifact'[s].request = artifact[s].request
        \/ s = job[p] /\ prover[p] = "write" /\ artifact'[s].request = request[p]
    <3>1. CASE WriteArtifact(p)
      <4>1. PICK d \in Digests :
              artifact' = [artifact EXCEPT ![job[p]] = [request |-> request[p], digest |-> d]]
        BY <3>1 DEF WriteArtifact
      <4> QED
        BY <3>1, <4>1 DEF WriteArtifact
    <3>2. CASE artifact' = artifact
      BY <3>2
    <3> QED
      BY <1>1, <3>1, <3>2 DEF ProverStep, ProverFault,
       LoadRequestCheckpoint, RequestGroth16, RequestAnswerLost, RequestRefused,
       WriteRequestCheckpoint, WaitProof, WaitProofTimesOut, ProverAborts
  <2>4. asked'[s] = IF paid'[s] = paid[s] THEN asked[s] ELSE Append(asked[s], asking[p])
    <3>1. CASE asked' = [t \in Sellers |-> IF paid'[t] = paid[t] THEN asked[t]
                                            ELSE Append(asked[t], asking[p])]
      BY <3>1
    <3>2. CASE asked' = asked /\ paid' = paid
      BY <3>2
    <3> QED
      BY <3>1, <3>2 DEF ChildMove, ChildStep, ChildFault, RejectsCheckpoint, RejectsInput
  <2> QED
    BY <2>1, <2>2, <2>3, <2>4
<1>2. CASE RejectsCheckpoint(p) \/ RejectsInput(p)
  BY <1>2 DEF RejectsCheckpoint, RejectsInput
<1> QED
  BY <1>1, <1>2 DEF ChildMove, ChildStep, ChildFault

\* Requests keep the plan they were made for, and a new one has that of its child.
LEMMA AskedGrow ==
  ASSUME BatchInv, NEW p \in Procs, ChildMove(p), NEW s \in Sellers
  PROVE  /\ asked'[s] \in Seq(Plans) /\ Len(asked'[s]) = paid'[s]
         /\ paid[s] \in Nat /\ paid'[s] \in Nat /\ paid[s] <= paid'[s]
         /\ \A r \in 1 .. paid[s] : asked'[s][r] = asked[s][r]
         /\ paid'[s] # paid[s] => asked'[s][paid'[s]] = asking[p]
<1>1. asked[s] \in Seq(Plans) /\ Len(asked[s]) = paid[s] /\ paid[s] \in Nat
  BY DEF BatchInv, TypeOK, ProverTypeOK
<1>2. asking[p] \in Plans
  BY ChildEffect DEF BatchInv, ChildHolds, Running
<1>3. CASE paid'[s] = paid[s] /\ asked'[s] = asked[s]
  BY <1>1, <1>3
<1>4. CASE paid'[s] = paid[s] + 1 /\ asked'[s] = Append(asked[s], asking[p])
  BY <1>1, <1>2, <1>4
<1> QED
  BY <1>3, <1>4, ChildFiles

LEMMA ChildType ==
  ASSUME BatchInv, NEW p \in Procs, ChildMove(p)
  PROVE  TypeOK'
<1>1. \A s \in Sellers : asked'[s] \in Seq(Plans) /\ Len(asked'[s]) = paid'[s]
  BY AskedGrow
<1>2. faults' \in 0 .. MaxFaults
  BY ChildEffect, ApprovedAssumption DEF BatchInv, TypeOK
<1> QED
  BY <1>1, <1>2, ChildEffect DEF BatchInv, TypeOK, runVars

LEMMA ChildRecords ==
  ASSUME BatchInv, NEW p \in Procs, ChildMove(p), NEW s \in Sellers
  PROVE  RecordsHold(s)'
<1>1. /\ paid[s] \in Nat /\ paid'[s] \in Nat /\ paid[s] <= paid'[s]
      /\ checkpoint[s] \in Nat /\ artifact[s].request \in Nat
  BY AskedGrow DEF BatchInv, TypeOK, ProverTypeOK
<1>2. RecordsHold(s) /\ ChildHolds(p) /\ prover[p] # "none"
  BY ChildEffect DEF BatchInv, Running
<1>3. checkpoint'[s] <= paid'[s]
  BY <1>1, <1>2, ChildFiles DEF RecordsHold, ChildHolds
<1>4. artifact'[s].request <= paid'[s]
  BY <1>1, <1>2, ChildFiles DEF RecordsHold, ChildHolds
<1>5. artifact'[s].request # 0 => artifact'[s].request \in fulfilled'[s]
  BY <1>2, ChildFiles, ChildEffect DEF RecordsHold, ChildHolds
<1>6. ASSUME NEW r \in 1 .. paid'[s]
      PROVE  \E sc \in Scopes : s \in sc /\ sc \cap unfit[asked'[s][r]] = {}
  <2>1. CASE r \in 1 .. paid[s]
    <3>1. asked'[s][r] = asked[s][r]
      BY <2>1, AskedGrow
    <3> QED
      BY <1>2, <2>1, <3>1 DEF RecordsHold, Passed
  <2>2. CASE r \notin 1 .. paid[s]
    <3>1. s = job[p] /\ r = paid'[s] /\ paid'[s] # paid[s]
      BY <1>1, <2>2, ChildFiles
    <3>2. asked'[s][r] = asking[p]
      BY <3>1, AskedGrow
    <3> QED
      BY <1>2, <3>1, <3>2 DEF ChildHolds, Passed
  <2> QED
    BY <2>1, <2>2
<1>7. unfit' = unfit
  BY ChildEffect
<1> QED
  BY <1>3, <1>4, <1>5, <1>6, <1>7 DEF RecordsHold, Passed

\* An artifact, once there, is only replaced by another.
LEMMA ArtifactStays ==
  ASSUME BatchInv, NEW p \in Procs, ChildMove(p), NEW s \in Sellers, artifact[s].request # 0
  PROVE  artifact'[s].request # 0
<1>1. prover[p] = "write" => request[p] \in 1 .. paid[job[p]]
  BY DEF BatchInv, ChildHolds
<1>2. prover[p] = "write" => request[p] # 0
  BY <1>1 DEF BatchInv, TypeOK, ProverTypeOK
<1> QED
  BY <1>2, ChildFiles

LEMMA OtherChildHolds ==
  ASSUME BatchInv, NEW p \in Procs, ChildMove(p), NEW q \in Procs \ {p}
  PROVE  ChildHolds(q)'
<1>1. /\ prover'[q] = prover[q] /\ job'[q] = job[q] /\ request'[q] = request[q]
      /\ UNCHANGED <<runVars, unfit, asking, fulfilled>>
  BY ChildEffect
<1>2. job[q] \in Sellers /\ ChildHolds(q)
  BY DEF BatchInv, TypeOK, ProverTypeOK
<1>3. /\ paid[job[q]] \in Nat /\ paid'[job[q]] \in Nat /\ paid[job[q]] <= paid'[job[q]]
      /\ \A r \in 1 .. paid[job[q]] : asked'[job[q]][r] = asked[job[q]][r]
  BY <1>2, AskedGrow
<1>4. prover[q] = "ok" => artifact'[job[q]].request # 0
  BY <1>2, ArtifactStays DEF ChildHolds
<1>5. prover[q] \in {"save", "wait", "write"} =>
        request[q] \in 1 .. paid'[job[q]] /\ asked'[job[q]][request[q]] = asking[q]
  BY <1>2, <1>3 DEF ChildHolds
<1> QED
  BY <1>1, <1>2, <1>4, <1>5 DEF ChildHolds, Passed, runVars

LEMMA OwnChildHolds ==
  ASSUME BatchInv, NEW p \in Procs, ChildMove(p)
  PROVE  ChildHolds(p)'
<1> DEFINE s == job[p]
<1>1. /\ prover[p] # "none" /\ prover'[p] # "none" /\ job'[p] = s
      /\ UNCHANGED <<runVars, unfit, asking, fulfilled>>
  BY ChildEffect DEF Running
<1>2. s \in Sellers /\ ChildHolds(p)
  BY DEF BatchInv, TypeOK, ProverTypeOK
<1>3. /\ paid[s] \in Nat /\ paid'[s] \in Nat /\ paid[s] <= paid'[s]
      /\ \A r \in 1 .. paid[s] : asked'[s][r] = asked[s][r]
      /\ paid'[s] # paid[s] => asked'[s][paid'[s]] = asking[p]
  BY <1>2, AskedGrow
<1>4. /\ prover'[p] \in {"save", "wait", "write"} =>
           request'[p] \in 1 .. paid'[s] /\ asked'[s][request'[p]] = asking[p]
      /\ prover'[p] = "write" => request'[p] \in fulfilled[s]
      /\ prover'[p] = "ok" => artifact'[s].request # 0
  <2> USE DEF BatchInv, TypeOK, ProverTypeOK
  <2>1. CASE prover'[p] = "failed"
    BY <2>1
  <2>2. CASE LoadRequestCheckpoint(p) /\ LoadsOwn(p)
    <3>1. checkpoint[s] <= paid[s] /\ checkpoint[s] \in Nat
      BY <1>2 DEF RecordsHold
    <3>2. /\ prover'[p] = IF checkpoint[s] = 0 THEN "request" ELSE "wait"
          /\ request'[p] = checkpoint[s]
          /\ checkpoint[s] # 0 => asked[s][checkpoint[s]] = asking[p]
      BY <2>2 DEF LoadRequestCheckpoint, LoadsOwn
    <3> QED
      BY <1>3, <3>1, <3>2
  <2>3. CASE RequestGroth16(p)
    BY <1>2, <1>3, <2>3 DEF RequestGroth16, Accept
  <2>4. CASE WriteRequestCheckpoint(p)
    BY <1>2, <1>3, <2>4 DEF WriteRequestCheckpoint, ChildHolds
  <2>5. CASE WaitProof(p)
    BY <1>2, <1>3, <2>5 DEF WaitProof, ChildHolds
  <2>6. CASE WriteArtifact(p)
    <3>1. prover'[p] = "ok" /\ request[p] # 0
      BY <1>2, <1>3, <2>6 DEF WriteArtifact, ChildHolds
    <3>2. PICK d \in Digests :
            artifact' = [artifact EXCEPT ![s] = [request |-> request[p], digest |-> d]]
      BY <2>6 DEF WriteArtifact
    <3>3. artifact'[s].request = request[p]
      BY <1>2, <3>2
    <3> QED
      BY <3>1, <3>3
  <2>7. \/ prover'[p] = "failed" \/ (LoadRequestCheckpoint(p) /\ LoadsOwn(p))
        \/ RequestGroth16(p) \/ WriteRequestCheckpoint(p) \/ WaitProof(p) \/ WriteArtifact(p)
    BY DEF ChildMove, ChildStep, ChildFault, RejectsCheckpoint, RejectsInput, ProverStep,
           ProverFault, RequestAnswerLost, RequestRefused, WaitProofTimesOut, ProverAborts,
           LoadRequestCheckpoint
  <2> QED
    BY <2>1, <2>2, <2>3, <2>4, <2>5, <2>6, <2>7
<1> QED
  BY <1>1, <1>2, <1>4 DEF ChildHolds, Passed, runVars

\* Two children of one run are never for the same seller.
LEMMA OneOwnChild ==
  ASSUME BatchInv, NEW p \in Procs, NEW q \in Procs,
         pc[p] = "prove", pc[q] = "prove", job[p] = job[q]
  PROVE  p = q
BY DEF BatchInv, RunHolds, ChildHolds, Working

LEMMA ChildAccount ==
  ASSUME BatchInv, NEW p \in Procs, ChildMove(p), NEW s \in Sellers
  PROVE  Accounted(s)'
<1>1. TypeOK' /\ TypeOK /\ Accounted(s)
  BY ChildType DEF BatchInv
<1>2. /\ UNCHANGED <<pc, job>> /\ Running(p) /\ pc[p] \in {"prove", "off"}
      /\ \A q \in Procs \ {p} : prover'[q] = prover[q]
  BY ChildEffect DEF runVars, BatchInv, ChildHolds, Running
<1>3. Budget' >= Budget /\ (faults' # faults => Budget' >= Budget + 1)
  <2>1. PICK b \in Nat : b = Budget
    BY <1>1, BudgetType
  <2>2. crashes + faults = b /\ crashes \in Nat /\ faults \in Nat
    BY <1>1, <2>1, ApprovedAssumption DEF Budget, TypeOK
  <2>3. crashes' = crashes /\ (faults' = faults \/ faults' = faults + 1)
    BY ChildEffect
  <2>4. \/ faults' = faults /\ Budget' = b
        \/ Budget' = b + 1
    BY <2>2, <2>3 DEF Budget
  <2>5. b >= b /\ b + 1 >= b /\ b + 1 >= b + 1
    OBVIOUS
  <2> QED
    BY <2>1, <2>4, <2>5
<1>4. prover'[p] \in {"load", "request"} => prover[p] = "load" /\ prover'[p] = "request"
                                             /\ checkpoint[job[p]] = 0
  BY DEF ChildMove, ChildStep, ChildFault, RejectsCheckpoint, RejectsInput, ProverStep,
         ProverFault, LoadRequestCheckpoint, RequestGroth16, RequestAnswerLost, RequestRefused,
         WriteRequestCheckpoint, WaitProof, WaitProofTimesOut, WriteArtifact, ProverAborts,
         BatchInv, TypeOK, ProverTypeOK
<1>5. checkpoint'[s] = 0 => checkpoint[s] = 0
  <2>1. prover[p] = "save" => request[p] # 0
    BY DEF BatchInv, TypeOK, ProverTypeOK, ChildHolds
  <2> QED
    BY <2>1, ChildFiles
<1>6. Payers(s)' \subseteq Payers(s)
  BY <1>2, <1>4, <1>5 DEF Payers
<1>7. CASE s # job[p]
  <2>1. OpenTo(s)' => OpenTo(s)
    BY <1>2, <1>5, <1>7 DEF OpenTo, Own
  <2>2. paid'[s] = paid[s]
    BY <1>7, ChildFiles
  <2> QED
    BY <1>1, <1>3, <1>6, <2>1, <2>2, AccountStays
<1>8. CASE s = job[p] /\ pc[p] = "off"
  <2>1. OpenTo(s)' => OpenTo(s)
    BY <1>2, <1>5, <1>8 DEF OpenTo, Own
  <2>2. CASE paid'[s] = paid[s]
    BY <1>1, <1>3, <1>6, <2>1, <2>2, AccountStays
  <2>3. CASE paid'[s] = paid[s] + 1
    <3>1. prover[p] = "request"
      <4>1. paid[s] \in Nat
        BY DEF BatchInv, TypeOK, ProverTypeOK
      <4>2. paid'[s] # paid[s]
        BY <2>3, <4>1
      <4> QED
        BY <4>2, ChildFiles
    <3>2. p \in Payers(s) /\ p \notin Payers(s)'
      BY <1>4, <1>8, <3>1 DEF Payers
    <3>3. \E x \in Payers(s) : Payers(s)' \subseteq Payers(s) \ {x}
      BY <1>6, <3>2
    <3> QED
      BY <1>1, <1>3, <2>1, <2>3, <3>3, AccountStays
  <2> QED
    BY <2>2, <2>3, ChildFiles
<1>9. CASE s = job[p] /\ pc[p] = "prove"
  <2>1. \A q \in Procs : pc[q] = "prove" /\ job[q] = s => q = p
    BY <1>9, OneOwnChild
  <2>2. \A state : /\ Own(s, state) <=> prover[p] = state
                   /\ Own(s, state)' <=> prover'[p] = state
    BY <1>2, <1>9, <2>1 DEF Own
  <2>3. /\ OpenTo(s) <=> prover[p] = "request" \/ (checkpoint[s] = 0 /\ prover[p] # "save")
        /\ OpenTo(s)' <=> prover'[p] = "request" \/ (checkpoint'[s] = 0 /\ prover'[p] # "save")
    BY <2>2 DEF OpenTo
  <2>4. CASE paid'[s] # paid[s]
    <3>1. prover[p] = "request" /\ paid'[s] = paid[s] + 1 /\ OpenTo(s)
      BY <2>3, <2>4, ChildFiles
    <3>2. CASE RequestGroth16(p)
      <4>1. prover'[p] = "save"
        BY <3>2 DEF RequestGroth16, BatchInv, TypeOK, ProverTypeOK
      <4>2. ~OpenTo(s)'
        BY <2>3, <4>1
      <4> QED
        BY <1>1, <1>3, <1>6, <3>1, <4>2, AccountStays
    <3>3. CASE faults' # faults
      BY <1>1, <1>3, <1>6, <3>1, <3>3, AccountStays
    <3>4. RequestGroth16(p) \/ faults' # faults
      <4>1. ChildFault(p) => faults' # faults
        BY ApprovedAssumption DEF ChildFault, BatchInv, TypeOK
      <4> QED
        BY <2>4, <4>1 DEF ChildMove, ChildStep, RejectsCheckpoint, RejectsInput, ProverStep,
           LoadRequestCheckpoint, RequestRefused, WriteRequestCheckpoint, WaitProof,
           WaitProofTimesOut, WriteArtifact
    <3> QED
      BY <3>2, <3>3, <3>4
  <2>5. CASE paid'[s] = paid[s] /\ faults' # faults
    BY <1>1, <1>3, <1>6, <2>5, AccountStays
  <2>6. CASE paid'[s] = paid[s] /\ faults' = faults
    <3>1. ~ChildFault(p)
      BY <2>6, ApprovedAssumption DEF ChildFault, BatchInv, TypeOK
    <3>2. prover[p] = "save" => checkpoint'[s] # 0 /\ prover'[p] = "wait"
      <4>1. prover[p] = "save" => WriteRequestCheckpoint(p)
        BY <3>1 DEF ChildMove, ChildStep, RejectsCheckpoint, RejectsInput, ProverStep,
           LoadRequestCheckpoint, RequestGroth16, RequestRefused, WaitProof,
           WaitProofTimesOut, WriteArtifact
      <4>2. prover[p] = "save" => request[p] \in 1 .. paid[s]
        BY <1>9 DEF BatchInv, ChildHolds
      <4> QED
        BY <1>9, <4>1, <4>2 DEF WriteRequestCheckpoint, BatchInv, TypeOK, ProverTypeOK
    <3>3. OpenTo(s)' => OpenTo(s)
      BY <1>4, <1>5, <1>9, <2>3, <3>2
    <3> QED
      BY <1>1, <1>3, <1>6, <2>6, <3>3, AccountStays
  <2> QED
    BY <2>4, <2>5, <2>6
<1> QED
  BY <1>2, <1>7, <1>8, <1>9

LEMMA ChildInv ==
  ASSUME BatchInv, NEW p \in Procs, ChildMove(p)
  PROVE  BatchInv'
<1>1. UNCHANGED <<runVars, unfit>>
  BY ChildEffect
<1>2. RunHolds' /\ PreflightHolds'
  BY <1>1 DEF BatchInv, RunHolds, PreflightHolds, PreflightReportsAll, Verified, Working, runVars
<1>3. ProvingHolds'
  <2>1. scope \subseteq Sellers
    BY DEF BatchInv, TypeOK
  <2> QED
    BY <1>1, <2>1, ArtifactStays DEF BatchInv, ProvingHolds, runVars
<1>4. \A q \in Procs : ChildHolds(q)'
  BY OtherChildHolds, OwnChildHolds
<1> QED
  BY <1>2, <1>3, <1>4, ChildType, ChildRecords, ChildAccount DEF BatchInv

-----------------------------------------------------------------------------
(* The steps of the run.                                                   *)

\* A step of the run that leaves every child to its worker, or alone.
LEMMA RunAside ==
  ASSUME BatchInv, TypeOK', UNCHANGED <<proverVars, unfit, asking, asked, crashes>>,
         faults' = faults \/ faults' = faults + 1,
         \A q \in Procs : prover[q] # "none" =>
           /\ pc'[q] = pc[q]
           /\ pc[q] = "prove" => item'[q] = item[q] /\ plan' = plan
           /\ pc[q] = "off" => q \notin crew',
         \A q \in Procs : pc'[q] = "prove" => pc[q] = "prove"
  PROVE  /\ \A p \in Procs : ChildHolds(p)'
         /\ \A s \in Sellers : RecordsHold(s)' /\ Accounted(s)'
<1> USE DEF proverVars
<1>1. ASSUME NEW p \in Procs
      PROVE  ChildHolds(p)'
  BY DEF BatchInv, ChildHolds, Passed
<1>2. ASSUME NEW s \in Sellers
      PROVE  RecordsHold(s)'
  BY DEF BatchInv, RecordsHold, Passed
<1>3. ASSUME NEW s \in Sellers
      PROVE  Accounted(s)'
  <2>1. \A q \in Procs : prover[q] # "none" => (pc'[q] = "off" <=> pc[q] = "off")
    OBVIOUS
  <2>2. Payers(s)' \subseteq Payers(s)
    BY <2>1 DEF Payers
  <2>3. ASSUME NEW state \in {"request", "save"}
        PROVE  Own(s, state)' <=> Own(s, state)
    BY DEF Own
  <2>4. OpenTo(s)' => OpenTo(s)
    BY <2>3 DEF OpenTo
  <2>5. PICK b \in Nat, f \in Nat : b = crashes /\ f = faults
    BY ApprovedAssumption DEF BatchInv, TypeOK
  <2>6. Budget = b + f /\ (Budget' = b + f \/ Budget' = b + (f + 1))
    BY <2>5 DEF Budget
  <2>7. b + f >= b + f /\ b + (f + 1) >= b + f
    OBVIOUS
  <2> QED
    BY <2>2, <2>4, <2>6, <2>7, AccountStays DEF BatchInv
<1> QED
  BY <1>1, <1>2, <1>3

\* Only a worker whose child is running has one, and nobody works when no run is active.
LEMMA WithoutChild ==
  ASSUME BatchInv, NEW p \in Procs, pc[p] # "prove", p \in crew
  PROVE  prover[p] = "none"
BY DEF BatchInv, ChildHolds

LEMMA PreflightInv ==
  ASSUME BatchInv, NEW p \in Procs, VerifyNext(p) \/ VerifyReturns(p)
  PROVE  BatchInv'
<1>1. /\ status = "preflight" /\ p \in crew /\ pc[p] # "prove" /\ prover[p] = "none"
      /\ UNCHANGED <<proverVars, unfit, config, status, plan, scope, confirmed,
                     results, crew, asking, asked, crashes, faults>>
  BY WithoutChild DEF BatchInv, RunHolds, VerifyNext, VerifyReturns
<1>2. CASE VerifyNext(p)
  <2>1. PICK s \in queue : item' = [item EXCEPT ![p] = s] /\ queue' = queue \ {s}
    BY <1>2 DEF VerifyNext, TakeItem
  <2>2. pc' = [pc EXCEPT ![p] = "verify"] /\ failures' = failures /\ pc[p] = "next"
    BY <1>2 DEF VerifyNext
  <2>3. s \in scope /\ s \in Sellers
    BY DEF BatchInv, TypeOK
  <2>4. TypeOK'
    BY <1>1, <2>1, <2>2, <2>3 DEF BatchInv, TypeOK, ProverTypeOK, proverVars
  <2>5. \A q \in Procs : Working(q) => item[q] # s /\ q # p
    BY <2>1, <2>2 DEF BatchInv, TypeOK, RunHolds, Working
  <2>6. RunHolds'
    BY <1>1, <2>1, <2>2, <2>5 DEF BatchInv, TypeOK, RunHolds, Working
  <2>7. Verified' = Verified
    <3>1. \A t \in scope \ queue' :
            (\A q \in Procs : pc'[q] = "verify" => item'[q] # t)
            <=> t # s /\ (\A q \in Procs : pc[q] = "verify" => item[q] # t)
      BY <2>1, <2>2 DEF BatchInv, TypeOK
    <3> QED
      BY <1>1, <2>1, <3>1 DEF Verified
  <2>8. PreflightHolds' /\ ProvingHolds'
    BY <1>1, <2>2, <2>7 DEF BatchInv, PreflightHolds, PreflightReportsAll, ProvingHolds
  <2> QED
    BY <1>1, <2>1, <2>2, <2>4, <2>6, <2>8, RunAside DEF BatchInv, TypeOK, ChildHolds
<1>3. CASE VerifyReturns(p)
  <2>1. /\ pc' = [pc EXCEPT ![p] = "next"] /\ pc[p] = "verify"
        /\ failures' = failures \cup ({item[p]} \cap unfit[plan])
        /\ item' = item /\ queue' = queue
    BY <1>3 DEF VerifyReturns
  <2>2. item[p] \in scope \ queue
    BY <1>1, <2>1 DEF BatchInv, TypeOK
  <2>3. TypeOK'
    BY <1>1, <2>1, <2>2 DEF BatchInv, TypeOK, ProverTypeOK, proverVars
  <2>4. RunHolds'
    BY <1>1, <2>1 DEF BatchInv, TypeOK, RunHolds, Working
  <2>5. Verified' = Verified \cup {item[p]}
    <3>1. \A t \in scope \ queue :
            (\A q \in Procs : pc'[q] = "verify" => item[q] # t)
            <=> t = item[p] \/ (\A q \in Procs : pc[q] = "verify" => item[q] # t)
      BY <2>1 DEF BatchInv, TypeOK, RunHolds, Working
    <3> QED
      BY <1>1, <2>1, <2>2, <3>1 DEF Verified
  <2>6. PreflightHolds' /\ ProvingHolds'
    BY <1>1, <2>1, <2>5 DEF BatchInv, PreflightHolds, PreflightReportsAll, ProvingHolds
  <2> QED
    BY <1>1, <2>1, <2>3, <2>4, <2>6, RunAside DEF BatchInv, TypeOK, ChildHolds
<1> QED
  BY <1>2, <1>3

LEMMA ForgetHolds ==
  ASSUME BatchInv, NEW how \in Ended, Forget(how)
  PROVE  RunHolds' <=> (how \notin {"none", "killed"} => plan' \in Plans /\ scope' \in Scopes)
BY DEF Forget, RunHolds, Active, Ended, Working

\* The barrier: proving starts only when the verdict on every seller is there.
LEMMA PreflightEndsInv ==
  ASSUME BatchInv, PreflightEnds
  PROVE  BatchInv'
<1>1. /\ status = "preflight" /\ queue = {} /\ \A q \in Procs : pc[q] \in {"off", "next"}
      /\ UNCHANGED <<proverVars, unfit, config, plan, scope, confirmed,
                     failures, results, asking, asked, crashes, faults>>
  BY DEF BatchInv, RunHolds, PreflightEnds, AllAt
<1>2. \A q \in Procs : prover[q] # "none" => pc[q] = "off" /\ q \notin crew
  BY <1>1 DEF BatchInv, ChildHolds
<1>3. failures = scope \cap unfit[plan] /\ plan \in Plans /\ scope \in Scopes /\ crew # {}
  BY <1>1 DEF BatchInv, RunHolds, PreflightHolds, Verified, Active
<1>4. CASE failures = {} /\ confirmed
  <2>1. status' = "proving" /\ queue' = scope /\ UNCHANGED <<crew, pc, item>>
    BY <1>4 DEF PreflightEnds
  <2>2. TypeOK'
    BY <1>1, <2>1 DEF BatchInv, TypeOK, ProverTypeOK, proverVars, Active
  <2>3. \A q \in crew : pc[q] # "off"
    BY <1>1 DEF BatchInv, RunHolds
  <2>4. RunHolds'
    BY <1>1, <1>3, <2>1, <2>3 DEF BatchInv, RunHolds, Working, Active
  <2>5. PreflightHolds' /\ ProvingHolds'
    BY <1>1, <1>3, <1>4, <2>1 DEF PreflightHolds, PreflightReportsAll, ProvingHolds
  <2> QED
    BY <1>1, <1>2, <2>1, <2>2, <2>4, <2>5, RunAside DEF BatchInv
<1>5. CASE ~(failures = {} /\ confirmed)
  <2>1. Forget(IF failures = {} THEN "checked" ELSE "refused")
    BY <1>5 DEF PreflightEnds
  <2>2. TypeOK'
    <3>1. ProverTypeOK'
      BY <1>1 DEF BatchInv, TypeOK, ProverTypeOK, proverVars
    <3>2. /\ status' \in Ended /\ queue' = {} /\ crew' = {}
          /\ pc' = [q \in Procs |-> "off"] /\ item' = [q \in Procs |-> 1] /\ 1 \in Sellers
      BY <2>1, ProverAssumption DEF Forget, Ended, Sellers
    <3> QED
      BY <1>1, <3>1, <3>2 DEF BatchInv, TypeOK, proverVars
  <2>3. RunHolds'
    BY <1>1, <1>3, <2>1, ForgetHolds DEF Ended
  <2>4. PreflightHolds' /\ ProvingHolds'
    BY <1>1, <1>3, <2>1 DEF PreflightHolds, PreflightReportsAll, ProvingHolds, Forget
  <2>5. \A q \in Procs : pc'[q] = "off" /\ q \notin crew'
    BY <2>1 DEF Forget
  <2> QED
    BY <1>1, <1>2, <2>2, <2>3, <2>4, <2>5, RunAside DEF BatchInv
<1> QED
  BY <1>4, <1>5

LEMMA ProveNextInv ==
  ASSUME BatchInv, NEW p \in Procs, ProveNext(p)
  PROVE  BatchInv'
<1>1. /\ status \in {"proving", "rejected"} /\ pc[p] = "next" /\ p \in crew /\ prover[p] = "none"
      /\ pc' = [pc EXCEPT ![p] = "check"]
      /\ UNCHANGED <<proverVars, unfit, config, status, plan, scope, confirmed, failures,
                     results, crew, asking, asked, crashes, faults>>
  BY WithoutChild DEF BatchInv, RunHolds, ProveNext
<1>2. PICK s \in queue : item' = [item EXCEPT ![p] = s] /\ queue' = queue \ {s}
  BY DEF ProveNext, TakeItem
<1>3. s \in scope /\ s \in Sellers
  BY DEF BatchInv, TypeOK
<1>4. TypeOK'
  BY <1>1, <1>2, <1>3 DEF BatchInv, TypeOK, ProverTypeOK, proverVars
<1>5. \A q \in Procs : Working(q) => item[q] # s /\ q # p
  BY <1>1, <1>2 DEF BatchInv, TypeOK, RunHolds, Working
<1>6. RunHolds'
  BY <1>1, <1>2, <1>5 DEF BatchInv, TypeOK, RunHolds, Working
<1>7. PreflightHolds'
  BY <1>1 DEF BatchInv, PreflightHolds, PreflightReportsAll
<1>8. ProvingHolds'
  <2>1. ASSUME status = "proving", NEW t \in scope \ queue'
        PROVE  \/ artifact[t].request # 0
               \/ \E q \in Procs : pc'[q] \in {"check", "prove"} /\ item'[q] = t
    <3>1. CASE t = s
      BY <1>1, <1>2, <3>1 DEF BatchInv, TypeOK
    <3>2. CASE t # s
      <4>1. t \in scope \ queue
        BY <1>2, <2>1, <3>2
      <4> QED
        BY <1>1, <1>2, <2>1, <4>1 DEF BatchInv, TypeOK, ProvingHolds
    <3> QED
      BY <3>1, <3>2
  <2> QED
    BY <1>1, <2>1 DEF ProvingHolds, proverVars
<1> QED
  BY <1>1, <1>2, <1>4, <1>6, <1>7, <1>8, RunAside DEF BatchInv, TypeOK, ChildHolds

\* The request of an artifact has a plan.
LEMMA ArtifactPlanType ==
  ASSUME BatchInv, NEW s \in Sellers
  PROVE  ArtifactPlan(s) \in Plans \cup {NoPlan}
<1>1. artifact[s].request \in Nat /\ artifact[s].request <= paid[s] /\ paid[s] \in Nat
  BY DEF BatchInv, TypeOK, ProverTypeOK, RecordsHold
<1>2. asked[s] \in Seq(Plans) /\ Len(asked[s]) = paid[s]
  BY DEF BatchInv, TypeOK
<1>3. artifact[s].request # 0 => asked[s][artifact[s].request] \in Plans
  BY <1>1, <1>2
<1> QED
  BY <1>3 DEF ArtifactPlan

LEMMA ReuseProofInv ==
  ASSUME BatchInv, NEW p \in Procs, ReuseProof(p)
  PROVE  BatchInv'
<1>1. /\ pc[p] = "check" /\ p \in crew /\ prover[p] = "none" /\ artifact[item[p]].request # 0
      /\ pc' = [pc EXCEPT ![p] = "next"]
      /\ UNCHANGED <<proverVars, unfit, config, status, plan, scope, confirmed, queue,
                     failures, crew, item, asking, asked, crashes, faults>>
  BY WithoutChild DEF BatchInv, RunHolds, ReuseProof
<1>2. results' \in [Sellers -> Plans \cup {NoPlan}]
  BY ArtifactPlanType DEF ReuseProof, BatchInv, TypeOK
<1>3. TypeOK'
  BY <1>1, <1>2 DEF BatchInv, TypeOK, ProverTypeOK, proverVars
<1>4. RunHolds'
  BY <1>1 DEF BatchInv, TypeOK, RunHolds, Working
<1>5. PreflightHolds'
  <2>1. Verified' = Verified
    BY <1>1 DEF Verified, BatchInv, TypeOK
  <2> QED
    BY <1>1, <2>1 DEF BatchInv, PreflightHolds, PreflightReportsAll
<1>6. ProvingHolds'
  BY <1>1 DEF BatchInv, TypeOK, ProvingHolds, proverVars
<1> QED
  BY <1>1, <1>3, <1>4, <1>5, <1>6, RunAside DEF BatchInv, TypeOK, ChildHolds

\* A worker that stops: on an error, which rejects the run, or with an empty queue.
LEMMA WorkerStopsInv ==
  ASSUME BatchInv, NEW p \in Procs, CheckThrows(p) \/ WorkerEnds(p)
  PROVE  BatchInv'
<1>1. /\ pc[p] \in {"check", "next"} /\ p \in crew /\ prover[p] = "none"
      /\ pc' = [pc EXCEPT ![p] = "off"]
      /\ UNCHANGED <<proverVars, unfit, config, plan, scope, confirmed, queue,
                     failures, results, crew, item, asking, asked, crashes>>
      /\ status \in {"proving", "rejected"}
      /\ \/ status' = "rejected" /\ faults' = faults + 1 /\ faults < MaxFaults
         \/ UNCHANGED <<status, faults>> /\ queue = {} /\ pc[p] = "next"
  <2>1. pc[p] = "check" => status \in {"proving", "rejected"}
    BY DEF BatchInv, RunHolds, Active
  <2> QED
    BY <2>1, WithoutChild DEF BatchInv, RunHolds, CheckThrows, WorkerThrows, WorkerEnds
<1>2. TypeOK'
  <2>1. faults' \in 0 .. MaxFaults
    BY <1>1, ApprovedAssumption DEF BatchInv, TypeOK
  <2> QED
    BY <1>1, <2>1 DEF BatchInv, TypeOK, ProverTypeOK, proverVars, Active
<1>3. RunHolds'
  BY <1>1 DEF BatchInv, TypeOK, RunHolds, Working, Active
<1>4. PreflightHolds'
  BY <1>1 DEF BatchInv, PreflightHolds, PreflightReportsAll
<1>5. ProvingHolds'
  BY <1>1 DEF BatchInv, TypeOK, ProvingHolds, proverVars
<1> QED
  BY <1>1, <1>2, <1>3, <1>4, <1>5, RunAside DEF BatchInv, TypeOK, ChildHolds

\* All workers are done, so the queue is empty and every seller of the scope is proved.
LEMMA RunEndsInv ==
  ASSUME BatchInv, RunEnds
  PROVE  BatchInv'
<1>1. /\ status \in {"proving", "rejected"} /\ \A q \in Procs : pc[q] = "off"
      /\ UNCHANGED <<proverVars, unfit, config, plan, scope, confirmed,
                     failures, results, asking, asked, crashes, faults>>
  BY DEF BatchInv, RunHolds, RunEnds, AllAt
<1>2. PICK how \in {"done", "failed"} : Forget(how) /\ (how = "done" => status = "proving")
  BY DEF RunEnds
<1>3. TypeOK'
  <2>1. 1 \in Sellers
    BY ProverAssumption DEF Sellers
  <2>2. /\ pc' \in [Procs -> {"off"}] /\ item' \in [Procs -> Sellers]
        /\ crew' = {} /\ queue' = {} /\ status' \in Ended
    BY <1>2, <2>1 DEF Forget, Ended
  <2>3. ProverTypeOK' /\ paid' = paid
    BY <1>1 DEF BatchInv, TypeOK, ProverTypeOK, proverVars
  <2> QED
    BY <1>1, <2>2, <2>3 DEF BatchInv, TypeOK
<1>4. RunHolds'
  <2>1. plan \in Plans /\ scope \in Scopes /\ how \in Ended
    BY <1>1, <1>2 DEF BatchInv, RunHolds, Ended
  <2> QED
    BY <1>1, <1>2, <2>1, ForgetHolds
<1>5. PreflightHolds'
  BY <1>1, <1>2 DEF PreflightHolds, PreflightReportsAll, Forget
<1>6. status = "proving" => queue = {}
  <2>1. PICK q \in crew : q \in Procs /\ pc[q] = "off"
    BY <1>1 DEF BatchInv, RunHolds, Active, TypeOK
  <2> QED
    BY <2>1 DEF BatchInv, RunHolds
<1>7. ProvingHolds'
  BY <1>1, <1>2, <1>6 DEF BatchInv, ProvingHolds, Forget, proverVars
<1>8. \A q \in Procs : pc'[q] = "off" /\ q \notin crew'
  BY <1>2 DEF Forget
<1> QED
  BY <1>1, <1>3, <1>4, <1>5, <1>7, <1>8, RunAside DEF BatchInv

LEMMA LaunchInv ==
  ASSUME BatchInv, NEW pl \in Plans, NEW sc \in Scopes, NEW confirm \in BOOLEAN,
         Launch(pl, sc, confirm)
  PROVE  BatchInv'
<1>1. /\ \A q \in Procs : pc[q] = "off"
      /\ UNCHANGED <<proverVars, unfit, item, asking, asked, crashes, faults>>
      /\ status' = "preflight" /\ plan' = pl /\ scope' = sc /\ confirmed' = confirm
      /\ queue' = sc /\ failures' = {} /\ results' = [s \in Sellers |-> NoPlan]
      /\ config' = [config EXCEPT ![sc] = pl]
  BY DEF BatchInv, RunHolds, Launch, Active, Ended, WriteStableRunConfig
<1>2. PICK workers \in SUBSET {p \in Procs : prover[p] = "none"} :
        /\ workers # {} /\ crew' = workers
        /\ pc' = [p \in Procs |-> IF p \in workers THEN "next" ELSE "off"]
  BY DEF Launch
<1>3. sc \subseteq Sellers
  BY ApprovedAssumption DEF Scopes
<1>4. TypeOK'
  BY <1>1, <1>2, <1>3 DEF BatchInv, TypeOK, ProverTypeOK, proverVars, Active
<1>5. RunHolds'
  BY <1>1, <1>2 DEF RunHolds, Working, Active
<1>6. PreflightHolds' /\ ProvingHolds'
  <2>1. Verified' = {}
    BY <1>1 DEF Verified
  <2> QED
    BY <1>1, <2>1 DEF PreflightHolds, PreflightReportsAll, ProvingHolds
<1>7. \A q \in Procs : prover[q] # "none" => pc'[q] = "off" /\ q \notin crew'
  BY <1>2
<1>8. \A q \in Procs : pc'[q] # "prove"
  BY <1>2
<1> QED
  BY <1>1, <1>4, <1>5, <1>6, <1>7, <1>8, RunAside DEF BatchInv

-----------------------------------------------------------------------------
(* Starting, ending and killing children.                                  *)

\* A step that moves, at most, the child of p, which cannot pay before or after it,
\* or can pay only as the run could without it.
LEMMA PaysNoMore ==
  ASSUME BatchInv, TypeOK', NEW p \in Procs, UNCHANGED <<paid, checkpoint, crashes, faults>>,
         \A q \in Procs \ {p} :
           pc'[q] = pc[q] /\ prover'[q] = prover[q] /\ job'[q] = job[q],
         prover[p] \notin {"request", "save"}, prover'[p] \notin {"request", "save"},
         prover'[p] = "load" => pc'[p] = "prove"
  PROVE  \A s \in Sellers : Accounted(s)'
<1> SUFFICES ASSUME NEW s \in Sellers
             PROVE  Accounted(s)'
  OBVIOUS
<1>1. Payers(s)' \subseteq Payers(s)
  BY DEF Payers
<1>2. ASSUME NEW state \in {"request", "save"}
      PROVE  Own(s, state)' <=> Own(s, state)
  BY <1>2 DEF Own
<1>3. OpenTo(s)' => OpenTo(s)
  BY <1>2 DEF OpenTo
<1>4. Budget' = Budget /\ Budget \in Nat
  BY BudgetType DEF Budget, BatchInv
<1>5. Budget' >= Budget
  BY <1>4
<1> QED
  BY <1>1, <1>3, <1>5, AccountStays DEF BatchInv

LEMMA StartProverInv ==
  ASSUME BatchInv, NEW p \in Procs, StartProver(p)
  PROVE  BatchInv'
<1>1. /\ pc[p] = "check" /\ p \in crew /\ prover[p] = "none"
      /\ pc' = [pc EXCEPT ![p] = "prove"] /\ asking' = [asking EXCEPT ![p] = plan]
      /\ prover' = [prover EXCEPT ![p] = "load"] /\ job' = [job EXCEPT ![p] = item[p]]
      /\ request' = [request EXCEPT ![p] = 0]
      /\ UNCHANGED <<checkpoint, artifact, paid, fulfilled, expired, balance, unfit, config,
                     status, plan, scope, confirmed, queue, failures, results, crew, item,
                     asked, crashes, faults>>
  BY DEF BatchInv, RunHolds, StartProver, Spawn
<1>2. /\ status \in {"proving", "rejected"} /\ plan \in Plans /\ scope \in Scopes
      /\ item[p] \in scope /\ item[p] \in Sellers
  BY <1>1 DEF BatchInv, TypeOK, RunHolds, Active
<1>3. TypeOK'
  BY <1>1, <1>2 DEF BatchInv, TypeOK, ProverTypeOK, ProverStates
<1>4. RunHolds'
  BY <1>1 DEF BatchInv, TypeOK, RunHolds, Working
<1>5. PreflightHolds'
  BY <1>1, <1>2 DEF BatchInv, PreflightHolds, PreflightReportsAll
<1>6. ProvingHolds'
  BY <1>1 DEF BatchInv, TypeOK, ProvingHolds
<1>7. ASSUME NEW q \in Procs
      PROVE  ChildHolds(q)'
  <2>1. CASE q = p
    <3>1. Passed(item[p], plan)
      BY <1>2 DEF BatchInv, PreflightHolds, Passed
    <3> QED
      BY <1>1, <1>2, <2>1, <3>1 DEF BatchInv, TypeOK, ProverTypeOK, ChildHolds, Passed
  <2>2. CASE q # p
    BY <1>1, <2>2 DEF BatchInv, TypeOK, ProverTypeOK, ChildHolds, Passed
  <2> QED
    BY <2>1, <2>2
<1>8. \A s \in Sellers : RecordsHold(s)'
  BY <1>1 DEF BatchInv, RecordsHold, Passed
<1>9. \A s \in Sellers : Accounted(s)'
  BY <1>1, <1>3, PaysNoMore DEF BatchInv, TypeOK, ProverTypeOK
<1> QED
  BY <1>3, <1>4, <1>5, <1>6, <1>7, <1>8, <1>9 DEF BatchInv

LEMMA ProverReturnsInv ==
  ASSUME BatchInv, NEW p \in Procs, ProverReturns(p)
  PROVE  BatchInv'
<1>1. /\ pc[p] = "prove" /\ p \in crew /\ prover[p] \in {"ok", "failed"}
      /\ prover' = [prover EXCEPT ![p] = "none"] /\ job' = [job EXCEPT ![p] = 1]
      /\ request' = [request EXCEPT ![p] = 0] /\ asking' = [asking EXCEPT ![p] = NoPlan]
      /\ UNCHANGED <<checkpoint, artifact, paid, fulfilled, expired, balance, unfit, config,
                     plan, scope, confirmed, queue, failures, crew, item,
                     asked, crashes, faults>>
      /\ \/ prover[p] = "ok" /\ pc' = [pc EXCEPT ![p] = "next"] /\ status' = status
         \/ prover[p] = "failed" /\ pc' = [pc EXCEPT ![p] = "off"] /\ status' = "rejected"
  BY DEF BatchInv, RunHolds, ProverReturns, Reap, WorkerThrows
<1>2. status \in {"proving", "rejected"}
  BY <1>1 DEF BatchInv, RunHolds, Active
<1>3. results' \in [Sellers -> Plans \cup {NoPlan}]
  BY ArtifactPlanType DEF ProverReturns, BatchInv, TypeOK
<1>4. TypeOK'
  <2>1. 1 \in Sellers
    BY ProverAssumption DEF Sellers
  <2> QED
    BY <1>1, <1>3, <2>1 DEF BatchInv, TypeOK, ProverTypeOK, ProverStates, Active
<1>5. RunHolds'
  <2>1. /\ status' \in {"proving", "rejected"}
        /\ \A q \in Procs \ {p} : pc'[q] = pc[q]
        /\ pc'[p] \in {"next", "off"} /\ (pc'[p] = "off" => status' = "rejected")
        /\ UNCHANGED <<plan, scope, queue, failures, crew, item>>
    BY <1>1, <1>2 DEF BatchInv, TypeOK
  <2>2. /\ status \notin {"none", "killed"} /\ status \in Active
        /\ \A q \in Procs : Working(q)' => Working(q)
    BY <1>1, <1>2, <2>1 DEF BatchInv, RunHolds, Working, Active
  <2>3. \A q \in Procs : /\ pc'[q] # "off" => q \in crew'
                         /\ pc'[q] # "verify"
    BY <1>1, <1>2, <2>1 DEF BatchInv, RunHolds
  <2>4. status' = "proving" => queue' = {} \/ \A q \in crew' : pc'[q] # "off"
    BY <1>1, <1>2, <2>1 DEF BatchInv, RunHolds, TypeOK
  <2> QED
    BY <1>2, <2>1, <2>2, <2>3, <2>4 DEF BatchInv, RunHolds, Active
<1>6. PreflightHolds'
  BY <1>1, <1>2 DEF BatchInv, PreflightHolds, PreflightReportsAll
<1>7. ProvingHolds'
  <2>1. prover[p] = "ok" => artifact[item[p]].request # 0
    BY <1>1 DEF BatchInv, ChildHolds
  <2> QED
    BY <1>1, <1>2, <2>1 DEF BatchInv, TypeOK, ProvingHolds
<1>8. \A q \in Procs : ChildHolds(q)'
  BY <1>1 DEF BatchInv, TypeOK, ProverTypeOK, ChildHolds, Passed
<1>9. \A s \in Sellers : RecordsHold(s)'
  BY <1>1 DEF BatchInv, RecordsHold, Passed
<1>10. \A s \in Sellers : Accounted(s)'
  BY <1>1, <1>4, PaysNoMore DEF BatchInv, TypeOK, ProverTypeOK
<1> QED
  BY <1>4, <1>5, <1>6, <1>7, <1>8, <1>9, <1>10 DEF BatchInv

LEMMA OrphanExitsInv ==
  ASSUME BatchInv, NEW p \in Procs, OrphanExits(p)
  PROVE  BatchInv'
<1>1. /\ pc[p] = "off" /\ prover[p] \in {"ok", "failed"}
      /\ prover' = [prover EXCEPT ![p] = "none"] /\ job' = [job EXCEPT ![p] = 1]
      /\ request' = [request EXCEPT ![p] = 0] /\ asking' = [asking EXCEPT ![p] = NoPlan]
      /\ UNCHANGED <<checkpoint, artifact, paid, fulfilled, expired, balance,
                     unfit, config, status, plan, scope, confirmed, queue, failures, results,
                     crew, pc, item, asked, crashes, faults>>
  BY DEF OrphanExits, Reap, runVars
<1>2. TypeOK'
  <2>1. 1 \in Sellers
    BY ProverAssumption DEF Sellers
  <2> QED
    BY <1>1, <2>1 DEF BatchInv, TypeOK, ProverTypeOK, ProverStates
<1>3. RunHolds' /\ PreflightHolds' /\ ProvingHolds'
  BY <1>1 DEF BatchInv, RunHolds, Working, PreflightHolds, PreflightReportsAll, Verified,
              ProvingHolds
<1>4. \A q \in Procs : ChildHolds(q)'
  BY <1>1 DEF BatchInv, TypeOK, ProverTypeOK, ChildHolds, Passed
<1>5. \A s \in Sellers : RecordsHold(s)'
  BY <1>1 DEF BatchInv, RecordsHold, Passed
<1>6. \A s \in Sellers : Accounted(s)'
  BY <1>1, <1>2, PaysNoMore DEF BatchInv, TypeOK, ProverTypeOK
<1> QED
  BY <1>2, <1>3, <1>4, <1>5, <1>6 DEF BatchInv

\* A kill turns the children of the run into orphans, or kills them too: in either
\* case it pays for one more payment for every seller.
LEMMA CrashInv ==
  ASSUME BatchInv, NEW childrenDie \in BOOLEAN, Crash(childrenDie)
  PROVE  BatchInv'
<1>1. /\ crashes < MaxCrashes /\ crashes' = crashes + 1 /\ Forget("killed")
      /\ plan' = NoPlan /\ scope' = {} /\ confirmed' = FALSE /\ failures' = {}
      /\ results' = [s \in Sellers |-> NoPlan]
      /\ UNCHANGED <<checkpoint, artifact, paid, fulfilled, expired, balance, unfit, config,
                     asked, faults>>
  BY DEF Crash
<1>2. \A q \in Procs : \/ prover'[q] = prover[q] /\ job'[q] = job[q]
                          /\ request'[q] = request[q] /\ asking'[q] = asking[q]
                       \/ prover'[q] = "none"
  BY DEF Crash, BatchInv, TypeOK, ProverTypeOK
<1>3. TypeOK'
  <2>1. ProverTypeOK' /\ asking' \in [Procs -> Plans \cup {NoPlan}]
    <3>1. 1 \in Sellers
      BY ProverAssumption DEF Sellers
    <3>2. CASE UNCHANGED <<prover, job, request, asking>>
      BY <1>1, <3>2 DEF BatchInv, TypeOK, ProverTypeOK
    <3>3. CASE childrenDie
      <4>1. /\ prover' = [q \in Procs |-> IF q \in crew THEN "none" ELSE prover[q]]
            /\ job' = [q \in Procs |-> IF q \in crew THEN 1 ELSE job[q]]
            /\ request' = [q \in Procs |-> IF q \in crew THEN 0 ELSE request[q]]
            /\ asking' = [q \in Procs |-> IF q \in crew THEN NoPlan ELSE asking[q]]
        BY <3>3 DEF Crash
      <4>2. /\ prover \in [Procs -> ProverStates] /\ job \in [Procs -> Sellers]
            /\ request \in [Procs -> Nat] /\ asking \in [Procs -> Plans \cup {NoPlan}]
        BY DEF BatchInv, TypeOK, ProverTypeOK
      <4>3. prover' \in [Procs -> ProverStates]
        BY <4>1, <4>2 DEF ProverStates
      <4>4. job' \in [Procs -> Sellers]
        BY <3>1, <4>1, <4>2
      <4>5. request' \in [Procs -> Nat] /\ asking' \in [Procs -> Plans \cup {NoPlan}]
        BY <4>1, <4>2
      <4> QED
        BY <1>1, <4>3, <4>4, <4>5 DEF BatchInv, TypeOK, ProverTypeOK
    <3> QED
      BY <3>2, <3>3 DEF Crash
  <2>2. crashes' \in 0 .. MaxCrashes
    BY <1>1, ApprovedAssumption DEF BatchInv, TypeOK
  <2>3. item' \in [Procs -> Sellers] /\ pc' \in [Procs -> {"off"}]
    BY <1>1, ProverAssumption DEF Forget, Sellers
  <2> QED
    BY <1>1, <2>1, <2>2, <2>3 DEF BatchInv, TypeOK, Forget, Ended
<1>4. RunHolds'
  BY <1>1, ForgetHolds DEF Ended, Forget
<1>5. PreflightHolds' /\ ProvingHolds'
  BY <1>1 DEF PreflightHolds, PreflightReportsAll, ProvingHolds, Forget
<1>6. \A q \in Procs : pc'[q] = "off" /\ q \notin crew'
  BY <1>1 DEF Forget
<1>7. ASSUME NEW q \in Procs
      PROVE  ChildHolds(q)'
  BY <1>1, <1>2, <1>6 DEF BatchInv, ChildHolds, Passed
<1>8. \A s \in Sellers : RecordsHold(s)'
  BY <1>1 DEF BatchInv, RecordsHold, Passed
<1>9. ASSUME NEW s \in Sellers
      PROVE  Accounted(s)'
  <2>1. Budget' >= Budget + 1
    <3>1. PICK c \in Nat, f \in Nat : c = crashes /\ f = faults
      BY ApprovedAssumption DEF BatchInv, TypeOK
    <3>2. Budget = c + f /\ Budget' = (c + 1) + f
      BY <1>1, <3>1 DEF Budget
    <3>3. (c + 1) + f >= (c + f) + 1
      OBVIOUS
    <3> QED
      BY <3>2, <3>3
  <2>2. \A q \in Payers(s)' : q \in Payers(s) \/
          (pc[q] = "prove" /\ job[q] = s
            /\ (prover[q] = "request" \/ (prover[q] = "load" /\ checkpoint[s] = 0)))
    BY <1>1, <1>2 DEF Payers, BatchInv, ChildHolds
  <2>3. CASE Payers(s)' \subseteq Payers(s)
    BY <1>1, <1>3, <2>1, <2>3, AccountStays DEF BatchInv
  <2>4. CASE ~(Payers(s)' \subseteq Payers(s))
    <3>1. PICK x \in Payers(s)' : x \notin Payers(s)
      BY <2>4
    <3>2. /\ x \in Procs /\ pc[x] = "prove" /\ job[x] = s
          /\ prover[x] = "request" \/ (prover[x] = "load" /\ checkpoint[s] = 0)
      BY <2>2, <3>1 DEF Payers
    <3>3. Payers(s)' \subseteq Payers(s) \cup {x}
      <4> SUFFICES ASSUME NEW q \in Payers(s)', q \notin Payers(s)
                   PROVE  q = x
        OBVIOUS
      <4>1. q \in Procs /\ pc[q] = "prove" /\ job[q] = s
        BY <2>2 DEF Payers
      <4> QED
        BY <3>2, <4>1, OneOwnChild
    <3>4. OpenTo(s)
      <4>1. ASSUME NEW y \in Procs, pc[y] = "prove", job[y] = s, prover[y] = "save"
            PROVE  FALSE
        BY <3>2, <4>1, OneOwnChild
      <4> QED
        BY <3>2, <4>1 DEF OpenTo, Own
    <3> QED
      BY <1>1, <1>3, <2>1, <3>2, <3>3, <3>4, AccountStays DEF BatchInv
  <2> QED
    BY <2>3, <2>4
<1> QED
  BY <1>3, <1>4, <1>5, <1>7, <1>8, <1>9 DEF BatchInv

\* The network fulfils a request or lets it expire, or the operator tops up.
LEMMA NetworkInv ==
  ASSUME BatchInv,
         \/ TopUp /\ UNCHANGED batchVars
         \/ \E s \in Sellers : RequestFulfilled(s) \/ RequestExpires(s)
  PROVE  BatchInv'
<1>1. /\ UNCHANGED <<checkpoint, artifact, paid, prover, job, request>> /\ ProverTypeOK'
      /\ \A s \in Sellers : fulfilled[s] \subseteq fulfilled'[s]
  <2> USE DEF BatchInv, TypeOK, ProverTypeOK
  <2>1. ASSUME NEW s \in Sellers, NEW r \in Awaiting(s)
        PROVE  r \in Nat
    BY DEF Awaiting
  <2>2. CASE TopUp
    BY <2>2 DEF TopUp
  <2>3. ASSUME NEW s \in Sellers, Fulfil(s)
        PROVE  /\ ProverTypeOK' /\ UNCHANGED <<checkpoint, artifact, paid, prover, job, request>>
               /\ \A t \in Sellers : fulfilled[t] \subseteq fulfilled'[t]
    BY <2>1, <2>3 DEF Fulfil
  <2>4. ASSUME NEW s \in Sellers, Expire(s)
        PROVE  /\ ProverTypeOK' /\ UNCHANGED <<checkpoint, artifact, paid, prover, job, request>>
               /\ UNCHANGED fulfilled
    BY <2>1, <2>4 DEF Expire
  <2> QED
    BY <2>2, <2>3, <2>4 DEF RequestFulfilled, RequestExpires
<1>2. /\ UNCHANGED <<unfit, config, runVars, asking, asked, crashes>>
      /\ faults' \in 0 .. MaxFaults /\ (faults' = faults \/ faults' = faults + 1)
  BY ApprovedAssumption
     DEF BatchInv, TypeOK, batchVars, RequestFulfilled, RequestExpires
<1> USE <1>1, <1>2 DEF BatchInv, runVars
<1>3. TypeOK'
  BY DEF TypeOK
<1>4. RunHolds' /\ PreflightHolds' /\ ProvingHolds'
  BY DEF RunHolds, Working, PreflightHolds, PreflightReportsAll, Verified, ProvingHolds
<1>5. \A q \in Procs : ChildHolds(q)'
  BY DEF ChildHolds, Passed, TypeOK, ProverTypeOK
<1>6. \A s \in Sellers : RecordsHold(s)'
  BY DEF RecordsHold, Passed
<1>7. ASSUME NEW s \in Sellers
      PROVE  Accounted(s)'
  <2>1. Budget' >= Budget
    <3>1. PICK b \in Nat : b = Budget
      BY <1>3, BudgetType
    <3>2. crashes \in Nat /\ faults \in Nat
      BY ApprovedAssumption DEF TypeOK
    <3>3. Budget' = b \/ Budget' = b + 1
      BY <3>1, <3>2 DEF Budget
    <3> QED
      BY <3>1, <3>3
  <2>2. OpenTo(s)' = OpenTo(s) /\ Payers(s)' = Payers(s)
    BY DEF OpenTo, Own, Payers
  <2> QED
    BY <1>3, <2>1, <2>2, AccountStays
<1> QED
  BY <1>3, <1>4, <1>5, <1>6, <1>7

LEMMA BatchStutter ==
  ASSUME BatchInv, UNCHANGED vars
  PROVE  BatchInv'
<1> USE DEF BatchInv, vars, proverVars, runVars
<1>1. ProverTypeOK'
  BY DEF TypeOK, ProverTypeOK
<1>2. TypeOK'
  BY <1>1 DEF TypeOK
<1>3. RunHolds' /\ PreflightHolds' /\ ProvingHolds'
  BY DEF RunHolds, Working, PreflightHolds, PreflightReportsAll, Verified, ProvingHolds
<1>4. \A q \in Procs : ChildHolds(q)'
  BY DEF ChildHolds, Passed
<1>5. \A s \in Sellers : RecordsHold(s)'
  BY DEF RecordsHold, Passed
<1>6. \A s \in Sellers : Accounted(s)'
  BY DEF Accounted, Open, OpenTo, Own, Payers
<1> QED
  BY <1>2, <1>3, <1>4, <1>5, <1>6

LEMMA BatchStep == BatchInv /\ [Next]_vars => BatchInv'
<1> SUFFICES ASSUME BatchInv, Next
             PROVE  BatchInv'
  BY BatchStutter
<1>1. ASSUME NEW p \in Procs, WorkerStep(p) \/ CheckThrows(p)
      PROVE  BatchInv'
  BY <1>1, PreflightInv, ProveNextInv, ReuseProofInv, StartProverInv, ProverReturnsInv,
     WorkerStopsInv DEF WorkerStep
<1>2. ASSUME NEW p \in Procs, ChildStep(p) \/ ChildFault(p)
      PROVE  BatchInv'
  BY <1>2, ChildInv DEF ChildMove
<1>3. CASE KilledWithChildren \/ KilledAlone
  BY <1>3, CrashInv DEF KilledWithChildren, KilledAlone
<1> QED
  BY <1>1, <1>2, <1>3, PreflightEndsInv, RunEndsInv, LaunchInv, OrphanExitsInv, NetworkInv
     DEF Next, Operator

LEMMA BatchInvariance == Spec => []BatchInv
BY BatchInit, BatchStep, PTL DEF Spec

-----------------------------------------------------------------------------

\* Every variable keeps its type: a worker is at a seller of its run that is no longer
\* in the queue, and every paid request has the plan it was paid for.
THEOREM ApprovedTypeCorrect == Spec => []TypeOK
BY BatchInvariance, PTL DEF BatchInv

\* Nothing is paid for a plan unless a whole scope of it, that seller included, passed
\* the native preflight: whatever workers, kills and children of earlier runs do.
THEOREM PreflightGuards == Spec => []PreflightGuardsPayments
<1>1. BatchInv => PreflightGuardsPayments
  BY DEF BatchInv, RecordsHold, Passed, PreflightGuardsPayments
<1> QED
  BY <1>1, BatchInvariance, PTL

\* A refused run names every unfit seller of its scope, in whatever order the
\* verifiers returned.
THEOREM PreflightReports == Spec => []PreflightReportsAll
<1>1. BatchInv => PreflightReportsAll
  BY DEF BatchInv, PreflightHolds
<1> QED
  BY <1>1, BatchInvariance, PTL

\* Every payment for a seller but the first is owed to a kill or to a fault, for any
\* number of workers, runs and children that outlive them.
THEOREM PaymentsExplained == Spec => []PaymentsAreExplained
<1>1. BatchInv => PaymentsAreExplained
  <2> SUFFICES ASSUME BatchInv, NEW s \in Sellers
               PROVE  paid[s] <= 1 + crashes + faults
    BY DEF PaymentsAreExplained
  <2>1. Payers(s) \in SUBSET Procs
    BY DEF Payers
  <2>2. PICK n \in Nat : n = Cardinality(Payers(s))
    BY <2>1, PayersCount
  <2>3. paid[s] \in Nat /\ Open(s) \in {0, 1} /\ crashes \in Nat /\ faults \in Nat
    BY ApprovedAssumption DEF BatchInv, TypeOK, ProverTypeOK, Open
  <2>4. paid[s] + Open(s) + n <= 1 + crashes + faults
    BY <2>2 DEF BatchInv, Accounted
  <2> QED
    BY <2>3, <2>4
<1> QED
  BY <1>1, BatchInvariance, PTL

\* A child only waits for, and only writes the artifact of, a request that was made for
\* its own plan, also when another child saved or replaced the request meanwhile.
THEOREM ResumesOwn == Spec => []ResumesOwnPlan
<1>1. BatchInv => ResumesOwnPlan
  BY DEF BatchInv, ChildHolds, ResumesOwnPlan
<1> QED
  BY <1>1, BatchInvariance, PTL

\* A run that wrote its summary has a fulfilled proof of every seller of its scope.
THEOREM DoneProved == Spec => []DoneIsProved
<1>1. BatchInv => DoneIsProved
  BY DEF BatchInv, TypeOK, ProvingHolds, RecordsHold, DoneIsProved
<1> QED
  BY <1>1, BatchInvariance, PTL

=============================================================================
