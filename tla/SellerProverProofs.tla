--------------------------- MODULE SellerProverProofs ---------------------------
(***************************************************************************)
(* Facts about the prover child that the proofs about both scripts that    *)
(* start it use.                                                           *)
(***************************************************************************)
EXTENDS SellerProver, TLAPS

\* The child's steps keep the types of its files and of its own state.
LEMMA ChildTypes ==
  ASSUME ProverTypeOK, NEW p \in Procs, ProverStep(p) \/ ProverFault(p)
  PROVE  ProverTypeOK'
<1> USE DEF ProverTypeOK, ProverStates
<1>1. CASE LoadRequestCheckpoint(p)
  BY <1>1 DEF LoadRequestCheckpoint
<1>2. CASE RequestGroth16(p)
  BY <1>2 DEF RequestGroth16, Accept
<1>3. CASE RequestAnswerLost(p)
  BY <1>3 DEF RequestAnswerLost, Accept
<1>4. CASE RequestRefused(p)
  BY <1>4 DEF RequestRefused
<1>5. CASE WriteRequestCheckpoint(p)
  BY <1>5 DEF WriteRequestCheckpoint
<1>6. CASE WaitProof(p)
  BY <1>6 DEF WaitProof
<1>7. CASE WaitProofTimesOut(p)
  BY <1>7 DEF WaitProofTimesOut
<1>8. CASE WriteArtifact(p)
  BY <1>8 DEF WriteArtifact
<1>9. CASE ProverAborts(p)
  BY <1>9 DEF ProverAborts
<1> QED
  BY <1>1, <1>2, <1>3, <1>4, <1>5, <1>6, <1>7, <1>8, <1>9 DEF ProverStep, ProverFault

\* The child's steps are its own: no other child moves, and it keeps its seller.
LEMMA ChildFrame ==
  ASSUME ProverTypeOK, NEW p \in Procs, ProverStep(p) \/ ProverFault(p)
  PROVE  /\ Running(p) /\ prover'[p] # "none" /\ job' = job
         /\ \A q \in Procs \ {p} : prover'[q] = prover[q] /\ request'[q] = request[q]
BY DEF ProverTypeOK, Running, ProverStep, ProverFault, LoadRequestCheckpoint, RequestGroth16,
       RequestAnswerLost, RequestRefused, WriteRequestCheckpoint, WaitProof,
       WaitProofTimesOut, WriteArtifact, ProverAborts

=============================================================================
