------------------------------ MODULE SellerProver ------------------------------
(***************************************************************************)
(* The production mode of the prover executable                            *)
(* host/src/bin/wash-trading-prove-seller.rs, run as a child process, and  *)
(* the prover network it pays.  One child obtains one Groth16 proof for    *)
(* one seller: it resumes the request saved in --request-checkpoint or     *)
(* makes a new paid request, saves the request id, waits for the proof and *)
(* writes the artifact.                                                    *)
(*                                                                         *)
(* The files a child shares with every other process are checkpoint[s]     *)
(* (seller.request.json) and artifact[s] (seller.json); both are replaced  *)
(* by a rename, so a reader sees a whole old or a whole new file.          *)
(*                                                                         *)
(* FrozenBatch and ApprovedBatch, the two scripts that start this child,   *)
(* extend this module.                                                     *)
(***************************************************************************)
EXTENDS Naturals

CONSTANTS
  N,          \* number of sellers; sellers are 1 .. N in queue order
  Procs,      \* processes that can start a prover child (one child each)
  Digests     \* the contents a written artifact can have (it records timings)

ASSUME ProverAssumption ==
  /\ N \in Nat \ {0}
  /\ Digests \subseteq Nat \ {0}
  /\ Digests # {}

VARIABLES
  checkpoint, \* [Sellers -> Nat]: request number saved on disk, 0 = no file
  artifact,   \* [Sellers -> ...]: request and digest of seller.json, NoArtifact = no file
  paid,       \* [Sellers -> Nat]: requests the network has accepted and charged
  fulfilled,  \* [Sellers -> SUBSET Nat]: accepted requests whose proof is ready
  expired,    \* [Sellers -> SUBSET Nat]: accepted requests past their deadline, unproved
  balance,    \* requests the requester's network balance still affords
  prover,     \* [Procs -> ...]: where the child started by a process is
  job,        \* [Procs -> Sellers]: the child's --seller
  request     \* [Procs -> Nat]: the child's request_id, 0 before it has one

proverVars ==
  <<checkpoint, artifact, paid, fulfilled, expired, balance, prover, job, request>>

Sellers == 1 .. N

NoArtifact == [request |-> 0, digest |-> 0]

ProverStates ==
  {"none", "load", "request", "save", "wait", "write", "ok", "failed"}

Running(p) == prover[p] \notin {"none", "ok", "failed"}

ProverTypeOK ==
  /\ checkpoint \in [Sellers -> Nat]
  /\ artifact \in [Sellers -> [request : Nat, digest : Digests \cup {0}]]
  /\ paid \in [Sellers -> Nat]
  /\ fulfilled \in [Sellers -> SUBSET Nat]
  /\ expired \in [Sellers -> SUBSET Nat]
  /\ balance \in Nat
  /\ prover \in [Procs -> ProverStates]
  /\ job \in [Procs -> Sellers]
  /\ request \in [Procs -> Nat]

ProverInit ==
  /\ checkpoint = [s \in Sellers |-> 0]
  /\ artifact = [s \in Sellers |-> NoArtifact]
  /\ paid = [s \in Sellers |-> 0]
  /\ fulfilled = [s \in Sellers |-> {}]
  /\ expired = [s \in Sellers |-> {}]
  /\ prover = [p \in Procs |-> "none"]
  /\ job = [p \in Procs |-> 1]
  /\ request = [p \in Procs |-> 0]

-----------------------------------------------------------------------------
(* The child's life, from its spawn to its exit.                           *)

\* Part of an action of p: the parent spawns the child for seller s.
Spawn(p, s) ==
  /\ prover[p] = "none"
  /\ prover' = [prover EXCEPT ![p] = "load"]
  /\ job' = [job EXCEPT ![p] = s]
  /\ request' = [request EXCEPT ![p] = 0]

\* Part of an action of p: the child is gone, and what it held in memory with it.
Reap(p) ==
  /\ prover' = [prover EXCEPT ![p] = "none"]
  /\ job' = [job EXCEPT ![p] = 1]
  /\ request' = [request EXCEPT ![p] = 0]

\* checkpoint_path.exists(): resume the saved request, or make a new one.
LoadRequestCheckpoint(p) ==
  /\ prover[p] = "load"
  /\ LET saved == checkpoint[job[p]] IN
       /\ prover' = [prover EXCEPT ![p] = IF saved = 0 THEN "request" ELSE "wait"]
       /\ request' = [request EXCEPT ![p] = saved]
  /\ UNCHANGED <<checkpoint, artifact, paid, fulfilled, expired, balance, job>>

\* The network charges one more request for seller s.
Accept(s) ==
  /\ balance > 0
  /\ balance' = balance - 1
  /\ paid' = [paid EXCEPT ![s] = @ + 1]

\* request_groth16 returns the id of a request the network accepted.
RequestGroth16(p) ==
  /\ prover[p] = "request"
  /\ Accept(job[p])
  /\ request' = [request EXCEPT ![p] = paid[job[p]] + 1]
  /\ prover' = [prover EXCEPT ![p] = "save"]
  /\ UNCHANGED <<checkpoint, artifact, fulfilled, expired, job>>

\* The network accepted the request but its answer never arrived: the child fails.
RequestAnswerLost(p) ==
  /\ prover[p] = "request"
  /\ Accept(job[p])
  /\ prover' = [prover EXCEPT ![p] = "failed"]
  /\ UNCHANGED <<checkpoint, artifact, fulfilled, expired, job, request>>

\* The network refuses a request the balance does not cover.
RequestRefused(p) ==
  /\ prover[p] = "request"
  /\ balance = 0
  /\ prover' = [prover EXCEPT ![p] = "failed"]
  /\ UNCHANGED <<checkpoint, artifact, paid, fulfilled, expired, balance, job, request>>

WriteRequestCheckpoint(p) ==
  /\ prover[p] = "save"
  /\ checkpoint' = [checkpoint EXCEPT ![job[p]] = request[p]]
  /\ prover' = [prover EXCEPT ![p] = "wait"]
  /\ UNCHANGED <<artifact, paid, fulfilled, expired, balance, job, request>>

\* wait_proof returns the proof, and it verifies.
WaitProof(p) ==
  /\ prover[p] = "wait"
  /\ request[p] \in fulfilled[job[p]]
  /\ prover' = [prover EXCEPT ![p] = "write"]
  /\ UNCHANGED <<checkpoint, artifact, paid, fulfilled, expired, balance, job, request>>

\* The proof or auction timeout passes, or the request itself has expired, and
\* get_proof_status finds no proof either.
WaitProofTimesOut(p) ==
  /\ prover[p] = "wait"
  /\ request[p] \notin fulfilled[job[p]]
  /\ prover' = [prover EXCEPT ![p] = "failed"]
  /\ UNCHANGED <<checkpoint, artifact, paid, fulfilled, expired, balance, job, request>>

\* write_json(&output): the artifact of this request, with this child's timings.
WriteArtifact(p) ==
  /\ prover[p] = "write"
  /\ \E d \in Digests :
       artifact' = [artifact EXCEPT ![job[p]] = [request |-> request[p], digest |-> d]]
  /\ prover' = [prover EXCEPT ![p] = "ok"]
  /\ UNCHANGED <<checkpoint, paid, fulfilled, expired, balance, job, request>>

\* Any error return of run_seller_proof (a stale checkpoint, a failed call) or a kill.
ProverAborts(p) ==
  /\ Running(p)
  /\ prover' = [prover EXCEPT ![p] = "failed"]
  /\ UNCHANGED <<checkpoint, artifact, paid, fulfilled, expired, balance, job, request>>

ProverStep(p) ==
  \/ LoadRequestCheckpoint(p)
  \/ RequestGroth16(p)
  \/ RequestRefused(p)
  \/ WriteRequestCheckpoint(p)
  \/ WaitProof(p)
  \/ WaitProofTimesOut(p)
  \/ WriteArtifact(p)

ProverFault(p) == RequestAnswerLost(p) \/ ProverAborts(p)

-----------------------------------------------------------------------------
(* The prover network and the requester's account.                         *)

\* The requests of seller s that a proof may still come for.
Awaiting(s) == (1 .. paid[s]) \ (fulfilled[s] \cup expired[s])

Fulfil(s) ==
  /\ \E r \in Awaiting(s) : fulfilled' = [fulfilled EXCEPT ![s] = @ \cup {r}]
  /\ UNCHANGED <<checkpoint, artifact, paid, expired, balance, prover, job, request>>

\* Every request has a deadline, .timeout(proof_timeout).  Nobody proves it afterwards,
\* and the checkpoint that names it stays.
Expire(s) ==
  /\ \E r \in Awaiting(s) : expired' = [expired EXCEPT ![s] = @ \cup {r}]
  /\ UNCHANGED <<checkpoint, artifact, paid, fulfilled, balance, prover, job, request>>

TopUp ==
  /\ balance = 0
  /\ balance' = 1
  /\ UNCHANGED <<checkpoint, artifact, paid, fulfilled, expired, prover, job, request>>

=============================================================================
