------------------------ MODULE MaterializationProofs ------------------------
(***************************************************************************)
(* That evidence is always of one block, for any claims, targets, threads  *)
(* and forks.  Every file and every thread of every process holds part of  *)
(* the evidence: what an entry holds (CacheHolds), what a thread has put   *)
(* together so far (ThreadsHold), what a process has of its targets        *)
(* (ResultsHold), and what it wrote (WitnessHolds).  Then that a witness   *)
(* described by its metadata is whole, that the provider is not asked for  *)
(* what is cached, and that the workers of the pool keep apart.            *)
(***************************************************************************)
EXTENDS Materialization, MerkleProofs, FiniteSetTheorems, TLAPS

Txs == UNION {k.receipts \cup k.transactions : k \in Keys}
Evidences ==
  [header : 0 .. 2, receipts : SUBSET (Txs \X (0 .. 2)),
   transactions : SUBSET (Txs \X (0 .. 2)), positions : SUBSET (0 .. 2)]
ThreadStates ==
  [pc : {"next", "merge", "fetch", "over"}, job : Nat, found : Evidences, unread : SUBSET Keys]

\* All, or some, of the evidence of a target, from one version of its block.
Whole(target, e) == e \in Evidences /\ e.header # 0 /\ OfOneBlock(target, e)
Part(target, e) ==
  /\ e \in Evidences
  /\ e.receipts \subseteq target.receipts \X {e.header}
  /\ e.transactions \subseteq target.transactions \X {e.header}
  /\ e.positions \subseteq {e.header}
  /\ e.receipts # {} => e.positions # {}
  /\ e.header = 0 => e.receipts = {} /\ e.transactions = {} /\ e.positions = {}

Works(c, t) == thread[c][t].pc \in {"merge", "fetch"}
WorksOn(c, t, j) == Works(c, t) /\ thread[c][t].job = j
Done(c, j) == results[c][j] = Failed \/ Whole(Targets[c][j], results[c][j])

FetchTypes ==
  /\ forks \subseteq {1, 2}
  /\ cache = [k \in Keys |-> cache[k]]
  /\ phase \in [Claims -> Phases]
  /\ index \in [Claims -> SUBSET Keys] /\ next \in [Claims -> Nat]
  /\ results = [c \in Claims |-> results[c]]
  /\ thread \in [Claims -> [Threads -> ThreadStates]]

\* Entries are whole, those a process has listed among them.
CacheHolds ==
  /\ \A k \in Keys : cache[k] # NoEntry => Whole(k, cache[k])
  /\ \A c \in Claims : \A k \in index[c] : Whole(k, cache[k])

\* A thread that has a target holds part of its evidence.
ThreadsHold ==
  \A c \in Claims, t \in Threads :
    phase[c] = "blocks" /\ Works(c, t) =>
      /\ thread[c][t].job \in DOMAIN Targets[c]
      /\ Part(Target(c, t), thread[c][t].found)
      /\ thread[c][t].unread \subseteq index[c]

\* A target is done, or some thread has it, or none has taken it; later all are done.
AllWhole(c) ==
  /\ results[c] = [j \in DOMAIN Targets[c] |-> results[c][j]]
  /\ \A j \in DOMAIN Targets[c] : Whole(Targets[c][j], results[c][j])
ClaimHolds(c) ==
  /\ phase[c] = "blocks" =>
       /\ results[c] = [j \in DOMAIN Targets[c] |-> results[c][j]]
       /\ next[c] \in 1 .. Len(Targets[c]) + 1
       /\ \A t \in Threads : thread[c][t].pc = "over" => next[c] \notin DOMAIN Targets[c]
       /\ \A j \in DOMAIN Targets[c] :
            j >= next[c] \/ Done(c, j) \/ \E t \in Threads : WorksOn(c, t, j)
  /\ phase[c] \in {"build", "write", "writing", "done"} => AllWhole(c)
ResultsHold == \A c \in Claims : ClaimHolds(c)

WitnessHolds ==
  /\ witness = [c \in Claims |-> witness[c]]
  /\ \A c \in Claims : IsWhole(c) =>
       \A j \in DOMAIN Targets[c] : Whole(Targets[c][j], witness[c][j])

EvidenceInv == FetchTypes /\ CacheHolds /\ ThreadsHold /\ ResultsHold /\ WitnessHolds

-----------------------------------------------------------------------------
(* Evidence *)

LEMMA TargetsAreKeys ==
  ASSUME NEW c \in Claims
  PROVE  /\ Len(Targets[c]) \in Nat /\ DOMAIN Targets[c] = 1 .. Len(Targets[c])
         /\ \A j \in DOMAIN Targets[c] : Targets[c][j] \in Keys
  BY TargetsAssumption DEF Keys

LEMMA KeysAreTargets == Keys \subseteq TargetSet
<1> SUFFICES ASSUME NEW k \in Keys PROVE k \in TargetSet
  OBVIOUS
<1>1. CASE k \in Earlier
  BY <1>1, TargetsAssumption
<1>2. CASE \E c \in Claims : \E j \in DOMAIN Targets[c] : k = Targets[c][j]
  <2>1. PICK c \in Claims : \E j \in DOMAIN Targets[c] : k = Targets[c][j]
    BY <1>2
  <2>2. Targets[c] \in Seq(TargetSet)
    BY TargetsAssumption
  <2> QED
    BY <2>1, <2>2
<1> QED
  BY <1>1, <1>2 DEF Keys

LEMMA TxsOfKeys ==
  ASSUME NEW k \in Keys
  PROVE  k.receipts \subseteq Txs /\ k.transactions \subseteq Txs
  BY DEF Txs

LEMMA ServedVersions ==
  ASSUME FetchTypes, NEW block, NEW v \in Served(block)
  PROVE  v \in {1, 2}
  BY DEF FetchTypes, Served, Version

LEMMA FullIsWhole ==
  ASSUME NEW k \in Keys, NEW v \in {1, 2}
  PROVE  Whole(k, FullEvidence(k, v))
  BY TxsOfKeys DEF Whole, OfOneBlock, FullEvidence, Evidence, Evidences

LEMMA HeaderIsPart ==
  ASSUME NEW target \in Keys, NEW v \in 0 .. 2
  PROVE  Part(target, [Nothing EXCEPT !.header = v]) /\ Part(target, Nothing)
  BY DEF Part, Nothing, Evidence, Evidences

LEMMA CompleteIsWhole ==
  ASSUME NEW target \in Keys, NEW e, Part(target, e), Complete(target, e)
  PROVE  Whole(target, e)
<1>1. target.receipts \X {e.header} \subseteq e.receipts
  <2> SUFFICES ASSUME NEW i \in target.receipts PROVE <<i, e.header>> \in e.receipts
    OBVIOUS
  <2>1. PICK proof \in e.receipts : proof[1] = i
    BY DEF Complete, Indices
  <2> QED
    BY <2>1 DEF Part
<1>2. target.transactions \X {e.header} \subseteq e.transactions
  <2> SUFFICES ASSUME NEW i \in target.transactions PROVE <<i, e.header>> \in e.transactions
    OBVIOUS
  <2>1. PICK proof \in e.transactions : proof[1] = i
    BY DEF Complete, Indices
  <2> QED
    BY <2>1 DEF Part
<1>3. target.receipts # {} => e.positions # {}
  <2> SUFFICES ASSUME NEW i \in target.receipts PROVE e.positions # {}
    OBVIOUS
  <2>1. <<i, e.header>> \in e.receipts
    BY <1>1
  <2> QED
    BY <2>1 DEF Part
<1> QED
  BY <1>1, <1>2, <1>3 DEF Part, Whole, OfOneBlock, Complete

\* What is added to proofs of one version from a whole entry of that version is of it.
LEMMA AddedProofs ==
  ASSUME NEW have, NEW wanted, NEW more, NEW h, have \subseteq wanted \X {h},
         NEW all, more = all \X {h}
  PROVE  /\ Added(have, more, wanted) \subseteq wanted \X {h}
         /\ Added(have, more, wanted) # {} => have # {} \/ all # {}
  BY DEF Added

LEMMA MergedIsPart ==
  ASSUME NEW target \in Keys, NEW k \in Keys, NEW found, Part(target, found),
         NEW e, Whole(k, e)
  PROVE  Part(target, Merged(target, found, e))
<1>1. CASE found.header \notin {0, e.header}
  BY <1>1 DEF Merged
<1>2. CASE found.header \in {0, e.header}
  <2> DEFINE R == Added(found.receipts, e.receipts, target.receipts)
             T == Added(found.transactions, e.transactions, target.transactions)
             P == found.positions \cup e.positions
  <2>1. Merged(target, found, e) = Evidence(e.header, R, T, P)
    BY <1>2 DEF Merged
  <2>2. /\ found.receipts \subseteq target.receipts \X {e.header}
        /\ found.transactions \subseteq target.transactions \X {e.header}
        /\ found.positions \subseteq {e.header}
    BY <1>2 DEF Part
  <2>3. R \subseteq target.receipts \X {e.header}
        /\ (R # {} => found.receipts # {} \/ k.receipts # {})
    BY <2>2, AddedProofs DEF Whole, OfOneBlock
  <2>4. T \subseteq target.transactions \X {e.header}
    BY <2>2, AddedProofs DEF Whole, OfOneBlock
  <2>5. P \subseteq {e.header} /\ (R # {} => P # {})
    BY <2>2, <2>3 DEF Whole, OfOneBlock, Part
  <2>6. e.header \in 0 .. 2 /\ e.header # 0
    BY DEF Whole, Evidences
  <2>7. Evidence(e.header, R, T, P) \in Evidences
    <3>1. R \in SUBSET (Txs \X (0 .. 2)) /\ T \in SUBSET (Txs \X (0 .. 2))
      BY <2>3, <2>4, <2>6, TxsOfKeys
    <3>2. P \in SUBSET (0 .. 2)
      BY <2>5, <2>6
    <3> HIDE DEF R, T, P
    <3> QED
      BY <3>1, <3>2, <2>6 DEF Evidences, Evidence
  <2> HIDE DEF R, T, P
  <2> QED
    BY <2>1, <2>3, <2>4, <2>5, <2>6, <2>7 DEF Part, Evidence
<1> QED
  BY <1>1, <1>2

LEMMA FetchedIsPart ==
  ASSUME NEW target \in Keys, NEW found, Part(target, found), found.header \in {1, 2}
  PROVE  /\ Part(target, [found EXCEPT !.receipts = target.receipts \X {found.header},
                                       !.positions = {found.header}])
         /\ Part(target, [found EXCEPT !.transactions = target.transactions \X {found.header}])
<1> DEFINE R == target.receipts \X {found.header}
           T == target.transactions \X {found.header}
<1>1. R \in SUBSET (Txs \X (0 .. 2)) /\ T \in SUBSET (Txs \X (0 .. 2))
  BY TxsOfKeys
<1>2. found \in Evidences
  BY DEF Part
<1>3. Part(target, [found EXCEPT !.receipts = R, !.positions = {found.header}])
  <2> DEFINE e == [found EXCEPT !.receipts = R, !.positions = {found.header}]
  <2>1. R \subseteq target.receipts \X {found.header} /\ {found.header} \in SUBSET (0 .. 2)
    OBVIOUS
  <2> HIDE DEF R
  <2>2. /\ e.header = found.header /\ e.receipts = R /\ e.positions = {found.header}
        /\ e.transactions = found.transactions /\ e \in Evidences
    BY <1>1, <1>2, <2>1 DEF Evidences
  <2> HIDE DEF e
  <2>3. Part(target, e)
    BY <2>1, <2>2 DEF Part
  <2> QED
    BY <2>3 DEF e
<1>4. Part(target, [found EXCEPT !.transactions = T])
  <2>1. T \subseteq target.transactions \X {found.header}
    OBVIOUS
  <2> HIDE DEF T
  <2> QED
    BY <1>1, <1>2, <2>1 DEF Part, Evidences
<1> QED
  BY <1>3, <1>4

-----------------------------------------------------------------------------
(* Steps of a thread *)

LEMMA IdleThread == Idle \in ThreadStates /\ Idle.pc = "next"
  BY DEF Idle, ThreadStates, Nothing, Evidence, Evidences

\* A thread at work on a target.
LEMMA AtWork ==
  ASSUME EvidenceInv, NEW c \in Claims, NEW t \in Threads, phase[c] = "blocks", Works(c, t)
  PROVE  /\ thread[c][t].job \in DOMAIN Targets[c] /\ Target(c, t) \in Keys
         /\ Part(Target(c, t), thread[c][t].found) /\ thread[c][t].unread \subseteq index[c]
         /\ thread[c][t] \in ThreadStates
  BY TargetsAreKeys DEF EvidenceInv, ThreadsHold, FetchTypes, Target

\* What holds of a claim stays so while its process does nothing.
LEMMA SameClaimHolds ==
  ASSUME NEW c \in Claims, ClaimHolds(c), phase'[c] = phase[c], next'[c] = next[c],
         results'[c] = results[c], \A t \in Threads : thread'[c][t] = thread[c][t]
  PROVE  ClaimHolds(c)'
  BY DEF ClaimHolds, AllWhole, Done, Works, WorksOn

\* A thread that keeps its target, and holds part of its evidence, may go on.
LEMMA ThreadMoves ==
  ASSUME EvidenceInv, NEW c \in Claims, NEW t \in Threads, phase[c] = "blocks", Works(c, t),
         NEW new \in ThreadStates, new.pc \in {"merge", "fetch"},
         new.job = thread[c][t].job, Part(Target(c, t), new.found),
         new.unread \subseteq thread[c][t].unread,
         thread' = [thread EXCEPT ![c][t] = new],
         UNCHANGED <<forks, cache, phase, index, next, results, witness>>
  PROVE  EvidenceInv'
<1> USE DEF EvidenceInv
<1>1. FetchTypes'
  BY DEF FetchTypes
<1>2. CacheHolds'
  BY DEF CacheHolds
<1>3. thread'[c][t] = new /\ \A d \in Claims, u \in Threads :
        <<d, u>> # <<c, t>> => thread'[d][u] = thread[d][u]
  BY DEF FetchTypes
<1>4. ThreadsHold'
  <2> SUFFICES ASSUME NEW d \in Claims, NEW u \in Threads, phase'[d] = "blocks", Works(d, u)'
               PROVE  /\ thread'[d][u].job \in DOMAIN Targets[d]
                      /\ Part(Target(d, u)', thread'[d][u].found)
                      /\ thread'[d][u].unread \subseteq index'[d]
    BY DEF ThreadsHold
  <2>1. CASE d = c /\ u = t
    BY <2>1, <1>3, AtWork DEF Target
  <2>2. CASE ~(d = c /\ u = t)
    BY <2>2, <1>3 DEF ThreadsHold, Works, Target
  <2> QED
    BY <2>1, <2>2
<1>5. ResultsHold'
  <2> SUFFICES ASSUME NEW d \in Claims, phase'[d] = "blocks"
               PROVE  /\ \A u \in Threads :
                           thread'[d][u].pc = "over" => next'[d] \notin DOMAIN Targets[d]
                      /\ \A j \in DOMAIN Targets[d] :
                           \/ j >= next'[d] \/ Done(d, j)'
                           \/ \E u \in Threads : WorksOn(d, u, j)'
    BY DEF ResultsHold, ClaimHolds, AllWhole
  <2>1. \A u \in Threads : thread'[d][u].pc = "over" => thread[d][u].pc = "over"
    BY <1>3
  <2>2. ASSUME NEW j, NEW u \in Threads, WorksOn(d, u, j)
        PROVE  WorksOn(d, u, j)'
    <3>1. CASE d = c /\ u = t
      BY <2>2, <3>1, <1>3 DEF Works, WorksOn
    <3>2. CASE ~(d = c /\ u = t)
      BY <2>2, <3>2, <1>3 DEF Works, WorksOn
    <3> QED
      BY <3>1, <3>2
  <2>3. \A j : Done(d, j) => Done(d, j)'
    BY DEF Done
  <2> QED
    BY <2>1, <2>2, <2>3 DEF ResultsHold, ClaimHolds
<1>6. WitnessHolds'
  BY DEF WitnessHolds, IsWhole
<1> QED
  BY <1>1, <1>2, <1>4, <1>5, <1>6

\* A thread is done with its target, and has maybe published it.
LEMMA Delivers ==
  ASSUME EvidenceInv, NEW c \in Claims, NEW t \in Threads, phase[c] = "blocks", Works(c, t),
         NEW result, result = Failed \/ Whole(Target(c, t), result),
         Deliver(c, t, thread[c][t].job, result),
         \/ cache' = cache
         \/ /\ Whole(Target(c, t), result)
            /\ cache' = [cache EXCEPT ![Target(c, t)] = result],
         UNCHANGED <<forks, phase, index, next, witness>>
  PROVE  EvidenceInv'
<1> USE DEF EvidenceInv
<1>0. PICK job : job = thread[c][t].job
  OBVIOUS
<1>1. job \in DOMAIN Targets[c] /\ Target(c, t) \in Keys /\ Target(c, t) = Targets[c][job]
  BY <1>0, AtWork DEF Target
<1>2. results' = [results EXCEPT ![c][job] = result] /\ thread' = [thread EXCEPT ![c][t] = Idle]
  BY <1>0 DEF Deliver
<1>3. FetchTypes'
  <2>1. cache' = [k \in Keys |-> cache'[k]]
    BY DEF FetchTypes
  <2> QED
    BY <1>2, <2>1, IdleThread DEF FetchTypes
<1>4. thread'[c][t].pc = "next" /\ \A d \in Claims, u \in Threads :
        <<d, u>> # <<c, t>> => thread'[d][u] = thread[d][u]
  BY <1>2, IdleThread DEF FetchTypes
<1>5. CacheHolds'
  <2>1. \A k \in Keys : cache'[k] = cache[k] \/ Whole(k, cache'[k])
    BY <1>1 DEF FetchTypes
  <2>2. index' = index /\ \A d \in Claims : index[d] \subseteq Keys
    BY DEF FetchTypes
  <2> QED
    BY <2>1, <2>2 DEF CacheHolds
<1>6. ThreadsHold'
  BY <1>4 DEF ThreadsHold, Works, Target
<1>7. ResultsHold'
  <2> SUFFICES ASSUME NEW d \in Claims
               PROVE  /\ phase[d] = "blocks" =>
                           /\ results'[d] = [j \in DOMAIN Targets[d] |-> results'[d][j]]
                           /\ \A u \in Threads :
                                thread'[d][u].pc = "over" => next[d] \notin DOMAIN Targets[d]
                           /\ \A j \in DOMAIN Targets[d] :
                                \/ j >= next[d] \/ Done(d, j)'
                                \/ \E u \in Threads : WorksOn(d, u, j)'
                      /\ phase[d] \in {"build", "write", "writing", "done"} => AllWhole(d)'
    BY DEF ResultsHold, ClaimHolds
  <2>1. CASE d # c
    <3>1. results'[d] = results[d] /\ \A u \in Threads : thread'[d][u] = thread[d][u]
      BY <2>1, <1>2, <1>4 DEF FetchTypes
    <3> QED
      BY <3>1 DEF ResultsHold, ClaimHolds, AllWhole, Done, Works, WorksOn
  <2>2. CASE d = c
    <3>1. results[c] = [j \in DOMAIN Targets[c] |-> results[c][j]]
      BY DEF ResultsHold, ClaimHolds
    <3>2. results'[c] = [results[c] EXCEPT ![job] = result]
      BY <1>2 DEF FetchTypes
    <3>3. results'[c] = [j \in DOMAIN Targets[c] |-> results'[c][j]] /\ results'[c][job] = result
          /\ \A j \in DOMAIN Targets[c] : j # job => results'[c][j] = results[c][j]
      BY <3>1, <3>2, <1>1
    <3>4. Done(c, job)'
      BY <3>3, <1>1 DEF Done
    <3>5. \A j \in DOMAIN Targets[c] : Done(c, j) => Done(c, j)'
      BY <3>3, <3>4 DEF Done
    <3>6. \A u \in Threads : thread'[c][u].pc = "over" => next[c] \notin DOMAIN Targets[c]
      BY <1>4 DEF ResultsHold, ClaimHolds
    <3>7. \A u \in Threads : u # t => thread'[c][u] = thread[c][u]
      BY <1>4
    <3>8. ASSUME NEW j \in DOMAIN Targets[c], NEW u \in Threads, WorksOn(c, u, j)
          PROVE  Done(c, j)' \/ WorksOn(c, u, j)'
      BY <3>4, <3>7, <3>8, <1>0 DEF Works, WorksOn
    <3>9. \A j \in DOMAIN Targets[c] :
            j >= next[c] \/ Done(c, j) \/ \E u \in Threads : WorksOn(c, u, j)
      BY DEF ResultsHold, ClaimHolds
    <3> QED
      BY <2>2, <3>3, <3>5, <3>6, <3>8, <3>9
  <2> QED
    BY <2>1, <2>2
<1>8. WitnessHolds'
  BY DEF WitnessHolds, IsWhole
<1> QED
  BY <1>3, <1>5, <1>6, <1>7, <1>8

LEMMA IndexKeeps ==
  ASSUME EvidenceInv, NEW c \in Claims, IndexBlocks(c), UNCHANGED witness
  PROVE  EvidenceInv'
<1> USE DEF EvidenceInv, IndexBlocks
<1>1. FetchTypes'
  BY IdleThread DEF FetchTypes, Phases
<1>2. CacheHolds'
  BY DEF CacheHolds, FetchTypes
<1>3. /\ thread'[c] = [t \in Threads |-> Idle] /\ next'[c] = 1
      /\ results'[c] = [j \in DOMAIN Targets[c] |-> NoEntry]
      /\ \A d \in Claims : d # c =>
           /\ thread'[d] = thread[d] /\ next'[d] = next[d] /\ results'[d] = results[d]
           /\ phase'[d] = phase[d] /\ index'[d] = index[d]
      /\ phase'[c] = "blocks"
  BY DEF FetchTypes
<1>4. ThreadsHold'
  BY <1>3, IdleThread DEF ThreadsHold, Works, Target
<1>5. ResultsHold'
  <2>1. Len(Targets[c]) \in Nat /\ DOMAIN Targets[c] = 1 .. Len(Targets[c])
    BY TargetsAreKeys
  <2>2. \A j \in DOMAIN Targets[c] : j >= next'[c]
    BY <1>3, <2>1
  <2>3. next'[c] \in 1 .. Len(Targets[c]) + 1
    BY <1>3, <2>1
  <2>4. \A t \in Threads : thread'[c][t].pc # "over"
    BY <1>3, IdleThread
  <2>5. results'[c] = [j \in DOMAIN Targets[c] |-> results'[c][j]]
    BY <1>3
  <2> QED
    BY <1>3, <2>2, <2>3, <2>4, <2>5 DEF ResultsHold, ClaimHolds, AllWhole, Done, Works, WorksOn
<1>6. WitnessHolds'
  BY DEF WitnessHolds, IsWhole
<1> QED
  BY <1>1, <1>2, <1>4, <1>5, <1>6

\* A thread takes a target: it has found the whole of it, or begins to put it together.
LEMMA TakeKeeps ==
  ASSUME EvidenceInv, NEW c \in Claims, NEW t \in Threads, TakeTarget(c, t), UNCHANGED witness
  PROVE  EvidenceInv'
<1> USE DEF EvidenceInv
<1>0. PICK job : job = next[c]
  OBVIOUS
<1>1. /\ phase[c] = "blocks" /\ thread[c][t].pc = "next"
      /\ job \in DOMAIN Targets[c] /\ Targets[c][job] \in Keys
      /\ next' = [next EXCEPT ![c] = job + 1]
      /\ forks' = forks /\ cache' = cache /\ phase' = phase /\ index' = index
  BY <1>0, TargetsAreKeys DEF TakeTarget, At
<1>2. PICK new \in ThreadStates :
        /\ thread' = [thread EXCEPT ![c][t] = new]
        /\ \/ /\ new.pc = "next"
              /\ \E e : Whole(Targets[c][job], e) /\ results' = [results EXCEPT ![c][job] = e]
           \/ /\ new.pc = "merge" /\ new.job = job /\ Part(Targets[c][job], new.found)
              /\ new.unread \subseteq index[c] /\ results' = results
  <2> DEFINE target == Targets[c][job]
  <2>1. CASE cache[target] # NoEntry /\ Complete(target, cache[target])
    <3>1. Deliver(c, t, job, cache[target])
      BY <2>1, <1>0 DEF TakeTarget
    <3>2. Whole(target, cache[target])
      BY <2>1, <1>1 DEF CacheHolds
    <3> QED
      BY <3>1, <3>2, IdleThread DEF Deliver
  <2>2. CASE ~(cache[target] # NoEntry /\ Complete(target, cache[target]))
    <3> DEFINE new == [pc |-> "merge", job |-> job, found |-> Nothing,
                       unread |-> {k \in index[c] : k.block = target.block}]
    <3>1. thread' = [thread EXCEPT ![c][t] = new] /\ results' = results
      BY <2>2, <1>0 DEF TakeTarget
    <3>2. job \in Nat
      BY <1>1, TargetsAreKeys
    <3>3. Part(target, Nothing)
      BY <1>1, HeaderIsPart
    <3>4. new \in ThreadStates
      BY <3>2, <3>3 DEF ThreadStates, Part, FetchTypes
    <3> QED
      BY <3>1, <3>3, <3>4
  <2> QED
    BY <2>1, <2>2
<1>3. FetchTypes'
  <2>1. job + 1 \in Nat
    BY <1>1, TargetsAreKeys
  <2>2. results' = [d \in Claims |-> results'[d]]
    BY <1>2 DEF FetchTypes
  <2> QED
    BY <1>1, <1>2, <2>1, <2>2 DEF FetchTypes
<1>4. /\ thread'[c][t] = new /\ next'[c] = job + 1
      /\ \A d \in Claims, u \in Threads : <<d, u>> # <<c, t>> => thread'[d][u] = thread[d][u]
      /\ \A d \in Claims : d # c => next'[d] = next[d] /\ results'[d] = results[d]
  BY <1>1, <1>2 DEF FetchTypes
<1>5. CacheHolds'
  BY <1>1 DEF CacheHolds
<1>6. ThreadsHold'
  <2> SUFFICES ASSUME NEW d \in Claims, NEW u \in Threads, phase[d] = "blocks", Works(d, u)'
               PROVE  /\ thread'[d][u].job \in DOMAIN Targets[d]
                      /\ Part(Target(d, u)', thread'[d][u].found)
                      /\ thread'[d][u].unread \subseteq index[d]
    BY <1>1 DEF ThreadsHold
  <2>1. CASE d = c /\ u = t
    BY <2>1, <1>1, <1>2, <1>4 DEF Target, Works
  <2>2. CASE ~(d = c /\ u = t)
    BY <2>2, <1>4 DEF ThreadsHold, Works, Target
  <2> QED
    BY <2>1, <2>2
<1>7. ResultsHold'
  <2>1. ASSUME NEW d \in Claims, d # c
        PROVE  /\ results'[d] = results[d] /\ next'[d] = next[d] /\ phase'[d] = phase[d]
               /\ \A u \in Threads : thread'[d][u] = thread[d][u]
    BY <2>1, <1>1, <1>4
  <2>2. results[c] = [j \in DOMAIN Targets[c] |-> results[c][j]]
    BY <1>1 DEF ResultsHold, ClaimHolds
  <2>3. \A j \in DOMAIN Targets[c] : Done(c, j) => Done(c, j)'
    BY <1>2, <2>2 DEF Done, FetchTypes
  <2>4. Done(c, job)' \/ WorksOn(c, t, job)'
    BY <1>1, <1>2, <1>4, <2>2 DEF Done, WorksOn, Works, FetchTypes
  <2>5. \A j : \A u \in Threads : WorksOn(c, u, j) => WorksOn(c, u, j)'
    BY <1>1, <1>4 DEF Works, WorksOn
  <2>6. ASSUME NEW j \in DOMAIN Targets[c]
        PROVE  \/ j >= job + 1 \/ Done(c, j)' \/ \E u \in Threads : WorksOn(c, u, j)'
    <3>1. j = job \/ j >= job + 1 \/ ~(j >= job)
      BY <1>1, TargetsAreKeys
    <3>2. j >= job \/ Done(c, j) \/ \E u \in Threads : WorksOn(c, u, j)
      BY <1>0, <1>1 DEF ResultsHold, ClaimHolds
    <3> QED
      BY <3>1, <3>2, <2>3, <2>4, <2>5
  <2>7. results'[c] = [j \in DOMAIN Targets[c] |-> results'[c][j]]
    BY <1>2, <2>2 DEF FetchTypes
  <2>8. job + 1 \in 1 .. Len(Targets[c]) + 1
    BY <1>1, TargetsAreKeys
  <2>9. \A u \in Threads : thread'[c][u].pc # "over"
    <3>1. \A u \in Threads : thread[c][u].pc # "over"
      BY <1>0, <1>1 DEF ResultsHold, ClaimHolds
    <3>2. new.pc # "over"
      BY <1>2
    <3> QED
      BY <1>4, <3>1, <3>2
  <2>10. \A d \in Claims : ClaimHolds(d)'
    <3> SUFFICES ASSUME NEW d \in Claims PROVE ClaimHolds(d)'
      OBVIOUS
    <3>1. CASE d = c
      BY <3>1, <1>1, <1>4, <2>6, <2>7, <2>8, <2>9 DEF ClaimHolds
    <3>2. CASE d # c
      BY <3>2, <2>1, SameClaimHolds DEF ResultsHold
    <3> QED
      BY <3>1, <3>2
  <2> QED
    BY <2>10 DEF ResultsHold
<1>8. WitnessHolds'
  BY DEF WitnessHolds, IsWhole
<1> QED
  BY <1>3, <1>5, <1>6, <1>7, <1>8

LEMMA EndKeeps ==
  ASSUME EvidenceInv, NEW c \in Claims, NEW t \in Threads, ThreadEnds(c, t), UNCHANGED witness
  PROVE  EvidenceInv'
<1> USE DEF EvidenceInv, ThreadEnds
<1>1. FetchTypes'
  <2>1. thread[c][t] \in ThreadStates
    BY DEF FetchTypes
  <2>2. [thread[c][t] EXCEPT !.pc = "over"] \in ThreadStates
    BY <2>1 DEF ThreadStates
  <2>3. thread' \in [Claims -> [Threads -> ThreadStates]]
    BY <2>2 DEF FetchTypes
  <2> QED
    BY <2>3 DEF FetchTypes
<1>2. CacheHolds'
  BY DEF CacheHolds
<1>3. /\ thread'[c][t].pc = "over" /\ thread[c][t].pc = "next" /\ next[c] \notin DOMAIN Targets[c]
      /\ \A d \in Claims, u \in Threads : <<d, u>> # <<c, t>> => thread'[d][u] = thread[d][u]
  <2>1. thread[c][t] \in ThreadStates
    BY DEF FetchTypes
  <2> QED
    BY <2>1 DEF FetchTypes, ThreadStates, At
<1>4. ThreadsHold'
  BY <1>3 DEF ThreadsHold, Works, Target
<1>5. ResultsHold'
  <2>1. ASSUME NEW d \in Claims, NEW u \in Threads, NEW j, WorksOn(d, u, j)
        PROVE  WorksOn(d, u, j)'
    BY <2>1, <1>3 DEF WorksOn, Works
  <2>2. \A d \in Claims : \A j : Done(d, j) => Done(d, j)'
    BY DEF Done
  <2>3. \A d \in Claims, u \in Threads :
          thread'[d][u].pc = "over" => thread[d][u].pc = "over" \/ next[d] \notin DOMAIN Targets[d]
    BY <1>3
  <2> QED
    BY <2>1, <2>2, <2>3 DEF ResultsHold, ClaimHolds, AllWhole
<1>6. WitnessHolds'
  BY DEF WitnessHolds, IsWhole
<1> QED
  BY <1>1, <1>2, <1>4, <1>5, <1>6

-----------------------------------------------------------------------------
(* Asking the provider *)

LEMMA MergeKeeps ==
  ASSUME EvidenceInv, NEW c \in Claims, NEW t \in Threads, MergeCached(c, t),
         UNCHANGED witness
  PROVE  EvidenceInv'
<1>1. phase[c] = "blocks" /\ thread[c][t].pc = "merge" /\ Works(c, t)
  BY DEF MergeCached, At, Works
<1>2. PICK k \in thread[c][t].unread :
        thread' = [thread EXCEPT ![c][t] =
                     [@ EXCEPT !.unread = thread[c][t].unread \ {k},
                               !.found = Merged(Target(c, t), thread[c][t].found, cache[k])]]
  BY DEF MergeCached
<1>3. PICK old : old = thread[c][t]
  OBVIOUS
<1>4. PICK found : found = Merged(Target(c, t), old.found, cache[k])
  OBVIOUS
<1>5. PICK new : new = [old EXCEPT !.unread = old.unread \ {k}, !.found = found]
  OBVIOUS
<1>6. thread' = [thread EXCEPT ![c][t] = new]
  BY <1>2, <1>3, <1>4, <1>5, Zenon
<1>7. k \in index[c] /\ k \in Keys /\ Whole(k, cache[k])
  <2>1. k \in index[c]
    BY <1>1, <1>2, AtWork
  <2>2. index[c] \subseteq Keys
    BY DEF EvidenceInv, FetchTypes
  <2> QED
    BY <2>1, <2>2 DEF EvidenceInv, CacheHolds
<1>8. Part(Target(c, t), found) /\ found \in Evidences
  BY <1>1, <1>3, <1>4, <1>7, AtWork, MergedIsPart DEF Part
<1>9. old \in ThreadStates
  BY <1>1, <1>3, AtWork
<1>10. /\ new \in ThreadStates /\ new.pc = old.pc /\ new.job = old.job /\ new.found = found
       /\ new.unread \subseteq old.unread
  BY <1>5, <1>8, <1>9 DEF ThreadStates
<1>11. UNCHANGED <<forks, cache, phase, index, next, results>>
  BY DEF MergeCached
<1> QED
  BY <1>1, <1>3, <1>6, <1>8, <1>10, <1>11, ThreadMoves

LEMMA HeaderKeeps ==
  ASSUME EvidenceInv, NEW c \in Claims, NEW t \in Threads, FetchHeader(c, t),
         UNCHANGED witness
  PROVE  EvidenceInv'
<1>1. phase[c] = "blocks" /\ thread[c][t].pc = "merge" /\ Works(c, t)
  BY DEF FetchHeader, At, Works
<1>2. PICK v \in Served(Target(c, t).block) :
        thread' = [thread EXCEPT ![c][t] =
                     [@ EXCEPT !.pc = "fetch", !.found = [Nothing EXCEPT !.header = v]]]
  BY DEF FetchHeader
<1>3. PICK old : old = thread[c][t]
  OBVIOUS
<1>4. PICK found : found = [Nothing EXCEPT !.header = v]
  OBVIOUS
<1>5. PICK new : new = [old EXCEPT !.pc = "fetch", !.found = found]
  OBVIOUS
<1>6. thread' = [thread EXCEPT ![c][t] = new]
  BY <1>2, <1>3, <1>4, <1>5, Zenon
<1>7. v \in {1, 2}
  BY ServedVersions DEF EvidenceInv
<1>8. Part(Target(c, t), found) /\ found \in Evidences
  BY <1>1, <1>4, <1>7, AtWork, HeaderIsPart DEF Part
<1>9. old \in ThreadStates
  BY <1>1, <1>3, AtWork
<1>10. /\ new \in ThreadStates /\ new.pc = "fetch" /\ new.job = old.job /\ new.found = found
       /\ new.unread = old.unread
  BY <1>5, <1>8, <1>9 DEF ThreadStates
<1>11. UNCHANGED <<forks, cache, phase, index, next, results>>
  BY DEF FetchHeader
<1> QED
  BY <1>1, <1>3, <1>6, <1>8, <1>10, <1>11, ThreadMoves

LEMMA ReceiptsKeep ==
  ASSUME EvidenceInv, NEW c \in Claims, NEW t \in Threads, FetchReceipts(c, t),
         UNCHANGED witness
  PROVE  EvidenceInv'
<1>1. phase[c] = "blocks" /\ thread[c][t].pc = "fetch" /\ Works(c, t)
  BY DEF FetchReceipts, At, Works
<1>2. PICK v \in Served(Target(c, t).block) :
        IF v = thread[c][t].found.header
        THEN /\ thread' = [thread EXCEPT ![c][t].found =
                             [@ EXCEPT !.receipts = Target(c, t).receipts \X {v},
                                       !.positions = {v}]]
             /\ UNCHANGED results
        ELSE Deliver(c, t, thread[c][t].job, Failed)
  BY DEF FetchReceipts
<1>3. v \in {1, 2}
  BY ServedVersions DEF EvidenceInv
<1>4. UNCHANGED <<forks, cache, phase, index, next>>
  BY DEF FetchReceipts
<1>5. CASE v = thread[c][t].found.header
  <2>1. PICK old : old = thread[c][t]
    OBVIOUS
  <2>2. PICK had : had = old.found
    OBVIOUS
  <2>3. PICK found : found = [had EXCEPT !.receipts = Target(c, t).receipts \X {v},
                                          !.positions = {v}]
    OBVIOUS
  <2>4. PICK new : new = [old EXCEPT !.found = found]
    OBVIOUS
  <2>5. thread' = [thread EXCEPT ![c][t] = new] /\ UNCHANGED results
    BY <1>2, <1>5, <2>1, <2>2, <2>3, <2>4, Zenon
  <2>6. Part(Target(c, t), had) /\ had.header = v /\ Target(c, t) \in Keys
    BY <1>1, <1>5, <2>1, <2>2, AtWork
  <2>7. Part(Target(c, t), found) /\ found \in Evidences
    BY <1>3, <2>3, <2>6, FetchedIsPart DEF Part
  <2>8. old \in ThreadStates
    BY <1>1, <2>1, AtWork
  <2>9. /\ new \in ThreadStates /\ new.pc = old.pc /\ new.job = old.job /\ new.found = found
        /\ new.unread = old.unread
    BY <2>4, <2>7, <2>8 DEF ThreadStates
  <2> QED
    BY <1>1, <1>4, <2>1, <2>5, <2>7, <2>9, ThreadMoves
<1>6. CASE v # thread[c][t].found.header
  BY <1>1, <1>2, <1>4, <1>6, Delivers
<1> QED
  BY <1>5, <1>6

LEMMA TransactionsKeep ==
  ASSUME EvidenceInv, NEW c \in Claims, NEW t \in Threads, FetchTransactions(c, t),
         UNCHANGED witness
  PROVE  EvidenceInv'
<1>1. phase[c] = "blocks" /\ thread[c][t].pc = "fetch" /\ Works(c, t)
  BY DEF FetchTransactions, At, Works
<1>2. PICK v \in Served(Target(c, t).block) :
        IF v = thread[c][t].found.header
        THEN /\ thread' = [thread EXCEPT ![c][t].found =
                             [@ EXCEPT !.transactions = Target(c, t).transactions \X {v}]]
             /\ UNCHANGED results
        ELSE Deliver(c, t, thread[c][t].job, Failed)
  BY DEF FetchTransactions
<1>3. v \in {1, 2}
  BY ServedVersions DEF EvidenceInv
<1>4. UNCHANGED <<forks, cache, phase, index, next>>
  BY DEF FetchTransactions
<1>5. CASE v = thread[c][t].found.header
  <2>1. PICK old : old = thread[c][t]
    OBVIOUS
  <2>2. PICK had : had = old.found
    OBVIOUS
  <2>3. PICK found : found = [had EXCEPT !.transactions = Target(c, t).transactions \X {v}]
    OBVIOUS
  <2>4. PICK new : new = [old EXCEPT !.found = found]
    OBVIOUS
  <2>5. thread' = [thread EXCEPT ![c][t] = new] /\ UNCHANGED results
    BY <1>2, <1>5, <2>1, <2>2, <2>3, <2>4, Zenon
  <2>6. Part(Target(c, t), had) /\ had.header = v /\ Target(c, t) \in Keys
    BY <1>1, <1>5, <2>1, <2>2, AtWork
  <2>7. Part(Target(c, t), found) /\ found \in Evidences
    BY <1>3, <2>3, <2>6, FetchedIsPart DEF Part
  <2>8. old \in ThreadStates
    BY <1>1, <2>1, AtWork
  <2>9. /\ new \in ThreadStates /\ new.pc = old.pc /\ new.job = old.job /\ new.found = found
        /\ new.unread = old.unread
    BY <2>4, <2>7, <2>8 DEF ThreadStates
  <2> QED
    BY <1>1, <1>4, <2>1, <2>5, <2>7, <2>9, ThreadMoves
<1>6. CASE v # thread[c][t].found.header
  BY <1>1, <1>2, <1>4, <1>6, Delivers
<1> QED
  BY <1>5, <1>6

LEMMA FailureKeeps ==
  ASSUME EvidenceInv, NEW c \in Claims, NEW t \in Threads, FetchFails(c, t), UNCHANGED witness
  PROVE  EvidenceInv'
  BY Delivers DEF FetchFails, Works

LEMMA PublishKeeps ==
  ASSUME EvidenceInv, NEW c \in Claims, NEW t \in Threads, Publish(c, t), UNCHANGED witness
  PROVE  EvidenceInv'
<1>1. phase[c] = "blocks" /\ Works(c, t)
  BY DEF Publish, Works
<1>2. Whole(Target(c, t), thread[c][t].found)
  BY <1>1, AtWork, CompleteIsWhole DEF Publish
<1> QED
  BY <1>1, <1>2, Delivers DEF Publish

-----------------------------------------------------------------------------
(* Processes and the script *)

\* Steps that leave fetching alone, and the phase of every process.
LEMMA OthersKeep ==
  ASSUME EvidenceInv, forks' \subseteq {1, 2},
         UNCHANGED <<cache, phase, index, next, results, thread, witness>>
  PROVE  EvidenceInv'
<1> USE DEF EvidenceInv
<1>1. FetchTypes'
  BY DEF FetchTypes
<1>2. CacheHolds'
  BY DEF CacheHolds
<1>3. ThreadsHold'
  BY DEF ThreadsHold, Works, Target
<1>4. ResultsHold'
  BY SameClaimHolds DEF ResultsHold
<1>5. WitnessHolds'
  BY DEF WitnessHolds, IsWhole
<1> QED
  BY <1>1, <1>2, <1>3, <1>4, <1>5

\* A process goes on to another phase, with whole results or with none needed.
LEMMA PhaseKeeps ==
  ASSUME EvidenceInv, NEW c \in Claims, NEW p \in Phases \ {"blocks"},
         phase' = [phase EXCEPT ![c] = p],
         p \in {"build", "write", "writing", "done"} => AllWhole(c),
         UNCHANGED <<forks, cache, index, next, results, thread>>, WitnessHolds'
  PROVE  EvidenceInv'
<1> USE DEF EvidenceInv
<1>1. FetchTypes'
  BY DEF FetchTypes
<1>2. CacheHolds'
  BY DEF CacheHolds
<1>3. phase'[c] = p /\ \A d \in Claims : d # c => phase'[d] = phase[d]
  BY DEF FetchTypes
<1>4. ThreadsHold'
  BY <1>3 DEF ThreadsHold, Works, Target
<1>5. ResultsHold'
  <2> SUFFICES ASSUME NEW d \in Claims PROVE ClaimHolds(d)'
    BY DEF ResultsHold
  <2>1. CASE d = c
    BY <2>1, <1>3 DEF ClaimHolds, AllWhole
  <2>2. CASE d # c
    BY <2>2, <1>3, SameClaimHolds DEF ResultsHold
  <2> QED
    BY <2>1, <2>2
<1> QED
  BY <1>1, <1>2, <1>4, <1>5

\* Processes end.
LEMMA ForgetKeeps ==
  ASSUME EvidenceInv, NEW ended \in SUBSET Claims, Forget(ended),
         phase' = [c \in Claims |-> IF c \in ended THEN "none" ELSE phase[c]],
         UNCHANGED <<forks, cache>>, WitnessHolds'
  PROVE  EvidenceInv'
<1> USE DEF EvidenceInv, Forget
<1>1. FetchTypes'
  BY IdleThread DEF FetchTypes, Phases
<1>2. CacheHolds'
  BY DEF CacheHolds, FetchTypes
<1>3. \A c \in Claims \ ended :
        /\ phase'[c] = phase[c] /\ next'[c] = next[c] /\ results'[c] = results[c]
        /\ thread'[c] = thread[c] /\ index'[c] = index[c]
  OBVIOUS
<1>4. \A c \in ended : phase'[c] = "none"
  OBVIOUS
<1>5. ThreadsHold'
  BY <1>3, <1>4 DEF ThreadsHold, Works, Target
<1>6. ResultsHold'
  <2> SUFFICES ASSUME NEW c \in Claims PROVE ClaimHolds(c)'
    BY DEF ResultsHold
  <2>1. CASE c \in ended
    BY <2>1, <1>4 DEF ClaimHolds
  <2>2. CASE c \notin ended
    BY <2>2, <1>3, SameClaimHolds DEF ResultsHold
  <2> QED
    BY <2>1, <2>2
<1> QED
  BY <1>1, <1>2, <1>5, <1>6

\* When all threads are over, every target is done.
LEMMA CollectKeeps ==
  ASSUME EvidenceInv, NEW c \in Claims, CollectBlocks(c), UNCHANGED witness
  PROVE  EvidenceInv'
<1>1. /\ phase[c] = "blocks" /\ \A t \in Threads : thread[c][t].pc = "over"
      /\ UNCHANGED <<forks, cache, index, next, results, thread>>
  BY DEF CollectBlocks, fetching
<1>2. /\ results[c] = [j \in DOMAIN Targets[c] |-> results[c][j]]
      /\ next[c] \in 1 .. Len(Targets[c]) + 1
      /\ next[c] \notin DOMAIN Targets[c]
      /\ \A j \in DOMAIN Targets[c] :
           j >= next[c] \/ Done(c, j) \/ \E t \in Threads : WorksOn(c, t, j)
  BY <1>1, ThreadsAssumption DEF EvidenceInv, ResultsHold, ClaimHolds
<1>3. \A j \in DOMAIN Targets[c] : ~(j >= next[c])
  BY <1>2, TargetsAreKeys
<1>4. \A j \in DOMAIN Targets[c] : Done(c, j)
  BY <1>1, <1>2, <1>3 DEF WorksOn, Works
<1>5. PICK p : p = IF \E j \in DOMAIN results[c] : results[c][j] = Failed
                   THEN "failed" ELSE "build"
  OBVIOUS
<1>6. phase' = [phase EXCEPT ![c] = p] /\ p \in Phases \ {"blocks"}
  BY <1>5 DEF CollectBlocks, Phases
<1>7. p \in {"build", "write", "writing", "done"} => AllWhole(c)
  BY <1>2, <1>4, <1>5 DEF Done, AllWhole
<1>8. WitnessHolds'
  BY DEF EvidenceInv, WitnessHolds, IsWhole
<1> QED
  BY <1>1, <1>6, <1>7, <1>8, PhaseKeeps

LEMMA BlockStepKeeps ==
  ASSUME EvidenceInv, NEW c \in Claims, BlockStep(c), UNCHANGED witness
  PROVE  EvidenceInv'
  BY IndexKeeps, CollectKeeps, TakeKeeps, EndKeeps, MergeKeeps, HeaderKeeps, ReceiptsKeep,
     TransactionsKeep, PublishKeeps DEF BlockStep

\* A witness that is written is whole, or is not taken for whole.
LEMMA RewriteHolds ==
  ASSUME WitnessHolds, NEW c \in Claims, NEW contents, Rewrite(c, contents),
         \A j \in DOMAIN contents : j \in DOMAIN Targets[c] => Whole(Targets[c][j], contents[j])
  PROVE  WitnessHolds'
<1>1. witness' = [witness EXCEPT ![c] = contents]
  BY DEF Rewrite
<1>2. witness'[c] = contents /\ \A d \in Claims : d # c => witness'[d] = witness[d]
  BY <1>1 DEF WitnessHolds
<1>3. witness' = [d \in Claims |-> witness'[d]]
  BY <1>1 DEF WitnessHolds
<1> QED
  BY <1>2, <1>3 DEF WitnessHolds, IsWhole

\* The materializer after its blocks are there.
LEMMA MaterializerKeeps ==
  ASSUME EvidenceInv, NEW c \in Claims,
         BuildInput(c) \/ BuildFails(c) \/ TruncateWitness(c) \/ WriteWitness(c)
  PROVE  EvidenceInv'
<1>1. UNCHANGED <<forks, cache, index, next, results, thread>>
  BY DEF BuildInput, BuildFails, TruncateWitness, WriteWitness, fetching
<1>2. ASSUME phase[c] \in {"build", "write", "writing", "done"}
      PROVE  AllWhole(c)
  BY <1>2 DEF EvidenceInv, ResultsHold, ClaimHolds
<1>3. UNCHANGED witness => WitnessHolds'
  BY DEF EvidenceInv, WitnessHolds, IsWhole
<1>4. CASE BuildInput(c)
  <2>1. PICK p \in {"write", "failed"} : phase' = [phase EXCEPT ![c] = p]
    BY <1>4 DEF BuildInput
  <2>2. p \in Phases \ {"blocks"} /\ phase[c] = "build" /\ UNCHANGED witness
    BY <1>4 DEF BuildInput, Phases, files
  <2> QED
    BY <1>1, <1>2, <1>3, <2>1, <2>2, PhaseKeeps
<1>5. CASE BuildFails(c)
  <2>1. phase' = [phase EXCEPT ![c] = "failed"] /\ UNCHANGED witness
    BY <1>5 DEF BuildFails, files
  <2>2. "failed" \in Phases \ {"blocks"}
    BY DEF Phases
  <2> QED
    BY <1>1, <1>3, <2>1, <2>2, PhaseKeeps
<1>6. CASE TruncateWitness(c)
  <2>1. phase[c] = "write" /\ phase' = [phase EXCEPT ![c] = "writing"] /\ Rewrite(c, <<>>)
    BY <1>6 DEF TruncateWitness
  <2>2. "writing" \in Phases \ {"blocks"}
    BY DEF Phases
  <2>3. WitnessHolds'
    BY <2>1, RewriteHolds DEF EvidenceInv
  <2> QED
    BY <1>1, <1>2, <2>1, <2>2, <2>3, PhaseKeeps
<1>7. CASE WriteWitness(c)
  <2>1. phase[c] = "writing" /\ phase' = [phase EXCEPT ![c] = "done"]
        /\ Rewrite(c, results[c])
    BY <1>7 DEF WriteWitness
  <2>2. "done" \in Phases \ {"blocks"}
    BY DEF Phases
  <2>3. WitnessHolds'
    BY <1>2, <2>1, RewriteHolds DEF EvidenceInv, AllWhole
  <2> QED
    BY <1>1, <1>2, <2>1, <2>2, <2>3, PhaseKeeps
<1> QED
  BY <1>4, <1>5, <1>6, <1>7

\* The pool's steps that begin and end a process.
LEMMA PoolKeeps ==
  ASSUME EvidenceInv, NEW c \in Claims, Spawn(c) \/ ChildFailed(c) \/ StatWitness(c)
  PROVE  EvidenceInv'
<1>1. UNCHANGED <<forks, cache, witness>>
  BY DEF Spawn, ChildFailed, StatWitness, files
<1>2. WitnessHolds'
  BY <1>1 DEF EvidenceInv, WitnessHolds, IsWhole
<1>3. CASE Spawn(c)
  <2>1. phase' = [phase EXCEPT ![c] = "index"] /\ UNCHANGED <<index, next, results, thread>>
    BY <1>3 DEF Spawn, fetching
  <2>2. "index" \in Phases \ {"blocks"}
    BY DEF Phases
  <2> QED
    BY <1>1, <1>2, <2>1, <2>2, PhaseKeeps
<1>4. CASE ChildFailed(c) \/ StatWitness(c)
  <2>1. phase' = [phase EXCEPT ![c] = "none"] /\ Forget({c})
    BY <1>4 DEF ChildFailed, StatWitness, Exited
  <2>2. phase' = [d \in Claims |-> IF d \in {c} THEN "none" ELSE phase[d]]
    BY <2>1 DEF EvidenceInv, FetchTypes
  <2> QED
    BY <1>1, <1>2, <2>1, <2>2, ForgetKeeps
<1> QED
  BY <1>3, <1>4

LEMMA KillKeeps ==
  ASSUME EvidenceInv, Kill
  PROVE  EvidenceInv'
<1>1. PICK cut \in SUBSET Claims :
        witness' = [c \in Claims |-> IF c \in cut THEN Cut ELSE witness[c]]
  BY DEF Kill
<1>2. WitnessHolds'
  BY <1>1 DEF EvidenceInv, WitnessHolds, IsWhole
<1>3. phase' = [c \in Claims |-> IF c \in Claims THEN "none" ELSE phase[c]]
      /\ Forget(Claims) /\ UNCHANGED <<forks, cache>>
  BY DEF Kill
<1> QED
  BY <1>2, <1>3, ForgetKeeps

-----------------------------------------------------------------------------
(* The specification *)

LEMMA InvInit == Init => EvidenceInv
<1> SUFFICES ASSUME Init PROVE EvidenceInv
  OBVIOUS
<1> USE DEF Init, FetchInit
<1>1. FetchTypes
  BY IdleThread DEF FetchTypes, Phases
<1>2. CacheHolds
  <2>1. \A k \in Keys : cache[k] # NoEntry => Whole(k, cache[k])
    BY FullIsWhole
  <2> QED
    BY <2>1 DEF CacheHolds
<1>3. ThreadsHold /\ ResultsHold
  BY DEF ThreadsHold, ResultsHold, ClaimHolds
<1>4. WitnessHolds
  BY DEF WitnessHolds, IsWhole
<1> QED
  BY <1>1, <1>2, <1>3, <1>4 DEF EvidenceInv

LEMMA InvNext == EvidenceInv /\ [Next]_vars => EvidenceInv'
<1> SUFFICES ASSUME EvidenceInv, [Next]_vars PROVE EvidenceInv'
  OBVIOUS
<1>1. forks \subseteq {1, 2}
  BY DEF EvidenceInv, FetchTypes
<1>2. CASE Run
  <2>1. CASE Fetching
    BY <2>1, BlockStepKeeps DEF Fetching, files
  <2>2. ASSUME NEW c \in Claims, WriteMetadata(c) \/ VerifySeller(c)
        PROVE  EvidenceInv'
    BY <1>1, <2>2, OthersKeep DEF WriteMetadata, VerifySeller, fetching
  <2>3. CASE PoolEnds \/ Recheck \/ SellersEnd \/ WriteSummary
    BY <1>1, <2>3, OthersKeep DEF PoolEnds, Recheck, SellersEnd, WriteSummary, fetching, files
  <2> QED
    BY <1>2, <2>1, <2>2, <2>3, MaterializerKeeps, PoolKeeps DEF Run
<1>3. CASE Start
  BY <1>1, <1>3, OthersKeep DEF Start, Launch, fetching, files
<1>4. CASE Upset
  <2>1. ASSUME NEW c \in Claims, NEW t \in Threads, FetchFails(c, t), UNCHANGED files
        PROVE  EvidenceInv'
    BY <2>1, FailureKeeps DEF files
  <2>2. CASE SellerFails \/ ChangeSource
    BY <1>1, <2>2, OthersKeep DEF SellerFails, ChangeSource, fetching, files
  <2> QED
    BY <1>4, <2>1, <2>2, MaterializerKeeps, KillKeeps DEF Upset
<1>5. CASE Fork
  <2>1. forks' \subseteq {1, 2} /\ UNCHANGED <<cache, phase, index, next, results, thread, witness>>
    BY <1>5 DEF Fork, Reorganise, fetching, files
  <2> QED
    BY <2>1, OthersKeep
<1>6. CASE UNCHANGED vars
  BY <1>1, <1>6, OthersKeep DEF vars, fetching, files
<1> QED
  BY <1>2, <1>3, <1>4, <1>5, <1>6 DEF Next

\* Whichever forks the endpoints serve while claims, threads and reruns share the cache,
\* evidence of two versions of a block is never mixed, in an entry or in a whole witness
\* (rpc.rs 188-276, 453-518).
THEOREM EvidenceNeverMixed == Spec => []EvidenceIsOfOneBlock
<1>1. EvidenceInv => EvidenceIsOfOneBlock
  BY DEF EvidenceInv, CacheHolds, WitnessHolds, Whole, EvidenceIsOfOneBlock
<1> QED
  BY InvInit, InvNext, <1>1, PTL DEF Spec

-----------------------------------------------------------------------------
(* Metadata *)

\* A file that was looked at after the child, or that metadata describes, is whole; one that is
\* being written is neither.
MarkHolds(c) ==
  /\ c \in seen \/ asMarked[c] => IsWhole(c)
  /\ phase[c] = "writing" => c \notin seen /\ ~asMarked[c]
  /\ phase[c] = "done" => IsWhole(c)
MarksHold == asMarked \in [Claims -> BOOLEAN] /\ \A c \in Claims : MarkHolds(c)

\* Results of a materializer that has them all are a file of their own.
LEMMA ResultsAreAFile ==
  ASSUME EvidenceInv, NEW c \in Claims, phase[c] = "writing"
  PROVE  results[c] \notin {NoFile, Cut} /\ DOMAIN results[c] = DOMAIN Targets[c]
<1>1. AllWhole(c)
  BY DEF EvidenceInv, ResultsHold, ClaimHolds
<1>2. Len(Targets[c]) \in Nat /\ DOMAIN Targets[c] = 1 .. Len(Targets[c])
  BY TargetsAreKeys
<1>3. \A k \in Keys : k.receipts \subseteq Nat /\ k.transactions \subseteq Nat
  BY KeysAreTargets DEF TargetSet
<1>4. Evidences \subseteq EvidenceSet
  <2> SUFFICES ASSUME NEW e \in Evidences PROVE e \in EvidenceSet
    OBVIOUS
  <2>1. \A i \in Txs : i \in Nat
    BY <1>3 DEF Txs
  <2>2. \A S : S \subseteq Txs \X (0 .. 2) => S \subseteq Nat \X Nat
    BY <2>1
  <2>3. e.receipts \subseteq Nat \X Nat /\ e.transactions \subseteq Nat \X Nat
    BY <2>2 DEF Evidences
  <2>4. e.header \in Nat /\ e.positions \subseteq Nat
    BY DEF Evidences
  <2>5. e = [header |-> e.header, receipts |-> e.receipts, transactions |-> e.transactions,
             positions |-> e.positions]
    BY DEF Evidences
  <2> QED
    BY <2>3, <2>4, <2>5 DEF EvidenceSet
<1>5. \A j \in 1 .. Len(Targets[c]) : results[c][j] \in EvidenceSet
  BY <1>1, <1>2, <1>4 DEF AllWhole, Whole
<1>6. results[c] = [j \in 1 .. Len(Targets[c]) |-> results[c][j]]
  BY <1>1, <1>2 DEF AllWhole
<1>7. results[c] \in Seq(EvidenceSet)
  BY <1>2, <1>5, <1>6
<1> QED
  BY <1>2, <1>6, <1>7, FilesAssumption

\* Steps that write neither a witness nor metadata, and finish none.
LEMMA NoFileChanges ==
  ASSUME MarksHold, UNCHANGED <<witness, asMarked>>, seen' \subseteq seen,
         \A c \in Claims : phase'[c] = phase[c] \/ phase'[c] \notin {"writing", "done"}
  PROVE  MarksHold'
  BY DEF MarksHold, MarkHolds, IsWhole

\* A step of one claim's files.
LEMMA OneFileChanges ==
  ASSUME MarksHold, NEW c \in Claims, MarkHolds(c)', asMarked' \in [Claims -> BOOLEAN],
         \A d \in Claims : d # c => /\ witness'[d] = witness[d] /\ asMarked'[d] = asMarked[d]
                                    /\ phase'[d] = phase[d] /\ (d \in seen' <=> d \in seen)
  PROVE  MarksHold'
  BY DEF MarksHold, MarkHolds, IsWhole

LEMMA WriteKeepsMarks ==
  ASSUME EvidenceInv, MarksHold, NEW c \in Claims, TruncateWitness(c) \/ WriteWitness(c)
  PROVE  MarksHold'
<1>1. PICK contents, p : Rewrite(c, contents) /\ phase' = [phase EXCEPT ![c] = p]
  BY DEF TruncateWitness, WriteWitness
<1>2. /\ witness'[c] = contents /\ phase'[c] = p /\ c \notin seen' /\ ~asMarked'[c]
      /\ asMarked' \in [Claims -> BOOLEAN]
      /\ \A d \in Claims : d # c => /\ witness'[d] = witness[d] /\ asMarked'[d] = asMarked[d]
                                    /\ phase'[d] = phase[d] /\ (d \in seen' <=> d \in seen)
  BY <1>1 DEF Rewrite, MarksHold, EvidenceInv, WitnessHolds, FetchTypes
<1>3. phase'[c] = "done" => IsWhole(c)'
  <2>1. CASE TruncateWitness(c)
    BY <2>1, <1>2 DEF TruncateWitness, EvidenceInv, FetchTypes
  <2>2. CASE WriteWitness(c)
    <3>1. witness'[c] = results[c] /\ phase[c] = "writing"
      BY <2>2 DEF WriteWitness, Rewrite, EvidenceInv, WitnessHolds
    <3> QED
      BY <3>1, ResultsAreAFile DEF IsWhole
  <2> QED
    BY <2>1, <2>2
<1>4. MarkHolds(c)'
  BY <1>2, <1>3 DEF MarkHolds
<1> QED
  BY <1>2, <1>4, OneFileChanges

LEMMA MetadataKeepsMarks ==
  ASSUME EvidenceInv, MarksHold, NEW c \in Claims, StatWitness(c) \/ WriteMetadata(c)
  PROVE  MarksHold'
<1>1. CASE StatWitness(c)
  <2>1. /\ phase[c] = "done" /\ phase' = [phase EXCEPT ![c] = "none"] /\ seen' = seen \cup {c}
        /\ UNCHANGED <<witness, asMarked>>
    BY <1>1 DEF StatWitness, Exited, files
  <2>2. phase'[c] = "none" /\ \A d \in Claims : d # c => phase'[d] = phase[d]
    BY <2>1 DEF EvidenceInv, FetchTypes
  <2>3. MarkHolds(c)'
    BY <2>1, <2>2 DEF MarksHold, MarkHolds, IsWhole
  <2>4. asMarked' \in [Claims -> BOOLEAN]
    BY <2>1 DEF MarksHold
  <2> QED
    BY <2>1, <2>2, <2>3, <2>4, OneFileChanges
<1>2. CASE WriteMetadata(c)
  <2>1. /\ phase[c] = "none" /\ asMarked' = [asMarked EXCEPT ![c] = c \in seen]
        /\ seen' = seen \ {c} /\ UNCHANGED <<phase, witness>>
    BY <1>2 DEF WriteMetadata
  <2>2. /\ asMarked' \in [Claims -> BOOLEAN] /\ asMarked'[c] = (c \in seen)
        /\ \A d \in Claims : d # c => asMarked'[d] = asMarked[d]
    BY <2>1 DEF MarksHold
  <2>3. MarkHolds(c)'
    BY <2>1, <2>2 DEF MarksHold, MarkHolds, IsWhole
  <2> QED
    BY <2>1, <2>2, <2>3, OneFileChanges
<1> QED
  BY <1>1, <1>2

\* A kill cuts only files that are being written, which nothing describes.
LEMMA KillKeepsMarks ==
  ASSUME MarksHold, Kill
  PROVE  MarksHold'
<1>1. PICK cut \in SUBSET {c \in Claims : phase[c] = "writing"},
           torn \in SUBSET {c \in busy : phase[c] = "none"} :
        /\ witness' = [c \in Claims |-> IF c \in cut THEN Cut ELSE witness[c]]
        /\ asMarked' = [c \in Claims |-> IF c \in torn THEN FALSE ELSE asMarked[c]]
  BY DEF Kill
<1>2. seen' = {} /\ phase' = [c \in Claims |-> "none"]
  BY DEF Kill, Exit
<1>3. asMarked' \in [Claims -> BOOLEAN]
  BY <1>1 DEF MarksHold
<1>4. ASSUME NEW c \in Claims PROVE MarkHolds(c)'
  <2>1. phase'[c] = "none" /\ c \notin seen'
    BY <1>2
  <2>2. asMarked'[c] => asMarked[c]
    BY <1>1 DEF MarksHold
  <2>3. asMarked[c] => c \notin cut /\ witness'[c] = witness[c] /\ IsWhole(c)
    BY <1>1 DEF MarksHold, MarkHolds
  <2> QED
    BY <2>1, <2>2, <2>3 DEF MarkHolds, IsWhole
<1> QED
  BY <1>3, <1>4 DEF MarksHold

LEMMA MarksNext == EvidenceInv /\ MarksHold /\ [Next]_vars => MarksHold'
<1> SUFFICES ASSUME EvidenceInv, MarksHold, [Next]_vars PROVE MarksHold'
  OBVIOUS
<1> DEFINE Elsewhere ==
      \A c \in Claims : phase'[c] = phase[c] \/ phase'[c] \notin {"writing", "done"}
<1>0. phase \in [Claims -> Phases]
  BY DEF EvidenceInv, FetchTypes
<1>1. ASSUME NEW c \in Claims, NEW p \in Phases \ {"writing", "done"},
             phase' = [phase EXCEPT ![c] = p]
      PROVE  Elsewhere
  BY <1>0, <1>1
<1>2. CASE Run
  <2>1. CASE Fetching
    <3>1. PICK c \in Claims : BlockStep(c) /\ UNCHANGED <<witness, asMarked, seen>>
      BY <2>1 DEF Fetching, files, script
    <3>2. \/ phase' = phase
          \/ \E p \in {"blocks", "failed", "build"} : phase' = [phase EXCEPT ![c] = p]
      BY <3>1 DEF BlockStep, IndexBlocks, CollectBlocks, TakeTarget, ThreadEnds, MergeCached,
                  FetchHeader, FetchReceipts, FetchTransactions, Publish
    <3>3. {"blocks", "failed", "build"} \subseteq Phases \ {"writing", "done"}
      BY DEF Phases
    <3>4. Elsewhere
      BY <1>1, <3>2, <3>3
    <3> QED
      BY <3>1, <3>4, NoFileChanges
  <2>2. ASSUME NEW c \in Claims, BuildInput(c) \/ Spawn(c) \/ ChildFailed(c)
        PROVE  MarksHold'
    <3>1. PICK p \in {"write", "failed", "index", "none"} : phase' = [phase EXCEPT ![c] = p]
      BY <2>2 DEF BuildInput, Spawn, ChildFailed, Exited
    <3>2. p \in Phases \ {"writing", "done"}
      BY DEF Phases
    <3>3. Elsewhere
      BY <1>1, <3>1, <3>2
    <3>4. UNCHANGED <<witness, asMarked, seen>>
      BY <2>2 DEF BuildInput, Spawn, ChildFailed, files, script
    <3> QED
      BY <3>3, <3>4, NoFileChanges
  <2>3. ASSUME NEW c \in Claims, VerifySeller(c) PROVE MarksHold'
    BY <2>3, NoFileChanges DEF VerifySeller, Exit
  <2>4. CASE PoolEnds \/ Recheck \/ SellersEnd \/ WriteSummary
    BY <2>4, NoFileChanges DEF PoolEnds, Recheck, SellersEnd, WriteSummary, Exit, files
  <2> QED
    BY <1>2, <2>1, <2>2, <2>3, <2>4, WriteKeepsMarks, MetadataKeepsMarks DEF Run
<1>3. CASE Start
  BY <1>3, NoFileChanges DEF Start, Launch, files
<1>4. CASE Upset
  <2>1. ASSUME NEW c \in Claims, BuildFails(c) PROVE MarksHold'
    <3>1. phase' = [phase EXCEPT ![c] = "failed"] /\ "failed" \in Phases \ {"writing", "done"}
      BY <2>1 DEF BuildFails, Phases
    <3>2. Elsewhere
      BY <1>1, <3>1
    <3> QED
      BY <2>1, <3>2, NoFileChanges DEF BuildFails, files, script
  <2>2. ASSUME NEW c \in Claims, NEW t \in Threads, FetchFails(c, t), UNCHANGED <<files, script>>
        PROVE  MarksHold'
    BY <2>2, NoFileChanges DEF FetchFails, files, script
  <2>3. CASE SellerFails \/ ChangeSource
    BY <2>3, NoFileChanges DEF SellerFails, ChangeSource, Exit, files, script
  <2> QED
    BY <1>4, <2>1, <2>2, <2>3, KillKeepsMarks DEF Upset
<1>5. CASE Fork \/ UNCHANGED vars
  BY <1>5, NoFileChanges DEF Fork, Reorganise, vars, files, script
<1> QED
  BY <1>2, <1>3, <1>4, <1>5 DEF Next

\* A witness that a later run would reuse is never a write that was interrupted, however often
\* runs are killed and the materializer is rebuilt
\* (generate-approved-development-proofs.mjs 486-530).
THEOREM ReusedIsWhole == Spec => []CurrentWitnessIsWhole
<1>1. Init => MarksHold
  BY DEF Init, FetchInit, MarksHold, MarkHolds
<1>2. MarksHold => CurrentWitnessIsWhole
  BY DEF MarksHold, MarkHolds, CurrentWitnessIsWhole, IsCurrent
<1> QED
  BY InvInit, InvNext, MarksNext, <1>1, <1>2, PTL DEF Spec

-----------------------------------------------------------------------------
(* Asking for what is cached *)

\* What a thread has of an entry of its block that it has read.
Held(target, k, found) ==
  /\ found.header # 0
  /\ target.receipts \cap k.receipts \subseteq Indices(found.receipts)
  /\ target.transactions \cap k.transactions \subseteq Indices(found.transactions)

\* Of a block no fork has changed, a thread has everything that the entries it has read hold.
ThreadHolds(c, t) ==
  phase[c] = "blocks" /\ Works(c, t) /\ Unforked(Target(c, t).block) =>
    /\ thread[c][t].found.header \in {0, 1}
    /\ thread[c][t].pc = "merge" =>
         /\ \A k \in thread[c][t].unread : k.block = Target(c, t).block
         /\ \A k \in index[c] \ thread[c][t].unread :
              k.block = Target(c, t).block => Held(Target(c, t), k, thread[c][t].found)
Listed(k) == \E c \in Claims : k \in index[c]
EntriesFirst ==
  \A k \in Keys : Unforked(k.block) /\ (cache[k] # NoEntry \/ Listed(k)) => cache[k].header = 1
ReadInv ==
  /\ forks \in {{1}, {1, 2}, {2}} /\ EntriesFirst
  /\ \A c \in Claims, t \in Threads : ThreadHolds(c, t)

LEMMA IndicesOfAdded ==
  ASSUME NEW have, NEW more, NEW wanted, NEW all, NEW h, more = all \X {h}
  PROVE  /\ Indices(have) \subseteq Indices(Added(have, more, wanted))
         /\ wanted \cap all \subseteq Indices(Added(have, more, wanted))
<1>1. Indices(have) \subseteq Indices(Added(have, more, wanted))
  BY DEF Indices, Added
<1>2. ASSUME NEW i \in wanted \cap all, i \notin Indices(have)
      PROVE  i \in Indices(Added(have, more, wanted))
  <2>1. <<i, h>> \in Added(have, more, wanted)
    BY <1>2 DEF Added
  <2> QED
    BY <2>1 DEF Indices
<1> QED
  BY <1>1, <1>2

\* Reading an entry of the first version adds what it holds.
LEMMA MergedHolds ==
  ASSUME NEW target, NEW k, NEW found, NEW e, Whole(k, e), e.header = 1,
         found.header \in {0, 1}
  PROVE  /\ Merged(target, found, e).header = 1 /\ Held(target, k, Merged(target, found, e))
         /\ \A j : Held(target, j, found) => Held(target, j, Merged(target, found, e))
<1> DEFINE R == Added(found.receipts, e.receipts, target.receipts)
           T == Added(found.transactions, e.transactions, target.transactions)
<1>1. e.receipts = k.receipts \X {1} /\ e.transactions = k.transactions \X {1}
  BY DEF Whole, OfOneBlock
<1>2. /\ Indices(found.receipts) \subseteq Indices(R)
      /\ target.receipts \cap k.receipts \subseteq Indices(R)
      /\ Indices(found.transactions) \subseteq Indices(T)
      /\ target.transactions \cap k.transactions \subseteq Indices(T)
  BY <1>1, IndicesOfAdded
<1>3. Merged(target, found, e) = Evidence(1, R, T, found.positions \cup e.positions)
  BY DEF Merged
<1> HIDE DEF R, T
<1> QED
  BY <1>2, <1>3 DEF Held, Evidence

LEMMA ServedFirst ==
  ASSUME NEW block, Unforked(block), NEW v \in Served(block)
  PROVE  v = 1
  BY DEF Unforked, Served, Version

\* What does not begin or go on with a merge leaves the invariant alone.
Quiet(c, t) ==
  phase'[c] = "blocks" /\ Works(c, t)' =>
    /\ phase[c] = "blocks" /\ Works(c, t)
    /\ thread'[c][t].job = thread[c][t].job
    /\ thread'[c][t].found.header = thread[c][t].found.header
    /\ \/ thread'[c][t].pc = "fetch"
       \/ thread'[c][t] = thread[c][t] /\ index'[c] = index[c]

LEMMA QuietHolds ==
  ASSUME NEW c \in Claims, NEW t \in Threads, ThreadHolds(c, t), Quiet(c, t), forks' = forks
  PROVE  ThreadHolds(c, t)'
  BY DEF ThreadHolds, Quiet, Works, Target, Unforked

\* A step of one thread.
LEMMA OneThreadReads ==
  ASSUME EvidenceInv, ReadInv, NEW c \in Claims, NEW t \in Threads, NEW new,
         thread' = [thread EXCEPT ![c][t] = new], ThreadHolds(c, t)',
         UNCHANGED <<forks, phase, index>>, EntriesFirst'
  PROVE  ReadInv'
<1>1. \A d \in Claims, u \in Threads : <<d, u>> # <<c, t>> => thread'[d][u] = thread[d][u]
  BY DEF EvidenceInv, FetchTypes
<1>2. ASSUME NEW d \in Claims, NEW u \in Threads PROVE ThreadHolds(d, u)'
  <2>1. CASE d = c /\ u = t
    BY <2>1
  <2>2. CASE ~(d = c /\ u = t)
    <3>1. Quiet(d, u)
      BY <1>1, <2>2 DEF Quiet, Works
    <3> QED
      BY <3>1, QuietHolds DEF ReadInv
  <2> QED
    BY <2>1, <2>2
<1> QED
  BY <1>2 DEF ReadInv

LEMMA SameEntries ==
  ASSUME ReadInv, UNCHANGED <<forks, cache>>,
         \A c \in Claims, k \in Keys : k \in index'[c] => Listed(k) \/ cache[k] # NoEntry
  PROVE  EntriesFirst'
  BY DEF ReadInv, EntriesFirst, Listed, Unforked

LEMMA TakeReads ==
  ASSUME EvidenceInv, ReadInv, NEW c \in Claims, NEW t \in Threads, TakeTarget(c, t)
  PROVE  ReadInv'
<1>0. PICK job : job = next[c]
  OBVIOUS
<1>1. /\ phase[c] = "blocks" /\ UNCHANGED <<forks, cache, phase, index>>
      /\ index \in [Claims -> SUBSET Keys]
  BY DEF TakeTarget, At, EvidenceInv, FetchTypes
<1>2. PICK new : /\ thread' = [thread EXCEPT ![c][t] = new]
                 /\ \/ new = Idle
                    \/ new = [pc |-> "merge", job |-> job, found |-> Nothing,
                              unread |-> {k \in index[c] : k.block = Targets[c][job].block}]
  BY <1>0 DEF TakeTarget, Deliver
<1>3. thread'[c][t] = new
  BY <1>2 DEF EvidenceInv, FetchTypes
<1>4. ThreadHolds(c, t)'
  BY <1>1, <1>2, <1>3 DEF ThreadHolds, Works, Target, Idle, Nothing, Evidence
<1> QED
  BY <1>1, <1>2, <1>4, OneThreadReads, SameEntries DEF Listed

LEMMA MergeReads ==
  ASSUME EvidenceInv, ReadInv, NEW c \in Claims, NEW t \in Threads, MergeCached(c, t)
  PROVE  ReadInv'
<1>1. /\ phase[c] = "blocks" /\ thread[c][t].pc = "merge" /\ Works(c, t)
      /\ UNCHANGED <<forks, cache, phase, index>>
  BY DEF MergeCached, At, Works
<1>2. PICK k \in thread[c][t].unread :
        thread' = [thread EXCEPT ![c][t] =
                     [@ EXCEPT !.unread = thread[c][t].unread \ {k},
                               !.found = Merged(Target(c, t), thread[c][t].found, cache[k])]]
  BY DEF MergeCached
<1>3. PICK old : old = thread[c][t]
  OBVIOUS
<1>4. PICK found : found = Merged(Target(c, t), old.found, cache[k])
  OBVIOUS
<1>5. PICK new : new = [old EXCEPT !.unread = old.unread \ {k}, !.found = found]
  OBVIOUS
<1>6. thread' = [thread EXCEPT ![c][t] = new]
  BY <1>2, <1>3, <1>4, <1>5, Zenon
<1>7. thread'[c][t] = new
  BY <1>6 DEF EvidenceInv, FetchTypes
<1>8. old \in ThreadStates
  BY <1>1, <1>3, AtWork
<1>9. /\ new.pc = "merge" /\ new.job = old.job /\ new.found = found
      /\ new.unread = old.unread \ {k}
  BY <1>1, <1>3, <1>5, <1>8 DEF ThreadStates
<1>10. k \in index[c] /\ k \in Keys /\ Whole(k, cache[k])
  <2>1. k \in index[c]
    BY <1>1, <1>2, AtWork
  <2>2. index[c] \subseteq Keys
    BY DEF EvidenceInv, FetchTypes
  <2> QED
    BY <2>1, <2>2 DEF EvidenceInv, CacheHolds
<1>11. PICK target : target = Target(c, t) /\ target = Target(c, t)'
  <2>1. Target(c, t)' = Target(c, t)
    BY <1>3, <1>7, <1>9 DEF Target
  <2> QED
    BY <2>1
<1>12. ThreadHolds(c, t)'
  <2> SUFFICES ASSUME Unforked(target.block)
               PROVE  /\ found.header \in {0, 1}
                      /\ \A j \in new.unread : j.block = target.block
                      /\ \A j \in index[c] \ new.unread :
                           j.block = target.block => Held(target, j, found)
    BY <1>1, <1>7, <1>9, <1>11 DEF ThreadHolds, Unforked
  <2>1. /\ old.found.header \in {0, 1} /\ \A j \in old.unread : j.block = target.block
        /\ \A j \in index[c] \ old.unread :
             j.block = target.block => Held(target, j, old.found)
    BY <1>1, <1>3, <1>11 DEF ReadInv, ThreadHolds
  <2>2. k.block = target.block
    BY <2>1, <1>2, <1>3
  <2>3. cache[k].header = 1
    BY <2>2, <1>10 DEF ReadInv, EntriesFirst, Listed
  <2>4. /\ found.header = 1 /\ Held(target, k, found)
        /\ \A j : Held(target, j, old.found) => Held(target, j, found)
    BY <2>1, <2>3, <1>4, <1>10, <1>11, MergedHolds
  <2> QED
    BY <2>1, <2>4, <1>9
<1> QED
  BY <1>1, <1>6, <1>12, OneThreadReads, SameEntries DEF Listed

LEMMA HeaderReads ==
  ASSUME EvidenceInv, ReadInv, NEW c \in Claims, NEW t \in Threads, FetchHeader(c, t)
  PROVE  ReadInv'
<1>1. /\ phase[c] = "blocks" /\ thread[c][t].pc = "merge" /\ Works(c, t)
      /\ UNCHANGED <<forks, cache, phase, index>>
  BY DEF FetchHeader, At, Works
<1>2. PICK v \in Served(Target(c, t).block) :
        thread' = [thread EXCEPT ![c][t] =
                     [@ EXCEPT !.pc = "fetch", !.found = [Nothing EXCEPT !.header = v]]]
  BY DEF FetchHeader
<1>3. PICK old : old = thread[c][t]
  OBVIOUS
<1>4. PICK new : new = [old EXCEPT !.pc = "fetch", !.found = [Nothing EXCEPT !.header = v]]
  OBVIOUS
<1>5. thread' = [thread EXCEPT ![c][t] = new]
  BY <1>2, <1>3, <1>4, Zenon
<1>6. thread'[c][t] = new
  BY <1>5 DEF EvidenceInv, FetchTypes
<1>7. old \in ThreadStates
  BY <1>1, <1>3, AtWork
<1>8. new.pc = "fetch" /\ new.job = old.job /\ new.found.header = v
  BY <1>4, <1>7 DEF ThreadStates, Nothing, Evidence
<1>9. Target(c, t)' = Target(c, t)
  BY <1>3, <1>6, <1>8 DEF Target
<1>10. Unforked(Target(c, t).block) => v = 1
  BY ServedFirst
<1>11. ThreadHolds(c, t)'
  BY <1>1, <1>6, <1>8, <1>9, <1>10 DEF ThreadHolds, Unforked
<1> QED
  BY <1>1, <1>5, <1>11, OneThreadReads, SameEntries DEF Listed

\* The answers of the provider are of the header's version.
LEMMA AnswerReads ==
  ASSUME EvidenceInv, ReadInv, NEW c \in Claims, NEW t \in Threads,
         FetchReceipts(c, t) \/ FetchTransactions(c, t)
  PROVE  ReadInv'
<1>1. /\ phase[c] = "blocks" /\ thread[c][t].pc = "fetch" /\ Works(c, t)
      /\ UNCHANGED <<forks, cache, phase, index>>
  BY DEF FetchReceipts, FetchTransactions, At, Works
<1>2. PICK old : old = thread[c][t]
  OBVIOUS
<1>3. old \in ThreadStates
  BY <1>1, <1>2, AtWork
<1>4. PICK new : /\ thread' = [thread EXCEPT ![c][t] = new]
                 /\ \/ new = Idle
                    \/ /\ new.pc = "fetch" /\ new.job = old.job
                       /\ new.found.header = old.found.header
  <2>1. PICK had : had = old.found
    OBVIOUS
  <2>2. had \in Evidences
    BY <1>3, <2>1 DEF ThreadStates
  <2>3. ASSUME NEW found, found.header = had.header,
               thread' = [thread EXCEPT ![c][t].found = found]
        PROVE  /\ thread' = [thread EXCEPT ![c][t] = [old EXCEPT !.found = found]]
               /\ [old EXCEPT !.found = found].pc = "fetch"
               /\ [old EXCEPT !.found = found].job = old.job
               /\ [old EXCEPT !.found = found].found.header = old.found.header
    BY <1>1, <1>2, <1>3, <2>1, <2>3 DEF ThreadStates
  <2>4. CASE FetchReceipts(c, t)
    <3>1. PICK v : IF v = thread[c][t].found.header
                   THEN thread' = [thread EXCEPT ![c][t].found =
                                     [@ EXCEPT !.receipts = Target(c, t).receipts \X {v},
                                               !.positions = {v}]]
                   ELSE Deliver(c, t, thread[c][t].job, Failed)
      BY <2>4 DEF FetchReceipts
    <3>2. CASE v = thread[c][t].found.header
      <4>1. PICK found : found = [had EXCEPT !.receipts = Target(c, t).receipts \X {v},
                                             !.positions = {v}]
        OBVIOUS
      <4>2. found.header = had.header /\ thread' = [thread EXCEPT ![c][t].found = found]
        BY <1>2, <2>1, <2>2, <3>1, <3>2, <4>1 DEF Evidences
      <4> QED
        BY <2>3, <4>2
    <3> QED
      BY <3>1, <3>2 DEF Deliver
  <2>5. CASE FetchTransactions(c, t)
    <3>1. PICK v : IF v = thread[c][t].found.header
                   THEN thread' = [thread EXCEPT ![c][t].found =
                                     [@ EXCEPT !.transactions = Target(c, t).transactions \X {v}]]
                   ELSE Deliver(c, t, thread[c][t].job, Failed)
      BY <2>5 DEF FetchTransactions
    <3>2. CASE v = thread[c][t].found.header
      <4>1. PICK found : found = [had EXCEPT !.transactions = Target(c, t).transactions \X {v}]
        OBVIOUS
      <4>2. found.header = had.header /\ thread' = [thread EXCEPT ![c][t].found = found]
        BY <1>2, <2>1, <2>2, <3>1, <3>2, <4>1 DEF Evidences
      <4> QED
        BY <2>3, <4>2
    <3> QED
      BY <3>1, <3>2 DEF Deliver
  <2> QED
    BY <2>4, <2>5
<1>5. thread'[c][t] = new
  BY <1>4 DEF EvidenceInv, FetchTypes
<1>6. Quiet(c, t)
  BY <1>1, <1>2, <1>4, <1>5, IdleThread DEF Quiet, Works
<1>7. ThreadHolds(c, t)'
  BY <1>1, <1>6, QuietHolds DEF ReadInv
<1> QED
  BY <1>1, <1>4, <1>7, OneThreadReads, SameEntries DEF Listed

\* A thread that is done, with a result or without, holds nothing.
LEMMA IdleReads ==
  ASSUME EvidenceInv, ReadInv, NEW c \in Claims, NEW t \in Threads,
         Publish(c, t) \/ FetchFails(c, t) \/ ThreadEnds(c, t)
  PROVE  ReadInv'
<1>1. phase[c] = "blocks" /\ UNCHANGED <<forks, phase, index>>
  BY DEF Publish, FetchFails, ThreadEnds, At
<1>2. PICK new : thread' = [thread EXCEPT ![c][t] = new] /\ new.pc \notin {"merge", "fetch"}
  <2>1. thread[c][t] \in ThreadStates
    BY DEF EvidenceInv, FetchTypes
  <2>2. CASE ThreadEnds(c, t)
    <3>1. PICK new : new = [thread[c][t] EXCEPT !.pc = "over"]
      OBVIOUS
    <3>2. new.pc = "over"
      BY <2>1, <3>1 DEF ThreadStates
    <3>3. thread' = [thread EXCEPT ![c][t] = new]
      BY <2>2, <3>1 DEF ThreadEnds
    <3> QED
      BY <3>2, <3>3
  <2>3. CASE Publish(c, t) \/ FetchFails(c, t)
    BY <2>3, IdleThread DEF Publish, FetchFails, Deliver
  <2> QED
    BY <2>2, <2>3
<1>3. thread'[c][t] = new
  BY <1>2 DEF EvidenceInv, FetchTypes
<1>4. ThreadHolds(c, t)'
  BY <1>2, <1>3 DEF ThreadHolds, Works
<1>5. EntriesFirst'
  <2>1. CASE cache' = cache
    BY <1>1, <2>1, SameEntries DEF Listed
  <2>2. CASE Publish(c, t)
    <3>1. PICK found, target : found = thread[c][t].found /\ target = Target(c, t)
      OBVIOUS
    <3>2. /\ cache' = [cache EXCEPT ![target] = found] /\ Works(c, t)
          /\ found.header # 0
      BY <2>2, <3>1 DEF Publish, Works, Complete
    <3>3. Unforked(target.block) => found.header = 1
      BY <1>1, <3>1, <3>2 DEF ReadInv, ThreadHolds
    <3>4. target \in Keys
      BY <1>1, <3>1, <3>2, AtWork
    <3>5. \A k \in Keys : (k = target /\ cache'[k] = found) \/ cache'[k] = cache[k]
      BY <3>2, <3>4 DEF EvidenceInv, FetchTypes
    <3> QED
      BY <1>1, <3>3, <3>5 DEF ReadInv, EntriesFirst, Listed, Unforked
  <2> QED
    BY <2>1, <2>2 DEF FetchFails, ThreadEnds
<1> QED
  BY <1>1, <1>2, <1>4, <1>5, OneThreadReads

\* Threads of a process that begins, goes on after its blocks, or ends hold nothing.
LEMMA OthersRead ==
  ASSUME EvidenceInv, ReadInv, UNCHANGED <<forks, cache>>,
         \A c \in Claims, k \in Keys : k \in index'[c] => Listed(k) \/ cache[k] # NoEntry,
         \A c \in Claims :
           \/ phase'[c] # "blocks" \/ \A t \in Threads : thread'[c][t] = Idle
           \/ phase'[c] = phase[c] /\ thread'[c] = thread[c] /\ index'[c] = index[c]
  PROVE  ReadInv'
<1>1. \A c \in Claims, t \in Threads : Quiet(c, t)
  BY IdleThread DEF Quiet, Works
<1>2. \A c \in Claims, t \in Threads : ThreadHolds(c, t)'
  BY <1>1, QuietHolds DEF ReadInv
<1> QED
  BY <1>2, SameEntries DEF ReadInv

LEMMA ReadInit == Init => ReadInv
<1> SUFFICES ASSUME Init PROVE ReadInv
  OBVIOUS
<1> USE DEF Init, FetchInit
<1>1. ASSUME NEW k \in Keys, cache[k] # NoEntry PROVE cache[k].header = 1
  BY <1>1 DEF FullEvidence, Evidence
<1>2. EntriesFirst
  BY <1>1 DEF EntriesFirst, Listed
<1> QED
  BY <1>2 DEF ReadInv, ThreadHolds

LEMMA ReadNext == EvidenceInv /\ ReadInv /\ [Next]_vars => ReadInv'
<1> SUFFICES ASSUME EvidenceInv, ReadInv, [Next]_vars PROVE ReadInv'
  OBVIOUS
<1> DEFINE Elsewhere(c) ==
      /\ \A d \in Claims, k \in Keys : k \in index'[d] => Listed(k) \/ cache[k] # NoEntry
      /\ \A d \in Claims \ {c} :
           phase'[d] = phase[d] /\ thread'[d] = thread[d] /\ index'[d] = index[d]
      /\ phase'[c] # "blocks" \/ \A t \in Threads : thread'[c][t] = Idle
<1>0. phase \in [Claims -> Phases] /\ index \in [Claims -> SUBSET Keys]
      /\ thread \in [Claims -> [Threads -> ThreadStates]]
  BY DEF EvidenceInv, FetchTypes
<1>1. ASSUME NEW c \in Claims, NEW p \in Phases \ {"blocks"}, phase' = [phase EXCEPT ![c] = p],
             UNCHANGED <<forks, cache, index, thread>>
      PROVE  ReadInv'
  <2>1. Elsewhere(c)
    BY <1>0, <1>1 DEF Listed
  <2> QED
    BY <1>1, <2>1, OthersRead
<1>2. ASSUME NEW c \in Claims, phase' = [phase EXCEPT ![c] = "none"], Forget({c}),
             UNCHANGED <<forks, cache>>
      PROVE  ReadInv'
  <2>1. Elsewhere(c)
    BY <1>0, <1>2 DEF Listed, Forget
  <2> QED
    BY <1>2, <2>1, OthersRead
<1>3. ASSUME UNCHANGED <<forks, cache, phase, index, thread>>
      PROVE  ReadInv'
  BY <1>0, <1>3, OthersRead DEF Listed
<1>4. CASE Run
  <2>1. ASSUME NEW c \in Claims, BlockStep(c) PROVE ReadInv'
    <3>1. CASE IndexBlocks(c)
      <4>1. Elsewhere(c)
        BY <3>1, <1>0 DEF IndexBlocks, Listed
      <4> QED
        BY <3>1, <4>1, OthersRead DEF IndexBlocks
    <3>2. CASE CollectBlocks(c)
      <4>1. PICK p \in {"failed", "build"} : phase' = [phase EXCEPT ![c] = p]
        BY <3>2 DEF CollectBlocks
      <4>2. p \in Phases \ {"blocks"}
        BY DEF Phases
      <4> QED
        BY <1>1, <3>2, <4>1, <4>2 DEF CollectBlocks, fetching
    <3> QED
      BY <2>1, <3>1, <3>2, TakeReads, IdleReads, MergeReads, HeaderReads, AnswerReads
      DEF BlockStep
  <2>2. ASSUME NEW c \in Claims,
               BuildInput(c) \/ TruncateWitness(c) \/ WriteWitness(c) \/ Spawn(c)
        PROVE  ReadInv'
    <3>1. PICK p \in {"write", "failed", "writing", "done", "index"} :
            phase' = [phase EXCEPT ![c] = p]
      BY <2>2 DEF BuildInput, TruncateWitness, WriteWitness, Spawn
    <3>2. p \in Phases \ {"blocks"}
      BY DEF Phases
    <3> QED
      BY <1>1, <2>2, <3>1, <3>2
      DEF BuildInput, TruncateWitness, WriteWitness, Spawn, fetching
  <2>3. ASSUME NEW c \in Claims, ChildFailed(c) \/ StatWitness(c) PROVE ReadInv'
    BY <1>2, <2>3 DEF ChildFailed, StatWitness, Exited
  <2>4. ASSUME NEW c \in Claims, WriteMetadata(c) \/ VerifySeller(c) PROVE ReadInv'
    BY <1>3, <2>4 DEF WriteMetadata, VerifySeller, fetching
  <2>5. CASE PoolEnds \/ Recheck \/ SellersEnd \/ WriteSummary
    BY <1>3, <2>5 DEF PoolEnds, Recheck, SellersEnd, WriteSummary, fetching
  <2> QED
    BY <1>4, <2>1, <2>2, <2>3, <2>4, <2>5 DEF Run, Fetching
<1>5. CASE Start
  BY <1>3, <1>5 DEF Start, Launch, fetching
<1>6. CASE Upset
  <2>1. ASSUME NEW c \in Claims, BuildFails(c) PROVE ReadInv'
    <3>1. "failed" \in Phases \ {"blocks"}
      BY DEF Phases
    <3> QED
      BY <1>1, <2>1, <3>1 DEF BuildFails, fetching
  <2>2. CASE SellerFails \/ ChangeSource
    BY <1>3, <2>2 DEF SellerFails, ChangeSource, fetching
  <2>3. CASE Kill
    <3>1. /\ phase' = [c \in Claims |-> "none"] /\ Forget(Claims) /\ UNCHANGED <<forks, cache>>
      BY <2>3 DEF Kill
    <3>2. \A c \in Claims : phase'[c] = "none" /\ index'[c] = {}
      BY <3>1 DEF Forget
    <3> QED
      BY <3>1, <3>2, OthersRead
  <2> QED
    BY <1>6, <2>1, <2>2, <2>3, IdleReads DEF Upset
<1>7. CASE Fork
  <2>1. /\ forks' \in {{1, 2}, {2}} /\ UNCHANGED <<cache, phase, index, thread>>
    BY <1>7 DEF Fork, Reorganise, fetching
  <2>2. \A block : Unforked(block)' => Unforked(block)
    BY <2>1 DEF Unforked
  <2>3. EntriesFirst'
    BY <2>1, <2>2 DEF ReadInv, EntriesFirst, Listed
  <2>4. ASSUME NEW c \in Claims, NEW t \in Threads PROVE ThreadHolds(c, t)'
    <3>1. ThreadHolds(c, t) /\ Target(c, t)' = Target(c, t)
      BY <2>1 DEF ReadInv, Target
    <3> QED
      BY <2>1, <2>2, <3>1 DEF ThreadHolds, Works
  <2> QED
    BY <2>1, <2>3, <2>4 DEF ReadInv
<1>8. CASE UNCHANGED vars
  BY <1>3, <1>8 DEF vars, fetching
<1> QED
  BY <1>4, <1>5, <1>6, <1>7, <1>8 DEF Next

\* A thread goes from the cache to the provider by asking for the header only.
LEMMA AsksForHeader ==
  ASSUME EvidenceInv, [Next]_vars, NEW c \in Claims, NEW t \in Threads,
         At(c, t, "merge"), thread'[c][t].pc = "fetch"
  PROVE  FetchHeader(c, t)
<1>0. thread \in [Claims -> [Threads -> ThreadStates]] /\ phase[c] = "blocks"
      /\ thread[c][t].pc = "merge" /\ thread[c][t] \in ThreadStates
  BY DEF EvidenceInv, FetchTypes, At
<1>1. ASSUME NEW d \in Claims, NEW u \in Threads, NEW new,
             thread' = [thread EXCEPT ![d][u] = new]
      PROVE  c = d /\ t = u /\ new.pc = "fetch"
  BY <1>0, <1>1
<1>2. thread' # thread
  BY <1>0
<1>3. ~\E ended : Forget(ended)
  BY <1>0, IdleThread DEF Forget
<1>4. ASSUME NEW d \in Claims, NEW u \in Threads,
             TakeTarget(d, u) \/ ThreadEnds(d, u) \/ Publish(d, u) \/ FetchFails(d, u)
      PROVE  FALSE
  <2>1. CASE ThreadEnds(d, u)
    <3>1. thread[d][u] \in ThreadStates
      BY <1>0
    <3>2. PICK new : new = [thread[d][u] EXCEPT !.pc = "over"]
      OBVIOUS
    <3>3. thread' = [thread EXCEPT ![d][u] = new] /\ new.pc = "over"
      BY <2>1, <3>1, <3>2 DEF ThreadEnds, ThreadStates
    <3> QED
      BY <1>1, <3>3
  <2>2. CASE TakeTarget(d, u)
    <3>1. PICK new : thread' = [thread EXCEPT ![d][u] = new] /\ new.pc \in {"next", "merge"}
      BY <2>2, IdleThread DEF TakeTarget, Deliver
    <3> QED
      BY <1>1, <3>1
  <2>3. CASE Publish(d, u) \/ FetchFails(d, u)
    <3>1. thread' = [thread EXCEPT ![d][u] = Idle]
      BY <2>3 DEF Publish, FetchFails, Deliver
    <3> QED
      BY <1>1, <3>1, IdleThread
  <2> QED
    BY <1>4, <2>1, <2>2, <2>3
<1>5. ASSUME NEW d \in Claims, NEW u \in Threads, MergeCached(d, u) PROVE FALSE
  <2>1. PICK left, found :
          thread' = [thread EXCEPT ![d][u] = [@ EXCEPT !.unread = left, !.found = found]]
    BY <1>5 DEF MergeCached
  <2>2. thread[d][u] \in ThreadStates /\ thread[d][u].pc = "merge"
    BY <1>0, <1>5 DEF MergeCached, At
  <2>3. PICK new : new = [thread[d][u] EXCEPT !.unread = left, !.found = found]
    OBVIOUS
  <2>4. new.pc = "merge"
    BY <2>2, <2>3 DEF ThreadStates
  <2>5. thread' = [thread EXCEPT ![d][u] = new]
    BY <2>1, <2>3, Zenon
  <2> QED
    BY <1>1, <2>4, <2>5
<1>6. ASSUME NEW d \in Claims, NEW u \in Threads,
             FetchReceipts(d, u) \/ FetchTransactions(d, u)
      PROVE  FALSE
  <2>1. thread[d][u].pc = "fetch"
    BY <1>6 DEF FetchReceipts, FetchTransactions, At
  <2>2. \/ \E found : thread' = [thread EXCEPT ![d][u].found = found]
        \/ thread' = [thread EXCEPT ![d][u] = Idle]
    <3>1. CASE FetchReceipts(d, u)
      <4>1. PICK v : IF v = thread[d][u].found.header
                     THEN thread' = [thread EXCEPT ![d][u].found =
                                       [@ EXCEPT !.receipts = Target(d, u).receipts \X {v},
                                                 !.positions = {v}]]
                     ELSE Deliver(d, u, thread[d][u].job, Failed)
        BY <3>1 DEF FetchReceipts
      <4> QED
        BY <4>1 DEF Deliver
    <3>2. CASE FetchTransactions(d, u)
      <4>1. PICK v : IF v = thread[d][u].found.header
                     THEN thread' = [thread EXCEPT ![d][u].found =
                                       [@ EXCEPT !.transactions = Target(d, u).transactions \X {v}]]
                     ELSE Deliver(d, u, thread[d][u].job, Failed)
        BY <3>2 DEF FetchTransactions
      <4> QED
        BY <4>1 DEF Deliver
    <3> QED
      BY <1>6, <3>1, <3>2
  <2>3. \A e \in Claims, w \in Threads : <<e, w>> # <<d, u>> => thread'[e][w] = thread[e][w]
    BY <1>0, <2>2
  <2> QED
    BY <1>0, <2>1, <2>3
<1>7. ASSUME NEW d \in Claims, IndexBlocks(d) PROVE FALSE
  BY <1>0, <1>7, IdleThread DEF IndexBlocks
<1>8. ASSUME NEW d \in Claims, BlockStep(d) PROVE FetchHeader(c, t)
  <2>1. PICK u \in Threads : FetchHeader(d, u)
    BY <1>2, <1>4, <1>5, <1>6, <1>7, <1>8 DEF BlockStep, CollectBlocks, fetching
  <2>2. PICK new : thread' = [thread EXCEPT ![d][u] = new]
    BY <2>1 DEF FetchHeader
  <2> QED
    BY <1>1, <2>1, <2>2
<1>9. CASE Run
  <2>1. \A d \in Claims : ~(BuildInput(d) \/ TruncateWitness(d) \/ WriteWitness(d) \/ Spawn(d)
                            \/ WriteMetadata(d) \/ VerifySeller(d))
    BY <1>2 DEF BuildInput, TruncateWitness, WriteWitness, Spawn, WriteMetadata, VerifySeller,
                fetching
  <2>2. \A d \in Claims : ~(ChildFailed(d) \/ StatWitness(d))
    BY <1>3 DEF ChildFailed, StatWitness, Exited
  <2>3. ~(PoolEnds \/ Recheck \/ SellersEnd \/ WriteSummary)
    BY <1>2 DEF PoolEnds, Recheck, SellersEnd, WriteSummary, fetching
  <2> QED
    BY <1>8, <1>9, <2>1, <2>2, <2>3 DEF Run, Fetching
<1>10. CASE Upset
  <2>1. ~Kill
    BY <1>3 DEF Kill
  <2>2. \A d \in Claims : ~BuildFails(d)
    BY <1>2 DEF BuildFails, fetching
  <2>3. ~(SellerFails \/ ChangeSource)
    BY <1>2 DEF SellerFails, ChangeSource, fetching
  <2> QED
    BY <1>4, <1>10, <2>1, <2>2, <2>3 DEF Upset
<1> QED
  BY <1>2, <1>9, <1>10 DEF Next, Start, Launch, Fork, Reorganise, vars, fetching

\* When all entries are read and the target is not complete, they do not cover it.
LEMMA AsksForNew ==
  ASSUME EvidenceInv, ReadInv, NEW c \in Claims, NEW t \in Threads, FetchHeader(c, t),
         Unforked(Target(c, t).block), Covered(c, Target(c, t))
  PROVE  FALSE
<1>1. /\ phase[c] = "blocks" /\ thread[c][t].pc = "merge" /\ Works(c, t)
      /\ thread[c][t].unread = {} /\ ~Complete(Target(c, t), thread[c][t].found)
  BY DEF FetchHeader, At, Works
<1>2. PICK target, found : target = Target(c, t) /\ found = thread[c][t].found
  OBVIOUS
<1>3. Part(target, found)
  BY <1>1, <1>2, AtWork
<1>4. \A k \in index[c] : k.block = target.block => Held(target, k, found)
  BY <1>1, <1>2 DEF ReadInv, ThreadHolds
<1>5. \A k \in index[c] : cache[k].receipts = k.receipts \X {cache[k].header}
                          /\ cache[k].transactions = k.transactions \X {cache[k].header}
  <2>1. \A k \in index[c] : Whole(k, cache[k])
    BY DEF EvidenceInv, CacheHolds
  <2> QED
    BY <2>1 DEF Whole, OfOneBlock
<1>6. found.header # 0
  <2>1. PICK k \in index[c] : k.block = target.block
    BY <1>2 DEF Covered, Cached
  <2> QED
    BY <1>4, <2>1 DEF Held
<1>7. ASSUME NEW i \in target.receipts PROVE i \in Indices(found.receipts)
  <2>1. PICK k \in index[c] : k.block = target.block /\ i \in Indices(cache[k].receipts)
    BY <1>2 DEF Covered, Cached
  <2>2. i \in k.receipts
    BY <1>5, <2>1 DEF Indices
  <2> QED
    BY <1>4, <2>1, <2>2 DEF Held
<1>8. ASSUME NEW i \in target.transactions PROVE i \in Indices(found.transactions)
  <2>1. PICK k \in index[c] : k.block = target.block /\ i \in Indices(cache[k].transactions)
    BY <1>2 DEF Covered, Cached
  <2>2. i \in k.transactions
    BY <1>5, <2>1 DEF Indices
  <2> QED
    BY <1>4, <2>1, <2>2 DEF Held
<1>9. Indices(found.receipts) \subseteq target.receipts
      /\ Indices(found.transactions) \subseteq target.transactions
  BY <1>3 DEF Part, Indices
<1>10. Complete(target, found)
  BY <1>6, <1>7, <1>8, <1>9 DEF Complete
<1> QED
  BY <1>1, <1>2, <1>10

\* The provider is not asked for what entries listed at the start hold, where no fork has
\* changed the block, however processes share the cache (rpc.rs 346-383).
THEOREM NotAskedTwice == Spec => NothingIsAskedTwice
<1> DEFINE Asks ==
      \A c \in Claims, t \in Threads :
        At(c, t, "merge") /\ (thread[c][t].pc = "fetch")'
          => ~(Unforked(Target(c, t).block) /\ Covered(c, Target(c, t)))
<1>1. EvidenceInv /\ ReadInv /\ [Next]_vars => [Asks]_vars
  BY AsksForHeader, AsksForNew
<1>2. Spec => [](EvidenceInv /\ ReadInv)
  BY InvInit, InvNext, ReadInit, ReadNext, PTL DEF Spec
<1> QED
  BY <1>1, <1>2, PTL DEF Spec, NothingIsAskedTwice

-----------------------------------------------------------------------------
(* The pool of workers *)

\* No claim is handled outside the pool, and no more than there are workers in it; the claim
\* of a running child is handled, and its file is still to be looked at.
CrewOK ==
  /\ missing \subseteq Claims /\ busy \subseteq Claims /\ busy \cap missing = {}
  /\ seen \subseteq busy
  /\ crew \in Nat /\ Cardinality(busy) <= crew /\ crew <= Concurrency
  /\ stage # "pool" => busy = {}
Handled == \A c \in Claims : phase[c] # "none" => c \in busy \ seen
ScriptOK ==
  /\ stage \in Stages /\ build \in Builds /\ mark \in [Claims -> Builds \cup {0}]
  /\ rejected \in BOOLEAN /\ verified \subseteq Claims
PoolInv == CrewOK /\ Handled /\ ScriptOK

LEMMA CountBusy ==
  ASSUME NEW S \in SUBSET Claims
  PROVE  /\ Cardinality(S) \in Nat /\ Cardinality({}) = 0
         /\ \A c : Cardinality(S \ {c}) = IF c \in S THEN Cardinality(S) - 1 ELSE Cardinality(S)
         /\ \A c : Cardinality(S \cup {c}) = IF c \in S THEN Cardinality(S) ELSE Cardinality(S) + 1
<1>1. IsFiniteSet(S)
  BY PoolAssumption, FS_Subset
<1> QED
  BY <1>1, FS_CardinalityType, FS_EmptySet, FS_RemoveElement, FS_AddElement

\* The script ends, or begins another stage, when nothing is handled.
LEMMA ExitKeepsPool ==
  ASSUME PoolInv, Exit, \A c \in Claims : phase'[c] = "none", ScriptOK'
  PROVE  PoolInv'
  BY CountBusy, PoolAssumption DEF PoolInv, CrewOK, Handled, Exit

LEMMA NoneHandled ==
  ASSUME PoolInv, busy = {}
  PROVE  \A c \in Claims : phase[c] = "none"
  BY DEF PoolInv, Handled

\* A process at work goes on.
LEMMA WorkKeepsPool ==
  ASSUME PoolInv, NEW c \in Claims, phase[c] # "none",
         \A d \in Claims \ {c} : phase'[d] = phase[d],
         seen' \subseteq seen,
         UNCHANGED <<build, mark, stage, missing, busy, crew, rejected, verified>>
  PROVE  PoolInv'
  BY DEF PoolInv, CrewOK, Handled, ScriptOK

LEMMA SpawnKeepsPool ==
  ASSUME EvidenceInv, PoolInv, NEW c \in Claims, Spawn(c)
  PROVE  PoolInv'
<1>1. /\ stage = "pool" /\ c \in missing /\ Cardinality(busy) < crew
      /\ missing' = missing \ {c} /\ busy' = busy \cup {c}
      /\ phase' = [phase EXCEPT ![c] = "index"]
      /\ UNCHANGED <<build, mark, stage, seen, crew, rejected, verified>>
  BY DEF Spawn, files
<1>2. Cardinality(busy') <= crew /\ busy \subseteq Claims
  BY <1>1, CountBusy DEF PoolInv, CrewOK
<1>3. CrewOK'
  BY <1>1, <1>2 DEF PoolInv, CrewOK
<1>4. Handled'
  BY <1>1 DEF PoolInv, CrewOK, Handled, EvidenceInv, FetchTypes
<1>5. ScriptOK'
  BY <1>1 DEF PoolInv, ScriptOK
<1> QED
  BY <1>3, <1>4, <1>5 DEF PoolInv

LEMMA FailureKeepsPool ==
  ASSUME EvidenceInv, PoolInv, NEW c \in Claims, ChildFailed(c)
  PROVE  PoolInv'
<1>1. /\ phase[c] = "failed" /\ phase' = [phase EXCEPT ![c] = "none"]
      /\ busy' = busy \ {c} /\ crew' = crew - 1 /\ rejected' = TRUE
      /\ UNCHANGED <<build, mark, stage, missing, seen, verified>>
  BY DEF ChildFailed, Exited, files
<1>2. c \in busy \ seen /\ busy \subseteq Claims
  BY <1>1 DEF PoolInv, Handled, CrewOK
<1>3. Cardinality(busy') <= crew' /\ crew' \in Nat /\ crew' <= Concurrency
  <2>1. Cardinality(busy) \in Nat /\ Cardinality(busy \ {c}) \in Nat
        /\ Cardinality(busy \ {c}) = Cardinality(busy) - 1
    BY <1>2, CountBusy
  <2> QED
    BY <1>1, <2>1, PoolAssumption DEF PoolInv, CrewOK
<1>4. CrewOK'
  BY <1>1, <1>2, <1>3 DEF PoolInv, CrewOK
<1>5. Handled'
  BY <1>1 DEF PoolInv, Handled, EvidenceInv, FetchTypes
<1>6. ScriptOK'
  BY <1>1 DEF PoolInv, ScriptOK
<1> QED
  BY <1>4, <1>5, <1>6 DEF PoolInv

LEMMA RecordKeepsPool ==
  ASSUME EvidenceInv, PoolInv, NEW c \in Claims, StatWitness(c) \/ WriteMetadata(c)
  PROVE  PoolInv'
<1>1. CASE StatWitness(c)
  <2>1. /\ phase[c] = "done" /\ phase' = [phase EXCEPT ![c] = "none"] /\ seen' = seen \cup {c}
        /\ UNCHANGED <<build, mark, stage, missing, busy, crew, rejected, verified>>
    BY <1>1 DEF StatWitness, Exited, files
  <2>2. c \in busy
    BY <2>1 DEF PoolInv, Handled
  <2>3. CrewOK'
    BY <2>1, <2>2 DEF PoolInv, CrewOK
  <2>4. Handled'
    BY <2>1 DEF PoolInv, Handled, EvidenceInv, FetchTypes
  <2>5. ScriptOK'
    BY <2>1 DEF PoolInv, ScriptOK
  <2> QED
    BY <2>3, <2>4, <2>5 DEF PoolInv
<1>2. CASE WriteMetadata(c)
  <2>1. /\ phase[c] = "none" /\ mark' = [mark EXCEPT ![c] = build]
        /\ busy' = busy \ {c} /\ seen' = seen \ {c}
        /\ UNCHANGED <<phase, build, stage, missing, crew, rejected, verified>>
    BY <1>2 DEF WriteMetadata
  <2>2. Cardinality(busy') <= crew
    BY <2>1, CountBusy DEF PoolInv, CrewOK
  <2>3. CrewOK'
    BY <2>1, <2>2 DEF PoolInv, CrewOK
  <2>4. Handled'
    BY <2>1 DEF PoolInv, Handled
  <2>5. ScriptOK'
    BY <2>1 DEF PoolInv, ScriptOK
  <2> QED
    BY <2>3, <2>4, <2>5 DEF PoolInv
<1> QED
  BY <1>1, <1>2

LEMMA LaunchKeepsPool ==
  ASSUME PoolInv, Launch
  PROVE  PoolInv'
<1>1. /\ stage = "idle" /\ missing' \in SUBSET Claims /\ stage' \in {"pool", "recheck"}
      /\ crew' = IF Cardinality(missing') < Concurrency THEN Cardinality(missing') ELSE Concurrency
      /\ UNCHANGED <<phase, build, mark, busy, seen, rejected, verified>>
  BY DEF Launch, files
<1>2. busy = {}
  BY <1>1 DEF PoolInv, CrewOK
<1>3. Cardinality(missing') \in Nat /\ Cardinality({}) = 0
  BY <1>1, CountBusy
<1>4. CrewOK'
  BY <1>1, <1>2, <1>3, PoolAssumption DEF PoolInv, CrewOK
<1>5. Handled'
  BY <1>1 DEF PoolInv, Handled
<1>6. ScriptOK'
  BY <1>1 DEF PoolInv, ScriptOK, Stages
<1> QED
  BY <1>4, <1>5, <1>6 DEF PoolInv

LEMMA StagesKeepPool ==
  ASSUME PoolInv,
         \/ PoolEnds \/ Recheck \/ SellerFails \/ SellersEnd \/ WriteSummary
         \/ \E c \in Claims : VerifySeller(c)
  PROVE  PoolInv'
<1>1. busy = {} /\ UNCHANGED <<phase, build, mark>>
  BY DEF PoolEnds, Recheck, SellerFails, SellersEnd, WriteSummary, VerifySeller, files, PoolInv,
         CrewOK
<1>2. CASE Exit
  <2>1. ScriptOK'
    BY <1>1, <1>2 DEF Exit, PoolInv, ScriptOK, Stages
  <2> QED
    BY <1>1, <1>2, <2>1, NoneHandled, ExitKeepsPool
<1>3. CASE /\ stage' \in Stages \ {"pool"} /\ verified' \subseteq Claims
           /\ UNCHANGED <<missing, busy, seen, crew, rejected>>
  BY <1>1, <1>3 DEF PoolInv, CrewOK, Handled, ScriptOK
<1>4. Exit \/ /\ stage' \in Stages \ {"pool"} /\ verified' \subseteq Claims
              /\ UNCHANGED <<missing, busy, seen, crew, rejected>>
  <2>1. CASE \E c \in Claims : VerifySeller(c)
    BY <2>1 DEF VerifySeller, PoolInv, ScriptOK, Stages
  <2>2. CASE PoolEnds \/ Recheck
    BY <2>2 DEF PoolEnds, Recheck, PoolInv, ScriptOK, Stages
  <2>3. CASE SellerFails \/ SellersEnd \/ WriteSummary
    BY <2>3 DEF SellerFails, SellersEnd, WriteSummary, PoolInv, ScriptOK, Stages
  <2> QED
    BY <2>1, <2>2, <2>3
<1> QED
  BY <1>2, <1>3, <1>4

LEMMA KillKeepsPool ==
  ASSUME PoolInv, Kill
  PROVE  PoolInv'
<1>1. PICK torn : mark' = [c \in Claims |-> IF c \in torn THEN 0 ELSE mark[c]]
  BY DEF Kill
<1>2. Exit /\ phase' = [c \in Claims |-> "none"] /\ UNCHANGED build
  BY DEF Kill
<1>3. ScriptOK'
  BY <1>1, <1>2 DEF Exit, PoolInv, ScriptOK, Stages
<1> QED
  BY <1>2, <1>3, ExitKeepsPool

LEMMA PoolInit == Init => PoolInv
<1> SUFFICES ASSUME Init PROVE PoolInv
  OBVIOUS
<1> USE DEF Init, FetchInit
<1>1. Cardinality({}) = 0
  BY CountBusy
<1>2. CrewOK
  BY <1>1, PoolAssumption DEF CrewOK
<1>3. Handled /\ ScriptOK
  BY DEF Handled, ScriptOK, Stages
<1> QED
  BY <1>2, <1>3 DEF PoolInv

LEMMA PoolNext == EvidenceInv /\ PoolInv /\ [Next]_vars => PoolInv'
<1> SUFFICES ASSUME EvidenceInv, PoolInv, [Next]_vars PROVE PoolInv'
  OBVIOUS
<1>1. phase \in [Claims -> Phases]
  BY DEF EvidenceInv, FetchTypes
<1>2. ASSUME UNCHANGED <<phase, mark, stage, missing, busy, seen, crew, rejected, verified>>,
             build' \in Builds
      PROVE  PoolInv'
  BY <1>2 DEF PoolInv, CrewOK, Handled, ScriptOK
<1>3. build \in Builds
  BY DEF PoolInv, ScriptOK
<1>4. CASE Run
  <2>1. ASSUME NEW c \in Claims, BlockStep(c), UNCHANGED <<build, files, script>> PROVE PoolInv'
    <3>1. CASE phase' = phase
      BY <2>1, <3>1, <1>2, <1>3 DEF files, script
    <3>2. CASE IndexBlocks(c) \/ CollectBlocks(c)
      <4>1. phase[c] # "none" /\ \A d \in Claims \ {c} : phase'[d] = phase[d]
        BY <3>2, <1>1 DEF IndexBlocks, CollectBlocks
      <4> QED
        BY <2>1, <4>1, WorkKeepsPool DEF files, script
    <3> QED
      BY <2>1, <3>1, <3>2
      DEF BlockStep, TakeTarget, ThreadEnds, MergeCached, FetchHeader, FetchReceipts,
          FetchTransactions, Publish
  <2>2. ASSUME NEW c \in Claims, BuildInput(c) \/ TruncateWitness(c) \/ WriteWitness(c)
        PROVE  PoolInv'
    <3>1. phase[c] # "none" /\ \A d \in Claims \ {c} : phase'[d] = phase[d]
      BY <2>2, <1>1 DEF BuildInput, TruncateWitness, WriteWitness
    <3> QED
      BY <2>2, <3>1, WorkKeepsPool
      DEF BuildInput, TruncateWitness, WriteWitness, Rewrite, files, script
  <2> QED
    BY <1>4, <2>1, <2>2, SpawnKeepsPool, FailureKeepsPool, RecordKeepsPool, StagesKeepPool
    DEF Run, Fetching
<1>5. CASE Start
  BY <1>5, LaunchKeepsPool DEF Start
<1>6. CASE Upset
  <2>1. ASSUME NEW c \in Claims, NEW t \in Threads, FetchFails(c, t),
               UNCHANGED <<build, files, script>>
        PROVE  PoolInv'
    BY <1>2, <1>3, <2>1 DEF FetchFails, files, script
  <2>2. ASSUME NEW c \in Claims, BuildFails(c) PROVE PoolInv'
    <3>1. phase[c] # "none" /\ \A d \in Claims \ {c} : phase'[d] = phase[d]
      BY <2>2, <1>1 DEF BuildFails
    <3> QED
      BY <2>2, <3>1, WorkKeepsPool DEF BuildFails, files, script
  <2>3. CASE ChangeSource
    BY <1>2, <2>3 DEF ChangeSource, files, script
  <2> QED
    BY <1>6, <2>1, <2>2, <2>3, StagesKeepPool, KillKeepsPool DEF Upset
<1>7. CASE Fork \/ UNCHANGED vars
  BY <1>2, <1>3, <1>7 DEF Fork, Reorganise, vars, files, script
<1> QED
  BY <1>4, <1>5, <1>6, <1>7 DEF Next

\* Through failures of workers, kills and reruns, no more claims are handled than workers are
\* left, none by two, and every process belongs to one of them
\* (generate-approved-development-proofs.mjs 105-123, 296-318).
THEOREM MaterializationTypes == Spec => []TypeOK
<1>1. EvidenceInv /\ ReadInv /\ MarksHold /\ PoolInv => TypeOK
  <2> SUFFICES ASSUME EvidenceInv, ReadInv, MarksHold, PoolInv PROVE TypeOK
    OBVIOUS
  <2>1. DOMAIN cache = Keys /\ phase \in [Claims -> Phases]
    BY DEF EvidenceInv, FetchTypes
  <2>2. forks \in {{1}, {1, 2}, {2}} /\ asMarked \in [Claims -> BOOLEAN]
    BY DEF ReadInv, MarksHold
  <2>3. CrewOK /\ ScriptOK /\ {c \in Claims : phase[c] # "none"} \subseteq busy
    BY DEF PoolInv, Handled
  <2> QED
    BY <2>1, <2>2, <2>3 DEF TypeOK, CrewOK, ScriptOK
<1>2. Init => MarksHold
  BY DEF Init, FetchInit, MarksHold, MarkHolds
<1> QED
  BY InvInit, InvNext, ReadInit, ReadNext, MarksNext, PoolInit, PoolNext, <1>1, <1>2, PTL DEF Spec

-----------------------------------------------------------------------------
(* What a proof commits to *)

LEMMA Division ==
  ASSUME NEW a \in Nat, NEW b \in Nat \ {0}
  PROVE  a \div b \in Nat /\ (a \div b) * b <= a /\ a < (a \div b) * b + b
OBVIOUS

LEMMA TimesGrows ==
  ASSUME NEW a \in Nat, NEW b \in Nat, a <= b, NEW c \in Nat
  PROVE  a * c <= b * c /\ a * c \in Nat /\ b * c \in Nat
OBVIOUS

LEMMA SubSeqs1 ==
  ASSUME NEW S, NEW s \in Seq(S), NEW m \in 0 .. Len(s), NEW n \in m .. Len(s)
  PROVE  SubSeq(s, 1, m) \o SubSeq(s, m + 1, n) = SubSeq(s, 1, n)
OBVIOUS

\* u holds what the first n of the sequences are together, one longer at a time.
Flattens(seqs, n, u) ==
  u = [i \in 1 .. n |-> IF i = 1 THEN seqs[i] ELSE u[i - 1] \o seqs[i]]

\* The recursion of FlattenSeq has no other solution.
LEMMA FlattenIs ==
  ASSUME NEW seqs, NEW n \in Nat \ {0}, Len(seqs) = n,
         NEW u, Flattens(seqs, n, u)
  PROVE  FlattenSeq(seqs) = u[n]
<1> USE DEF Flattens
<1> DEFINE Solves(t) == t = [i \in 1 .. n |-> IF i = 1 THEN seqs[i] ELSE t[i - 1] \o seqs[i]]
           flatten == CHOOSE t : Solves(t)
<1>1. FlattenSeq(seqs) = flatten[n]
  BY DEF FlattenSeq
<1>2. Solves(flatten)
  <2>1. Solves(u)
    OBVIOUS
  <2> HIDE DEF Solves
  <2> QED
    BY <2>1
<1>3. PICK t : t = flatten
  OBVIOUS
<1>4. Solves(t)
  BY <1>2, <1>3
<1> HIDE DEF flatten
<1> DEFINE T == {m \in Nat : m + 1 \in 1 .. n => t[m + 1] = u[m + 1]}
<1>5. 0 \in T
  BY <1>4
<1>6. ASSUME NEW m \in Nat, m \in T PROVE m + 1 \in T
  <2> SUFFICES ASSUME m + 2 \in 1 .. n PROVE t[m + 2] = u[m + 2]
    OBVIOUS
  <2>1. m + 1 \in 1 .. n /\ m + 2 # 1 /\ (m + 2) - 1 = m + 1
    OBVIOUS
  <2>2. t[m + 1] = u[m + 1]
    BY <1>6, <2>1
  <2>3. t[m + 2] = t[m + 1] \o seqs[m + 2]
    BY <1>4, <2>1
  <2>4. u[m + 2] = u[m + 1] \o seqs[m + 2]
    BY <2>1
  <2> QED
    BY <2>2, <2>3, <2>4
<1>7. \A m \in Nat : m \in T
  <2> HIDE DEF T
  <2> QED
    BY <1>5, <1>6, Induct
<1>8. PICK m \in Nat : m + 1 = n
  <2>1. n - 1 \in Nat /\ (n - 1) + 1 = n
    OBVIOUS
  <2> QED
    BY <2>1
<1>9. t[m + 1] = u[m + 1]
  BY <1>7, <1>8
<1> QED
  BY <1>1, <1>3, <1>8, <1>9

-----------------------------------------------------------------------------
(* Chunks *)

\* Where the n-th chunk ends.
ChunkEnd(refs, n) == IF n * ChunkSize < Len(refs) THEN n * ChunkSize ELSE Len(refs)

ChunkAt(refs, n) ==
  /\ ChunkEnd(refs, n - 1) \in Nat /\ ChunkEnd(refs, n) \in Nat
  /\ ChunkEnd(refs, n - 1) < ChunkEnd(refs, n) /\ ChunkEnd(refs, n) <= Len(refs)
  /\ ChunkEnd(refs, n) - ChunkEnd(refs, n - 1) <= ChunkSize
  /\ Chunked(refs)[n] = SubSeq(refs, ChunkEnd(refs, n - 1) + 1, ChunkEnd(refs, n))

LEMMA Ends ==
  ASSUME NEW L \in Nat \ {0}, NEW C \in Nat \ {0}, NEW N, N = (L + C - 1) \div C
  PROVE  /\ N \in Nat \ {0} /\ N * C >= L /\ 0 * C = 0
         /\ \A n \in 1 .. N : (n - 1) * C \in Nat /\ (n - 1) * C < L /\ n * C = (n - 1) * C + C
<1>1. N \in Nat /\ N * C <= L + C - 1 /\ L + C - 1 < N * C + C
  <2>1. L + C - 1 \in Nat
    OBVIOUS
  <2> QED
    BY <2>1, Division
<1>2. N * C \in Nat /\ N * C >= L /\ 0 * C = 0
  BY <1>1
<1>3. N # 0
  BY <1>2
<1>4. ASSUME NEW n \in 1 .. N
      PROVE  (n - 1) * C \in Nat /\ (n - 1) * C < L /\ n * C = (n - 1) * C + C
  <2>1. n - 1 \in Nat /\ n \in Nat /\ n <= N
    BY <1>1
  <2>2. (n - 1) * C \in Nat /\ n * C = (n - 1) * C + C
    BY <2>1
  <2>3. n * C <= N * C
    BY <1>1, <2>1, TimesGrows
  <2>4. n * C \in Nat
    BY <2>1, TimesGrows
  <2> QED
    BY <1>1, <1>2, <2>2, <2>3, <2>4
<1> QED
  BY <1>1, <1>2, <1>3, <1>4

LEMMA ChunksAre ==
  ASSUME NEW S, NEW refs \in Seq(S), Len(refs) >= 1
  PROVE  /\ IsLevel(Chunked(refs)) /\ Len(Chunked(refs)) >= 1
         /\ ChunkEnd(refs, 0) = 0 /\ ChunkEnd(refs, Len(Chunked(refs))) = Len(refs)
         /\ \A n \in 1 .. Len(Chunked(refs)) : ChunkAt(refs, n)
<1>1. PICK L \in Nat \ {0} : L = Len(refs)
  OBVIOUS
<1>2. PICK C \in Nat \ {0} : C = ChunkSize
  BY ChunkSizeAssumption
<1>3. PICK N : N = (L + C - 1) \div C
  OBVIOUS
<1>4. /\ N \in Nat \ {0} /\ N * C >= L /\ 0 * C = 0
      /\ \A n \in 1 .. N : (n - 1) * C \in Nat /\ (n - 1) * C < L /\ n * C = (n - 1) * C + C
  BY <1>3, Ends
<1>5. PICK ch : ch = Chunked(refs)
  OBVIOUS
<1>6. ch = [n \in 1 .. N |-> SubSeq(refs, (n - 1) * C + 1, ChunkEnd(refs, n))]
  BY <1>1, <1>2, <1>3, <1>5 DEF Chunked, ChunkEnd
<1>7. DOMAIN ch = 1 .. N /\ ch = [n \in DOMAIN ch |-> ch[n]]
  BY <1>6
<1>8. IsLevel(ch) /\ Len(ch) = N
  BY <1>4, <1>7, LevelWithDomain
<1>9. ChunkEnd(refs, 0) = 0 /\ ChunkEnd(refs, N) = L
  BY <1>1, <1>2, <1>4 DEF ChunkEnd
<1>10. ASSUME NEW n \in 1 .. N
       PROVE  ChunkAt(refs, n)
  <2>1. PICK b \in Nat : b = (n - 1) * C /\ b < L /\ n * C = b + C
    BY <1>4
  <2>2. ChunkEnd(refs, n - 1) = b
    BY <1>1, <1>2, <2>1 DEF ChunkEnd
  <2>3. PICK e : e = ChunkEnd(refs, n)
    OBVIOUS
  <2>4. e = IF b + C < L THEN b + C ELSE L
    BY <1>1, <1>2, <2>1, <2>3 DEF ChunkEnd
  <2>5. e \in Nat /\ b < e /\ e <= L /\ e - b <= C
    BY <2>1, <2>4
  <2>6. ch[n] = SubSeq(refs, b + 1, e)
    BY <1>6, <2>1, <2>3
  <2> QED
    BY <1>1, <1>2, <1>5, <2>2, <2>3, <2>5, <2>6 DEF ChunkAt
<1> QED
  BY <1>1, <1>2, <1>4, <1>5, <1>8, <1>9, <1>10

\* Together the chunks are the references.
LEMMA ChunksFlatten ==
  ASSUME NEW S, NEW refs \in Seq(S), Len(refs) >= 1,
         NEW seqs, seqs = [n \in DOMAIN Chunked(refs) |-> Chunked(refs)[n]]
  PROVE  FlattenSeq(seqs) = refs
<1>1. PICK N \in Nat \ {0} : N = Len(Chunked(refs))
  BY ChunksAre DEF IsLevel
<1>2. DOMAIN seqs = 1 .. N /\ Len(seqs) = N
  BY <1>1, ChunksAre, LevelWithDomain DEF IsLevel
<1>3. PICK u : u = [n \in 1 .. N |-> SubSeq(refs, 1, ChunkEnd(refs, n))]
  OBVIOUS
<1>4. ASSUME NEW n \in 1 .. N
      PROVE  u[n] = IF n = 1 THEN seqs[n] ELSE u[n - 1] \o seqs[n]
  <2>1. PICK a \in Nat, b \in Nat :
          /\ a = ChunkEnd(refs, n - 1) /\ b = ChunkEnd(refs, n) /\ a < b /\ b <= Len(refs)
    BY <1>1, ChunksAre DEF ChunkAt
  <2>2. u[n] = SubSeq(refs, 1, b)
    BY <1>3, <2>1
  <2>3. seqs[n] = SubSeq(refs, a + 1, b)
    BY <1>1, <1>2, <2>1, ChunksAre DEF ChunkAt
  <2>4. CASE n = 1
    <3>1. n - 1 = 0
      BY <2>4
    <3>2. ChunkEnd(refs, 0) = 0
      BY ChunksAre
    <3>3. a = 0 /\ a + 1 = 1
      BY <2>1, <3>1, <3>2
    <3> QED
      BY <2>2, <2>3, <2>4, <3>3
  <2>5. CASE n # 1
    <3>1. n - 1 \in 1 .. N
      BY <2>5
    <3>2. u[n - 1] = SubSeq(refs, 1, a)
      BY <1>3, <2>1, <3>1
    <3>3. SubSeq(refs, 1, a) \o SubSeq(refs, a + 1, b) = SubSeq(refs, 1, b)
      <4>1. a \in 0 .. Len(refs) /\ b \in a .. Len(refs)
        BY <2>1
      <4> QED
        BY <4>1, SubSeqs1
    <3> QED
      BY <2>2, <2>3, <2>5, <3>2, <3>3
  <2> QED
    BY <2>4, <2>5
<1>5. Flattens(seqs, N, u)
  BY <1>3, <1>4 DEF Flattens
<1>6. FlattenSeq(seqs) = u[N]
  BY <1>2, <1>5, FlattenIs
<1>7. u[N] = SubSeq(refs, 1, Len(refs))
  BY <1>1, <1>3, ChunksAre
<1>8. SubSeq(refs, 1, Len(refs)) = refs
  OBVIOUS
<1> QED
  BY <1>6, <1>7, <1>8

\* A stretch of references that strictly increase is such references.
LEMMA StretchInOrder ==
  ASSUME NEW S, NEW refs \in Seq(S), InOrder(refs),
         NEW a \in Nat, NEW b \in Nat, a < b, b <= Len(refs)
  PROVE  /\ InOrder(SubSeq(refs, a + 1, b)) /\ Len(SubSeq(refs, a + 1, b)) = b - a
<1>1. PICK s : s = SubSeq(refs, a + 1, b)
  OBVIOUS
<1>2. Len(s) = b - a /\ \A i \in 1 .. b - a : s[i] = refs[a + i]
  BY <1>1
<1>3. ASSUME NEW i \in 1 .. (b - a) - 1 PROVE s[i].number < s[i + 1].number
  <2>1. i \in 1 .. b - a /\ i + 1 \in 1 .. b - a /\ a + i \in 1 .. Len(refs) - 1
    OBVIOUS
  <2>2. s[i] = refs[a + i] /\ s[i + 1] = refs[a + (i + 1)] /\ a + (i + 1) = (a + i) + 1
    BY <1>2, <2>1
  <2>3. PICK k \in 1 .. Len(refs) - 1 : k = a + i
    BY <2>1
  <2>4. refs[k].number < refs[k + 1].number
    BY DEF InOrder
  <2> QED
    BY <2>2, <2>3, <2>4
<1>4. InOrder(s)
  BY <1>2, <1>3 DEF InOrder
<1> QED
  BY <1>1, <1>2, <1>4

LEMMA LeavesAre ==
  ASSUME NEW S, NEW refs \in Seq(S), Len(refs) >= 1
  PROVE  /\ IsLevel(Leaves(refs)) /\ Len(Leaves(refs)) = Len(Chunked(refs))
         /\ \A n \in 1 .. Len(Chunked(refs)) :
              Leaves(refs)[n] = ChunkLeaf(n - 1, Chunked(refs)[n])
<1>1. PICK N \in Nat : N = Len(Chunked(refs)) /\ DOMAIN Chunked(refs) = 1 .. N
  BY ChunksAre DEF IsLevel
<1>2. PICK v : v = Leaves(refs)
  OBVIOUS
<1>3. v = [n \in 1 .. N |-> ChunkLeaf(n - 1, Chunked(refs)[n])]
  BY <1>1, <1>2 DEF Leaves
<1>4. DOMAIN v = 1 .. N /\ v = [n \in DOMAIN v |-> v[n]]
  BY <1>3
<1>5. IsLevel(v) /\ Len(v) = N
  BY <1>4, LevelWithDomain
<1> QED
  BY <1>1, <1>2, <1>3, <1>5

LEMMA ChunkProofIs ==
  ASSUME NEW leaves, IsLevel(leaves), Len(leaves) >= 1, NEW place
  PROVE  /\ ChunkProof(leaves, place)
              = [h \in 1 .. Height(leaves) |-> Sibling(leaves, place, h - 1)]
         /\ Len(ChunkProof(leaves, place)) = Height(leaves)
<1>1. PICK n \in Nat : n = Height(leaves)
  BY HeightIs
<1>2. PICK p : p = ChunkProof(leaves, place)
  OBVIOUS
<1>3. p = [h \in 1 .. n |-> Sibling(leaves, place, h - 1)]
  BY <1>1, <1>2 DEF ChunkProof, Sibling
<1>4. DOMAIN p = 1 .. n /\ p = [h \in DOMAIN p |-> p[h]]
  BY <1>3
<1>5. Len(p) = n
  BY <1>4, LevelWithDomain
<1> QED
  BY <1>1, <1>2, <1>3, <1>5

\* The steps of a chunk that climbs.
Steps(chunk) ==
  [h \in 1 .. Len(chunk.proof) |->
     [node |-> chunk.proof[h], left |-> Place(chunk.index, h - 1) % 2 = 1]]

LEMMA StepsAre ==
  ASSUME NEW chunk, Len(chunk.proof) \in Nat
  PROVE  /\ Len(Steps(chunk)) = Len(chunk.proof)
         /\ \A h \in 1 .. Len(chunk.proof) :
              /\ Steps(chunk)[h].node = chunk.proof[h]
              /\ Steps(chunk)[h].left <=> Place(chunk.index, h - 1) % 2 = 1
         /\ ClimbFrom(chunk) = Climb(ChunkLeaf(chunk.index, chunk.references), Steps(chunk))
<1>1. PICK n \in Nat : n = Len(chunk.proof)
  OBVIOUS
<1>2. PICK s : s = Steps(chunk)
  OBVIOUS
<1>3. s = [h \in 1 .. n |-> [node |-> chunk.proof[h], left |-> Place(chunk.index, h - 1) % 2 = 1]]
  BY <1>1, <1>2 DEF Steps
<1>4. DOMAIN s = 1 .. n /\ s = [h \in DOMAIN s |-> s[h]]
  BY <1>3
<1>5. Len(s) = n
  BY <1>4, LevelWithDomain
<1>6. ASSUME NEW h \in 1 .. n
      PROVE  s[h].node = chunk.proof[h] /\ (s[h].left <=> Place(chunk.index, h - 1) % 2 = 1)
  <2>1. PICK p : p = Place(chunk.index, h - 1) % 2
    OBVIOUS
  <2>2. PICK r : r = s[h]
    OBVIOUS
  <2>3. r = [node |-> chunk.proof[h], left |-> p = 1]
    BY <1>3, <2>1, <2>2
  <2>4. r.node = chunk.proof[h] /\ (r.left <=> p = 1)
    BY <2>3
  <2> QED
    BY <2>1, <2>2, <2>4
<1> QED
  BY <1>1, <1>2, <1>5, <1>6 DEF ClimbFrom, Steps

LEMMA FileChunks ==
  ASSUME NEW S, NEW refs \in Seq(S), Len(refs) >= 1
  PROVE  /\ DOMAIN AuthenticationChunks(refs) = 1 .. Len(Chunked(refs))
         /\ Len(AuthenticationChunks(refs)) = Len(Chunked(refs))
         /\ \A n \in 1 .. Len(Chunked(refs)) :
              AuthenticationChunks(refs)[n] =
                [index |-> n - 1, references |-> Chunked(refs)[n],
                 proof |-> ChunkProof(Leaves(refs), n - 1)]
<1>1. PICK N \in Nat : N = Len(Chunked(refs)) /\ DOMAIN Chunked(refs) = 1 .. N
  BY ChunksAre DEF IsLevel
<1>2. PICK v : v = AuthenticationChunks(refs)
  OBVIOUS
<1>3. v = [n \in 1 .. N |-> [index |-> n - 1, references |-> Chunked(refs)[n],
                             proof |-> ChunkProof(Leaves(refs), n - 1)]]
  BY <1>1, <1>2 DEF AuthenticationChunks
<1>4. DOMAIN v = 1 .. N /\ v = [n \in DOMAIN v |-> v[n]]
  BY <1>3
<1>5. IsLevel(v) /\ Len(v) = N
  BY <1>4, LevelWithDomain
<1> QED
  BY <1>1, <1>2, <1>3, <1>5 DEF IsLevel

\* Every chunk of the file leads to the root.
LEMMA ChunkVerifies ==
  ASSUME NEW S, NEW refs \in Seq(S), Len(refs) >= 1, InOrder(refs),
         NEW n \in 1 .. Len(Chunked(refs)),
         NEW chunk, chunk = [index |-> n - 1, references |-> Chunked(refs)[n],
                             proof |-> ChunkProof(Leaves(refs), n - 1)]
  PROVE  VerifyChunk(ChunkRoot(refs), chunk)
<1>1. PICK i : i = n - 1 /\ i \in 0 .. Len(Chunked(refs)) - 1 /\ n = i + 1
  BY ChunksAre DEF IsLevel
<1>2. PICK leaves : leaves = Leaves(refs)
  OBVIOUS
<1>3. /\ IsLevel(leaves) /\ Len(leaves) = Len(Chunked(refs)) /\ Len(leaves) >= 1
      /\ leaves[n] = ChunkLeaf(i, Chunked(refs)[n])
  BY <1>1, <1>2, LeavesAre, ChunksAre
<1>4. /\ chunk.index = i /\ chunk.references = Chunked(refs)[n]
      /\ chunk.proof = ChunkProof(leaves, i)
  BY <1>1, <1>2
<1>5. PICK m \in Nat : m = Height(leaves)
  BY <1>3, HeightIs
<1>6. Len(chunk.proof) = m
  BY <1>3, <1>4, <1>5, ChunkProofIs
<1>7. \A h \in 1 .. m : chunk.proof[h] = Sibling(leaves, i, h - 1)
  <2>1. chunk.proof = [h \in 1 .. m |-> Sibling(leaves, i, h - 1)]
    BY <1>3, <1>4, <1>5, ChunkProofIs
  <2> QED
    BY <2>1
<1>8. PICK steps : steps = Steps(chunk)
  OBVIOUS
<1>9. /\ Len(steps) = m
      /\ \A h \in 1 .. m : /\ steps[h].node = chunk.proof[h]
                           /\ steps[h].left <=> Place(i, h - 1) % 2 = 1
      /\ ClimbFrom(chunk) = Climb(leaves[n], steps)
  BY <1>3, <1>4, <1>6, <1>8, StepsAre
<1>10. IsPathOf(leaves, i, steps)
  <2>1. \A h \in 1 .. m : Follows(leaves, i, h - 1, steps[h])
    BY <1>7, <1>9 DEF Follows
  <2> QED
    BY <1>5, <1>9, <2>1 DEF IsPathOf
<1>11. Climb(leaves[i + 1], steps) = RootOf(leaves)
  <2>1. PICK leaf : leaf = leaves[i + 1]
    OBVIOUS
  <2>2. i \in 0 .. Len(leaves) - 1
    BY <1>1, <1>3
  <2>3. Climb(leaf, steps) = RootOf(leaves) <=> leaf = leaves[i + 1]
    BY <1>3, <1>10, <2>2, PathLeadsUp
  <2> QED
    BY <2>1, <2>3
<1>12. ClimbFrom(chunk) = ChunkRoot(refs)
  BY <1>1, <1>2, <1>9, <1>11 DEF ChunkRoot
<1>13. Len(chunk.references) \in 1 .. ChunkSize /\ InOrder(chunk.references)
  <2>1. PICK a \in Nat, b \in Nat :
          /\ a < b /\ b <= Len(refs) /\ b - a <= ChunkSize
          /\ Chunked(refs)[n] = SubSeq(refs, a + 1, b)
    BY ChunksAre DEF ChunkAt
  <2>2. Len(Chunked(refs)[n]) = b - a /\ InOrder(Chunked(refs)[n])
    BY <2>1, StretchInOrder
  <2> QED
    BY <1>4, <2>1, <2>2, ChunkSizeAssumption
<1> QED
  BY <1>12, <1>13 DEF VerifyChunk

IsChunk(refs, chunk) ==
  \E n \in 1 .. Len(Chunked(refs)) :
    chunk = [index |-> n - 1, references |-> Chunked(refs)[n],
             proof |-> ChunkProof(Leaves(refs), n - 1)]

\* What leads to the root along the path of a chunk is a chunk, and this path is its own.
LEMMA OnlyChunksVerify ==
  ASSUME NEW S, NEW refs \in Seq(S), Len(refs) >= 1,
         NEW m \in 1 .. Len(Chunked(refs)),
         NEW i, NEW r, NEW p, p = ChunkProof(Leaves(refs), m - 1),
         NEW chunk, chunk = [index |-> i, references |-> r, proof |-> p],
         VerifyChunk(ChunkRoot(refs), chunk)
  PROVE  IsChunk(refs, chunk)
<1>1. PICK leaves : leaves = Leaves(refs)
  OBVIOUS
<1>2. /\ IsLevel(leaves) /\ Len(leaves) = Len(Chunked(refs)) /\ Len(leaves) >= 1
      /\ \A n \in 1 .. Len(Chunked(refs)) : leaves[n] = ChunkLeaf(n - 1, Chunked(refs)[n])
  BY <1>1, LeavesAre, ChunksAre
<1>3. PICK k \in Nat : k = Height(leaves) /\ Len(p) = k
  BY <1>1, <1>2, HeightIs, ChunkProofIs
<1>4. p = [h \in 1 .. k |-> p[h]]
  BY <1>1, <1>2, <1>3, ChunkProofIs
<1>5. PICK steps : steps = Steps(chunk)
  OBVIOUS
<1>6. /\ Len(steps) = k
      /\ \A h \in 1 .. k : steps[h].node = p[h] /\ (steps[h].left <=> Place(i, h - 1) % 2 = 1)
      /\ Climb(ChunkLeaf(i, r), steps) = RootOf(leaves)
  <2>1. chunk.index = i /\ chunk.references = r /\ chunk.proof = p
    OBVIOUS
  <2>2. ClimbFrom(chunk) = RootOf(leaves)
    BY <1>1 DEF VerifyChunk, ChunkRoot
  <2>3. /\ Len(steps) = k
        /\ \A h \in 1 .. k : /\ steps[h].node = chunk.proof[h]
                             /\ steps[h].left <=> Place(chunk.index, h - 1) % 2 = 1
        /\ ClimbFrom(chunk) = Climb(ChunkLeaf(chunk.index, chunk.references), steps)
    <3>1. Len(chunk.proof) = k
      BY <1>3, <2>1
    <3> QED
      BY <1>5, <3>1, StepsAre
  <2> QED
    BY <1>3, <2>1, <2>2, <2>3
<1>7. PICK j \in 0 .. Len(leaves) - 1 :
        /\ ChunkLeaf(i, r) = leaves[j + 1]
        /\ \A h \in 1 .. Len(steps) :
             (steps[h].left <=> Place(j, h - 1) % 2 = 1)
               => steps[h].node = Sibling(leaves, j, h - 1)
  <2>1. PICK leaf : leaf = ChunkLeaf(i, r)
    OBVIOUS
  <2> QED
    BY <1>2, <1>3, <1>6, <2>1, OnlyLeavesLeadUp DEF NamesALeaf
<1>8. PICK n \in 1 .. Len(Chunked(refs)) : n = j + 1 /\ n - 1 = j
  BY <1>2 DEF IsLevel
<1>9. i = j /\ r = Chunked(refs)[n]
  <2>1. ChunkLeaf(i, r) = ChunkLeaf(j, Chunked(refs)[n])
    BY <1>2, <1>7, <1>8
  <2> QED
    BY <2>1 DEF ChunkLeaf
<1>10. \A h \in 1 .. k : p[h] = Sibling(leaves, j, h - 1)
  BY <1>6, <1>7, <1>9
<1>11. p = ChunkProof(leaves, j)
  <2>1. ChunkProof(leaves, j) = [h \in 1 .. k |-> Sibling(leaves, j, h - 1)]
    BY <1>2, <1>3, ChunkProofIs
  <2> QED
    BY <1>4, <1>10, <2>1
<1> QED
  BY <1>1, <1>8, <1>9, <1>11 DEF IsChunk
\* The file of a list of references authenticates them and nothing else.
LEMMA ChunksAuthenticate ==
  ASSUME NEW S, NEW refs \in Seq(S), Len(refs) >= 1, InOrder(refs),
         NEW a, a = [references |-> refs, root |-> ChunkRoot(refs),
                     chunks |-> AuthenticationChunks(refs)]
  PROVE  /\ ChunksFileAccepted(a.chunks, Len(a.references))
         /\ FlattenSeq([n \in DOMAIN a.chunks |-> a.chunks[n].references]) = a.references
         /\ \A chunk \in Offered(a) :
               VerifyChunk(a.root, chunk) <=> \E n \in DOMAIN a.chunks : a.chunks[n] = chunk
<1>1. PICK N \in Nat : N = Len(Chunked(refs)) /\ DOMAIN Chunked(refs) = 1 .. N
  BY ChunksAre DEF IsLevel
<1>2. PICK file : file = AuthenticationChunks(refs)
  OBVIOUS
<1>3. /\ DOMAIN file = 1 .. N /\ Len(file) = N
      /\ \A n \in 1 .. N : file[n] = [index |-> n - 1, references |-> Chunked(refs)[n],
                                      proof |-> ChunkProof(Leaves(refs), n - 1)]
  BY <1>1, <1>2, FileChunks
<1>4. a.references = refs /\ a.root = ChunkRoot(refs) /\ a.chunks = file
  BY <1>2
<1>5. FlattenSeq([n \in DOMAIN file |-> file[n].references]) = refs
  <2>1. PICK seqs : seqs = [n \in DOMAIN file |-> file[n].references]
    OBVIOUS
  <2>2. seqs = [n \in DOMAIN Chunked(refs) |-> Chunked(refs)[n]]
    BY <1>1, <1>3, <2>1
  <2>3. FlattenSeq(seqs) = refs
    BY <2>2, ChunksFlatten
  <2> QED
    BY <2>1, <2>3
<1>6. ASSUME NEW n \in 1 .. N
      PROVE  /\ VerifyChunk(ChunkRoot(refs), file[n])
             /\ file[n].index = n - 1 /\ Len(file[n].references) \in 1 .. ChunkSize
  <2>1. PICK chunk : /\ chunk = file[n]
                     /\ chunk = [index |-> n - 1, references |-> Chunked(refs)[n],
                                 proof |-> ChunkProof(Leaves(refs), n - 1)]
    BY <1>3
  <2>2. VerifyChunk(ChunkRoot(refs), chunk)
    BY <1>1, <2>1, ChunkVerifies
  <2>3. chunk.index = n - 1
    BY <2>1
  <2>4. Len(chunk.references) \in 1 .. ChunkSize
    BY <2>2 DEF VerifyChunk
  <2> QED
    BY <2>1, <2>2, <2>3, <2>4
<1>7. ChunksFileAccepted(file, Len(refs))
  BY <1>3, <1>5, <1>6 DEF ChunksFileAccepted
<1>8. ASSUME NEW chunk \in Offered(a), VerifyChunk(ChunkRoot(refs), chunk)
      PROVE  \E n \in 1 .. N : file[n] = chunk
  <2>1. PICK i, r, p : chunk = [index |-> i, references |-> r, proof |-> p]
                       /\ p \in {file[n].proof : n \in 1 .. N}
    BY <1>3, <1>4 DEF Offered
  <2>2. PICK m \in 1 .. N : p = ChunkProof(Leaves(refs), m - 1)
    <3>1. PICK m \in 1 .. N : p = file[m].proof
      BY <2>1
    <3>2. PICK q : /\ q = file[m]
                   /\ q = [index |-> m - 1, references |-> Chunked(refs)[m],
                           proof |-> ChunkProof(Leaves(refs), m - 1)]
      BY <1>3
    <3> QED
      BY <3>1, <3>2
  <2>3. IsChunk(refs, chunk)
    BY <1>1, <1>8, <2>1, <2>2, OnlyChunksVerify
  <2> QED
    BY <1>1, <1>3, <2>3 DEF IsChunk
<1> QED
  BY <1>3, <1>4, <1>5, <1>6, <1>7, <1>8

\* The references of a whole witness are in order.
LEMMA ReferencesAre ==
  ASSUME NEW c \in Claims, IsWhole(c)
  PROVE  \E S : References(c) \in Seq(S) /\ Len(References(c)) >= 1 /\ InOrder(References(c))
<1>1. PICK L \in Nat \ {0} : L = Len(Targets[c]) /\ DOMAIN Targets[c] = 1 .. L
  <2>1. Targets[c] \in Seq(TargetSet) /\ Targets[c] # <<>>
    BY TargetsAssumption, OrderAssumption
  <2> QED
    BY <2>1
<1>2. PICK refs : refs = References(c)
  OBVIOUS
<1>3. refs = [j \in 1 .. L |-> [number |-> Targets[c][j].block, hash |-> witness[c][j].header]]
  BY <1>1, <1>2 DEF References, IsWhole
<1>4. DOMAIN refs = 1 .. L /\ refs = [j \in DOMAIN refs |-> refs[j]]
  BY <1>3
<1>5. Len(refs) = L /\ refs \in Seq({refs[j] : j \in DOMAIN refs})
  BY <1>4, LevelWithDomain
<1>6. ASSUME NEW j \in 1 .. L - 1 PROVE refs[j].number < refs[j + 1].number
  <2>1. j \in 1 .. L /\ j + 1 \in 1 .. L
    OBVIOUS
  <2>2. refs[j].number = Targets[c][j].block /\ refs[j + 1].number = Targets[c][j + 1].block
    BY <1>3, <2>1
  <2>3. Targets[c][j].block < Targets[c][j + 1].block
    BY <1>1, OrderAssumption
  <2> QED
    BY <2>2, <2>3
<1>7. InOrder(refs)
  BY <1>5, <1>6 DEF InOrder
<1> QED
  BY <1>2, <1>5, <1>7

\* While sellers are verified no file changes, and every claim's witness is current.
VerifiedHold ==
  /\ stage \in {"sellers", "summary"} => \A c \in Claims : IsCurrent(c)
  /\ stage \notin {"sellers", "summary"} => verified = {}

LEMMA VerifiedNext == EvidenceInv /\ PoolInv /\ VerifiedHold /\ [Next]_vars => VerifiedHold'
<1> SUFFICES ASSUME EvidenceInv, PoolInv, VerifiedHold, [Next]_vars PROVE VerifiedHold'
  OBVIOUS
<1>1. ASSUME UNCHANGED <<build, witness, mark, asMarked, stage, verified>>
      PROVE  VerifiedHold'
  BY <1>1 DEF VerifiedHold, IsCurrent
<1>2. ASSUME stage' \notin {"sellers", "summary"}, verified' = {}
      PROVE  VerifiedHold'
  BY <1>2 DEF VerifiedHold
<1>3. ASSUME Exit
      PROVE  VerifiedHold'
  BY <1>2, <1>3 DEF Exit
<1>4. ASSUME stage = "pool", UNCHANGED <<stage, verified>>
      PROVE  VerifiedHold'
  BY <1>2, <1>4 DEF VerifiedHold
<1>5. \A c \in Claims : phase[c] # "none" \/ c \in busy => stage = "pool"
  BY DEF PoolInv, CrewOK, Handled
<1>6. CASE Run
  <2>1. ASSUME NEW c \in Claims, BlockStep(c), UNCHANGED <<build, files, script>>
        PROVE  VerifiedHold'
    BY <1>1, <2>1 DEF files, script
  <2>2. ASSUME NEW c \in Claims,
               \/ BuildInput(c) \/ TruncateWitness(c) \/ WriteWitness(c) \/ ChildFailed(c)
               \/ StatWitness(c) \/ WriteMetadata(c) \/ Spawn(c)
        PROVE  VerifiedHold'
    <3>1. stage = "pool" /\ UNCHANGED <<stage, verified>>
      BY <1>5, <2>2
      DEF BuildInput, TruncateWitness, WriteWitness, ChildFailed, Exited, StatWitness,
          WriteMetadata, Spawn, script
    <3> QED
      BY <1>4, <3>1
  <2>3. ASSUME NEW c \in Claims, VerifySeller(c)
        PROVE  VerifiedHold'
    <3>1. CASE Exit
      BY <1>3, <3>1
    <3>2. CASE ~Exit
      <4>1. UNCHANGED <<build, witness, mark, asMarked, stage>> /\ stage = "sellers"
        BY <2>3, <3>2 DEF VerifySeller
      <4> QED
        BY <4>1 DEF VerifiedHold, IsCurrent
    <3> QED
      BY <3>1, <3>2
  <2>4. CASE PoolEnds
    <3>1. Exit \/ (stage = "pool" /\ stage' = "recheck" /\ verified' = verified)
      BY <2>4 DEF PoolEnds
    <3> QED
      BY <1>2, <1>3, <3>1 DEF VerifiedHold
  <2>5. CASE Recheck
    <3>1. CASE Exit
      BY <1>3, <3>1
    <3>2. CASE ~Exit
      <4>1. /\ stage' = "sellers" /\ UNCHANGED <<build, witness, mark, asMarked>>
            /\ \A c \in Claims : IsCurrent(c)
        BY <2>5, <3>2 DEF Recheck, files
      <4> QED
        BY <4>1 DEF VerifiedHold, IsCurrent
    <3> QED
      BY <3>1, <3>2
  <2>6. CASE SellersEnd
    BY <2>6 DEF SellersEnd, files, VerifiedHold, IsCurrent
  <2>7. CASE WriteSummary
    BY <1>3, <2>7 DEF WriteSummary
  <2> QED
    BY <1>6, <2>1, <2>2, <2>3, <2>4, <2>5, <2>6, <2>7 DEF Run, Fetching
<1>7. CASE Start
  <2>1. stage = "idle" /\ stage' \in {"pool", "recheck"} /\ verified' = verified
    BY <1>7 DEF Start, Launch
  <2> QED
    BY <1>2, <2>1 DEF VerifiedHold
<1>8. CASE Upset
  <2>1. ASSUME NEW c \in Claims, NEW t \in Threads, FetchFails(c, t),
               UNCHANGED <<build, files, script>>
        PROVE  VerifiedHold'
    BY <1>1, <2>1 DEF files, script
  <2>2. ASSUME NEW c \in Claims, BuildFails(c)
        PROVE  VerifiedHold'
    BY <1>1, <2>2 DEF BuildFails, files, script
  <2>3. CASE SellerFails \/ Kill
    BY <1>3, <2>3 DEF SellerFails, Kill
  <2>4. CASE ChangeSource
    <3>1. stage = "idle" /\ UNCHANGED <<stage, verified>>
      BY <2>4 DEF ChangeSource, script
    <3> QED
      BY <1>2, <3>1 DEF VerifiedHold
  <2> QED
    BY <1>8, <2>1, <2>2, <2>3, <2>4 DEF Upset
<1>9. CASE Fork \/ UNCHANGED vars
  BY <1>1, <1>9 DEF Fork, Reorganise, vars, files, script
<1> QED
  BY <1>6, <1>7, <1>8, <1>9 DEF Next

\* Whatever the claims, the size of a chunk and the interruptions: what a verified seller's proof
\* commits to is authenticated by its chunks file, chunk by chunk and altogether, and a
\* chunk someone offers is accepted only if it is one of the file's (seller.rs 393-512).
THEOREM OnlyItsChunks == Spec => []ChunksAuthenticateReferences
<1>1. MarksHold /\ PoolInv /\ VerifiedHold => ChunksAuthenticateReferences
  <2> SUFFICES ASSUME MarksHold, PoolInv, VerifiedHold, NEW c \in verified,
                      NEW a, a = Artifact(c)
               PROVE  /\ ChunksFileAccepted(a.chunks, Len(a.references))
                      /\ FlattenSeq([n \in DOMAIN a.chunks |-> a.chunks[n].references])
                           = a.references
                      /\ \A chunk \in Offered(a) :
                           VerifyChunk(a.root, chunk) <=> \E n \in DOMAIN a.chunks :
                                                            a.chunks[n] = chunk
    BY DEF ChunksAuthenticateReferences
  <2>1. c \in Claims
    BY DEF PoolInv, ScriptOK
  <2>2. IsCurrent(c)
    BY <2>1 DEF VerifiedHold
  <2>3. IsWhole(c)
    BY <2>1, <2>2 DEF MarksHold, MarkHolds, IsCurrent
  <2>4. PICK S, refs : refs \in Seq(S) /\ refs = References(c) /\ Len(refs) >= 1 /\ InOrder(refs)
    BY <2>1, <2>3, ReferencesAre
  <2>5. a = [references |-> refs, root |-> ChunkRoot(refs), chunks |-> AuthenticationChunks(refs)]
    BY <2>4 DEF Artifact
  <2> QED
    BY <2>4, <2>5, ChunksAuthenticate
<1>2. Init => MarksHold /\ VerifiedHold
  BY DEF Init, FetchInit, MarksHold, MarkHolds, VerifiedHold
<1> QED
  BY InvInit, InvNext, MarksNext, PoolInit, PoolNext, VerifiedNext, <1>1, <1>2, PTL DEF Spec

=============================================================================
