---------------------------- MODULE EvidenceCache ----------------------------
(***************************************************************************)
(* Fetching block evidence (block_evidence_many of host/src/rpc.rs): the   *)
(* threads of each materializer process take targets from a shared         *)
(* counter, look for a cache entry of exactly that target, else put one    *)
(* together from the entries of its block, else ask the provider, and      *)
(* publish what they got.  Processes share the cache directory only.       *)
(*                                                                         *)
(* A block has a version on each fork of the chain, which stands for its   *)
(* hash and the roots in its header; a proof carries the version under     *)
(* whose root it verifies.  Endpoints may serve two forks for a while.     *)
(* The temporary file of an entry is not visible to anyone before the      *)
(* rename, so publishing is one step.                                      *)
(***************************************************************************)
EXTENDS Integers, FiniteSets, Sequences

CONSTANTS
  Claims,     \* the planned claims, 1 .. n; each has a materializer process
  Targets,    \* for each claim: its blocks in order, [block, receipts, transactions]
  Earlier,    \* targets whose entries earlier plans have left in the cache
  ForkFrom,   \* the first block in which the two forks differ
  Threads,    \* LOOP_RPC_CONCURRENCY
  NoEntry, Failed \* no cache file, no result yet; a target that ended in an error

TargetSet == [block : Nat, receipts : SUBSET Nat, transactions : SUBSET Nat]

EvidenceSet ==
  [header : Nat, receipts : SUBSET (Nat \X Nat), transactions : SUBSET (Nat \X Nat),
   positions : SUBSET Nat]

ASSUME TargetsAssumption ==
  Targets \in [Claims -> Seq(TargetSet)] /\ Earlier \subseteq TargetSet

\* The blocks of a claim come from a map ordered by number, in which its period end always is.
ASSUME OrderAssumption ==
  \A c \in Claims :
    /\ Targets[c] # <<>>
    /\ \A j \in 1 .. Len(Targets[c]) - 1 : Targets[c][j].block < Targets[c][j + 1].block

\* concurrency.max(1)
ASSUME ThreadsAssumption == Threads # {}

VARIABLES
  forks,   \* the forks the endpoints serve
  cache,   \* published entries, by target
  phase,   \* what the process of a claim does
  index,   \* the entries it saw when it began
  next,    \* the shared counter
  results, \* for each of its targets
  thread   \* its threads

fetching == <<index, next, results, thread>>

Version(block, fork) == IF block < ForkFrom THEN 1 ELSE fork
Served(block) == {Version(block, f) : f \in forks}

Keys == Earlier \cup UNION {{Targets[c][j] : j \in DOMAIN Targets[c]} : c \in Claims}

\* What is known of a block: header (0 when unknown), inclusion proofs, and the versions
\* whose receipts gave log positions.
Evidence(header, receipts, transactions, positions) ==
  [header |-> header, receipts |-> receipts, transactions |-> transactions,
   positions |-> positions]
Nothing == Evidence(0, {}, {}, {})
FullEvidence(target, v) ==
  Evidence(v, target.receipts \X {v}, target.transactions \X {v},
           IF target.receipts = {} THEN {} ELSE {v})

Indices(proofs) == {proof[1] : proof \in proofs}

Complete(target, e) ==
  /\ e.header # 0
  /\ Indices(e.receipts) = target.receipts
  /\ Indices(e.transactions) = target.transactions

Idle == [pc |-> "next", job |-> 0, found |-> Nothing, unread |-> {}]

FetchInit ==
  /\ forks = {1}
  /\ cache = [k \in Keys |-> IF k \in Earlier THEN FullEvidence(k, 1) ELSE NoEntry]
  /\ phase = [c \in Claims |-> "none"]
  /\ index = [c \in Claims |-> {}] /\ next = [c \in Claims |-> 0]
  /\ results = [c \in Claims |-> <<>>]
  /\ thread = [c \in Claims |-> [t \in Threads |-> Idle]]

\* The memory of processes that ended is gone.
Forget(ended) ==
  /\ index' = [c \in Claims |-> IF c \in ended THEN {} ELSE index[c]]
  /\ next' = [c \in Claims |-> IF c \in ended THEN 0 ELSE next[c]]
  /\ results' = [c \in Claims |-> IF c \in ended THEN <<>> ELSE results[c]]
  /\ thread' = [c \in Claims |-> IF c \in ended THEN [t \in Threads |-> Idle] ELSE thread[c]]

Target(c, t) == Targets[c][thread[c][t].job]
At(c, t, pc) == phase[c] = "blocks" /\ thread[c][t].pc = pc

\* block_evidence_many begins: the directory is listed.
IndexBlocks(c) ==
  /\ phase[c] = "index"
  /\ phase' = [phase EXCEPT ![c] = "blocks"]
  /\ index' = [index EXCEPT ![c] = {k \in Keys : cache[k] # NoEntry}]
  /\ next' = [next EXCEPT ![c] = 1]
  /\ results' = [results EXCEPT ![c] = [j \in DOMAIN Targets[c] |-> NoEntry]]
  /\ thread' = [thread EXCEPT ![c] = [t \in Threads |-> Idle]]
  /\ UNCHANGED <<forks, cache>>

\* The thread has a result for its target, good or bad, and goes on.
Deliver(c, t, job, result) ==
  /\ results' = [results EXCEPT ![c][job] = result]
  /\ thread' = [thread EXCEPT ![c][t] = Idle]

\* A thread takes the next target: the entry of exactly this target is its result, or else
\* every indexed entry of its block is to be read.
TakeTarget(c, t) ==
  /\ At(c, t, "next") /\ next[c] \in DOMAIN Targets[c]
  /\ next' = [next EXCEPT ![c] = @ + 1]
  /\ LET target == Targets[c][next[c]] IN
     IF cache[target] # NoEntry /\ Complete(target, cache[target])
     THEN Deliver(c, t, next[c], cache[target])
     ELSE /\ thread' = [thread EXCEPT ![c][t] =
                          [pc |-> "merge", job |-> next[c], found |-> Nothing,
                           unread |-> {k \in index[c] : k.block = target.block}]]
          /\ UNCHANGED results
  /\ UNCHANGED <<forks, cache, phase, index>>

\* No target is left for the thread.
ThreadEnds(c, t) ==
  /\ At(c, t, "next") /\ next[c] \notin DOMAIN Targets[c]
  /\ thread' = [thread EXCEPT ![c][t].pc = "over"]
  /\ UNCHANGED <<forks, cache, phase, index, next, results>>

\* Proofs of an entry that are asked for and not there yet.
Added(have, more, wanted) ==
  have \cup {proof \in more : proof[1] \in wanted /\ proof[1] \notin Indices(have)}

\* Mutant of Merged: entries of another fork are merged too.
MergedAnyFork(target, found, e) ==
  Evidence(IF found.header = 0 THEN e.header ELSE found.header,
           Added(found.receipts, e.receipts, target.receipts),
           Added(found.transactions, e.transactions, target.transactions),
           found.positions \cup e.positions)

\* Mutant of Merged: a new entry replaces what the entries before it gave.
MergedAfresh(target, found, e) ==
  Evidence(e.header, Added({}, e.receipts, target.receipts),
           Added({}, e.transactions, target.transactions), e.positions)

\* One more entry of the block: the first header counts, entries with another are skipped.
Merged(target, found, e) ==
  IF found.header \notin {0, e.header} THEN found
  ELSE Evidence(e.header, Added(found.receipts, e.receipts, target.receipts),
                Added(found.transactions, e.transactions, target.transactions),
                found.positions \cup e.positions)

MergeCached(c, t) ==
  /\ At(c, t, "merge") /\ ~Complete(Target(c, t), thread[c][t].found)
  /\ \E k \in thread[c][t].unread :
       LET found == Merged(Target(c, t), thread[c][t].found, cache[k])
           left == thread[c][t].unread \ {k}
       IN thread' = [thread EXCEPT ![c][t] = [@ EXCEPT !.unread = left, !.found = found]]
  /\ UNCHANGED <<forks, cache, phase, index, next, results>>

-----------------------------------------------------------------------------
(* Asking the provider *)

\* Nothing in the cache was enough, and the header is asked for.
FetchHeader(c, t) ==
  /\ At(c, t, "merge") /\ ~Complete(Target(c, t), thread[c][t].found)
  /\ thread[c][t].unread = {}
  /\ \E v \in Served(Target(c, t).block) :
       thread' = [thread EXCEPT ![c][t] =
                    [@ EXCEPT !.pc = "fetch", !.found = [Nothing EXCEPT !.header = v]]]
  /\ UNCHANGED <<forks, cache, phase, index, next, results>>

\* Whether the receipts (the transactions) are still to be asked for.
NeedsReceipts(c, t) == Target(c, t).receipts # Indices(thread[c][t].found.receipts)
NeedsTransactions(c, t) ==
  ~NeedsReceipts(c, t)
  /\ Target(c, t).transactions # Indices(thread[c][t].found.transactions)

\* All receipts (transactions) of the block, whose root must be that of the header.
FetchReceipts(c, t) ==
  /\ At(c, t, "fetch") /\ NeedsReceipts(c, t)
  /\ \E v \in Served(Target(c, t).block) :
       IF v = thread[c][t].found.header
       THEN /\ thread' = [thread EXCEPT ![c][t].found =
                            [@ EXCEPT !.receipts = Target(c, t).receipts \X {v},
                                      !.positions = {v}]]
            /\ UNCHANGED results
       ELSE Deliver(c, t, thread[c][t].job, Failed)
  /\ UNCHANGED <<forks, cache, phase, index, next>>

FetchTransactions(c, t) ==
  /\ At(c, t, "fetch") /\ NeedsTransactions(c, t)
  /\ \E v \in Served(Target(c, t).block) :
       IF v = thread[c][t].found.header
       THEN /\ thread' = [thread EXCEPT ![c][t].found =
                            [@ EXCEPT !.transactions = Target(c, t).transactions \X {v}]]
            /\ UNCHANGED results
       ELSE Deliver(c, t, thread[c][t].job, Failed)
  /\ UNCHANGED <<forks, cache, phase, index, next>>

\* All attempts of a call failed, or an entry could not be written.
FetchFails(c, t) ==
  /\ phase[c] = "blocks" /\ thread[c][t].pc \in {"merge", "fetch"}
  /\ thread[c][t].unread = {} \/ Complete(Target(c, t), thread[c][t].found)
  /\ Deliver(c, t, thread[c][t].job, Failed)
  /\ UNCHANGED <<forks, cache, phase, index, next>>

\* What was merged or fetched is renamed into place and delivered.
Publish(c, t) ==
  /\ phase[c] = "blocks" /\ thread[c][t].pc \in {"merge", "fetch"}
  /\ Complete(Target(c, t), thread[c][t].found)
  /\ cache' = [cache EXCEPT ![Target(c, t)] = thread[c][t].found]
  /\ Deliver(c, t, thread[c][t].job, thread[c][t].found)
  /\ UNCHANGED <<forks, phase, index, next>>

\* All threads have returned; the first error among the results is the result.
CollectBlocks(c) ==
  /\ phase[c] = "blocks" /\ \A t \in Threads : thread[c][t].pc = "over"
  /\ phase' = [phase EXCEPT ![c] = IF \E j \in DOMAIN results[c] : results[c][j] = Failed
                                   THEN "failed" ELSE "build"]
  /\ UNCHANGED <<forks, cache, fetching>>

BlockStep(c) ==
  \/ IndexBlocks(c) \/ CollectBlocks(c)
  \/ \E t \in Threads :
       \/ TakeTarget(c, t) \/ ThreadEnds(c, t) \/ MergeCached(c, t) \/ FetchHeader(c, t)
       \/ FetchReceipts(c, t) \/ FetchTransactions(c, t) \/ Publish(c, t)

\* Endpoints begin to serve another fork, and end serving the first.
Reorganise ==
  /\ forks' \in {{1, 2}, {2}} /\ forks # forks' /\ 1 \in forks
  /\ UNCHANGED <<cache, phase, fetching>>

=============================================================================
