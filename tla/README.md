# A verification development for loop-proof

loop-proof proves, in zero knowledge, that volume a seller settled on the Antseed
protocol was a *conserved value loop*: capital put in by a funder, settled by funded
buyers with the seller, and returned to the funder.  This directory holds TLA+ models of
the program, TLC configurations that check them on small instances, and proofs checked by
TLAPS.  Paths below are relative to the repository root.

## 1. The system

| Part | Code | State | Operations |
|---|---|---|---|
| Predicates | `predicate/src/{closed_loop,reciprocal,resolver,lib}.rs` | per verification: logs used so far, per-buyer and total sums, earliest times, path credit | verify blocks, fundings, settlements, ledgers, returns; accept or reject a claim |
| Seller aggregation | `predicate/src/{seller,journal}.rs`, `program/seller` | the seller journal, block references in chunks and their Merkle root | verify one seller in the guest, authenticate a chunk |
| Authenticated data | `core/src/lib.rs` | none | Merkle-Patricia inclusion, receipts, transactions, storage values |
| Evidence host | `host/src/rpc.rs`, `host/src/main.rs`, `wash-trading-materialize-p0.rs`, `wash-trading-expand-returns.rs` | `.cache/block-evidence`: one file per block and set of targets | fetch with retries from a thread pool, merge what is cached, publish, write witnesses |
| Witness verification | `scripts/generate-approved-development-proofs.mjs` | witness files with metadata, seller artifacts, summary | start materializers for claims without a current witness, verify every seller |
| Bundles | `scripts/build-unified-historical-{bundle,snapshot}.mjs`, `proof-bundle.mjs` | `proof-bundle.json`, `proof-plan.json`, `snapshot-lock.json` | draft one claim per approved case, finalize, plan, lock |
| Planning | `scripts/proof-planner.mjs`, `return-path-selection.mjs`, `expanded-return-graph.mjs`, `search-*.mjs` | checkpoints per claim; per claim: capacity per buyer, used logs, selected paths | choose fundings, settlements and disjoint return paths |
| Development proving | `scripts/replay-seller-development.mjs`, `prepare-seller-proving.mjs` | summary file, two or more workers | replay, estimate, resume |
| Approved production batch | `scripts/prove-approved-batch.mjs`, `run-production-proofs-safe.sh` | run configuration, artifacts, checkpoints | preflight, concurrent paid proving, summary |
| Frozen production queue | `scripts/submit-frozen-seller-batch.mjs`, `submit-frozen-seller-canary.mjs`, `run-frozen-seller-batch.sh` | batch quote, `batch.lock`, `summary.json`, per seller `execution.lock`, `submission-started.json`, `seller.request.json`, `seller.json` | prepare, refresh, preflight, run, submit |
| Prover child | `host/src/bin/wash-trading-prove-seller.rs`, `host/src/proving.rs` | request checkpoint, artifact; at the network, charged and fulfilled requests | request, save, wait, write |
| Reports and publication | `scripts/generate-aggregate-calldata.mjs`, `published-seller-proofs.mjs`, `report-*.mjs` | none | formatting |

How they interact: the snapshot script runs the bundle builder as a child, then plans in its
own process, and freezes bundle and plan under a lock; the witness script accepts the lock
and starts materializer processes, which share the evidence cache, and a verifying child per
seller; the batch scripts start one
prover child per seller as a process and talk to it only through its exit status and the
two files it writes; the child runs the same predicate natively and in the guest, and pays
the prover network for one Groth16 proof.  Scripts in different terminals share nothing
but files.

What is hard: money is spent by a call whose answer can be lost, between two file writes of
a process that can be killed, whose child may go on without it; operators run several
commands at once; every script acts on files it read earlier; several workers of one run
pay concurrently; files are written in place and kept from run to run, so that a torn one, one
made under other rules or one from an orphaned block may be found later; the planner
decides with other means than the predicate what the predicate will accept; and the
predicate's sums and orderings decide what an accepted proof means.  `PROJECT.json` lists these hazards at their lines.

### What makes each part correct

| Part | Must hold | Property |
|---|---|---|
| Frozen queue and child | a seller is charged at most once, wherever a script or child is killed and whatever runs beside it | `AtMostOnePaidRequest`, `PaymentTrail`, `PaysOncePerProof` |
| | two children never work for one seller | `OneChildPerSeller` |
| | the summary records proofs that exist, and never loses one | `RecordedIsProved`, `ResultsAreKept` |
| | sellers are paid in queue order, under a quote issued for the batch as it is | `PaysInOrderUnderCurrentQuote` |
| | the files a command leaves are accepted by the next one; every command ends; the queue gets complete unless a seller blocks it | `LauncherCanResume`, `ResumableUnlessKilled`, `CommandsEnd`, `QueueCompletes` |
| Approved batch | nothing is paid for an input set that did not pass the native preflight, which names every failure | `PreflightGuardsPayments`, `PreflightReportsAll` |
| | concurrency alone never pays twice; a saved request of another plan is not resumed | `PaymentsAreExplained`, `ResumesOwnPlan` |
| | a finished run has its proofs, for its own plan; every run ends; reruns finish the batch unless a seller blocks it | `DoneIsProved`, `SummaryIsForItsPlan`, `RunsEnd`, `BatchCompletes` |
| Predicates | no log counts twice, in one role or in two | `NoLogCountedTwice` |
| | value moves forward in time | `TimeRunsForward` |
| | the incremental verification decides the rule it stands for | `LoopMatchesRule`, `PairMatchesRule` |
| | an accepted volume agrees with the accounting of the contracts | `ProvenWithinTotal`, `PairFinancedItself`, `LoopFinancedByFunder` |
| Planning | a plan it makes is one the predicate accepts, apart from named differences | `PlanIsAccepted` |
| | a plan proves all of its claim, its volume included, whichever run made it, and its evidence leads to the roots of claim and report, each membership its own | `PlansProveClaims` |
| | reruns can plan again what a checkpoint saved; reruns come to a snapshot | `SavedClaimReplans`, `SnapshotCompletes` |
| Bundles | an accepted snapshot is of one piece; its bundle is what one run without checkpoints drafts, and its plans are made from that bundle alone, with or without the balances | `LockedSnapshotIsWhole`, `LockIsReproducible` |
| Evidence host | evidence is of one block, whoever merges, publishes or reorganises; where the chain was not reorganised, the provider is not asked for what is cached | `EvidenceIsOfOneBlock`, `NothingIsAskedTwice` |
| Witness verification | a witness that would be reused is whole; reruns come to a summary | `CurrentWitnessIsWhole`, `RerunsFinish` |
| Block references | the chunks of a seller authenticate exactly its references, each at its place | `ChunksAuthenticateReferences` |

## 2. Modules

```
SellerProver <-- FrozenBatch   <-- MCFrozenBatch
  ^     ^          |   ^
  |     |          |   +-- FrozenBatchProofs -------+
  |     |          +..> PaidOnce  (refinement)      |
  |     +-- ApprovedBatch <-- MCApprovedBatch       |
  |               ^                                 |
  |               +---------- ApprovedBatchProofs --+
  +-- SellerProverProofs <--------------------------+

Evidence <-- ClosedLoop <--+-- SellerClaim <-- ClaimRules <-- MCSellerClaim
   ^                       |                      ^
   +------- Reciprocal <---+                      +-- ClaimRulesProofs --> FiniteSums
```

```
Evidence, ClosedLoop, Reciprocal .......(the guest's rules)........+
                                                                   v
ReturnPaths <-- ReportBundle <-- Planner <-- Snapshot <-- SnapshotRules <-- MCSnapshot
                                                              |    ^
    MerkleTree <----------------------------------------------+    +-- SnapshotProofs
      ^    ^                                                                 |
      |    +-- MerkleProofs --> FiniteSums                                   |
      |             ^  ^                                                     |
      |             |  +-----------------------------------------------------+
 BlockChunks        +-- MaterializationProofs
      ^                          v
      +-------------------- Materialization <-- MCMaterialization
                                 v
                           EvidenceCache
```

An arrow is EXTENDS, a dotted one `INSTANCE ... WITH`.

### SellerProver, FrozenBatch: paying for proofs from the frozen queue

`SellerProver` is one prover child in production mode, with the network it pays.  Its steps
are `LoadRequestCheckpoint`, `RequestGroth16`, `WriteRequestCheckpoint`, `WaitProof` and
`WriteArtifact`, and the ways it fails: refused, timed out, aborted, or with an answer lost
after the network accepted and charged the request.  Files replaced by a rename are one
variable each: `checkpoint` (`seller.request.json`) and `artifact` (`seller.json`).
`paid` counts the accepted requests of a seller; it lives at the network and no script
reads it.  An accepted request is either proved (`Fulfil`) or passes its deadline unproved (`Expire`; the
deadline is `.timeout(proof_timeout)`, `host/src/proving.rs:100`), and then nobody proves it any more.
Its checkpoint stays, so every later child waits for it again, and times out.

`FrozenBatch` adds the scripts.  A process of `Procs` is a terminal that runs one command at
a time: `run` and `refresh` of `submit-frozen-seller-batch.mjs`, and `submit` of
`submit-frozen-seller-canary.mjs`, which `run` also calls for each entry.  `pc` follows the
code from one file operation to the next, since those are the points where another process
or a kill can intervene; code between two file operations is one action, with its early
returns and the clean-up of its `finally` blocks.  What a script read earlier is kept in
`seen` (the batch quote), `mem` (its copy of the summary) and `resuming` (whether it found a
saved request), so that it can be out of date when used.  A kill may take the child along or
leave it running, and leaves locks as `Stale`.

Abstractions.  A quote is the number of the refresh that issued it; every quote below
`stale` has expired or has a base-fee ceiling the market has passed.  The balance is the number
of requests it still affords.  `prepare` is the initial state.  `preflight` and the
price queries change nothing.  Quote history files are written and never read back, so they
are left out.  The operator does what the error messages of the scripts ask for: looks at a
lock whose process is gone and deletes it, when no child of that seller is alive, and
reconciles a started submission without a saved request with the requester's history, when
nothing is in flight.  A wrong reconciliation can make the queue pay twice, and no
script can prevent it; `AtMostOnePaidRequest` is relative to that instruction.  He never deletes a
checkpoint, which `docs/development-replay.md:162-163` forbids.

`PaidOnce` says what paid proving promises whoever drives it: charge a seller once, then
produce its proof.  `FrozenBatch` implements it under `spent <- paid`,
`proved[s] <- artifact[s] # NoArtifact`.

### ApprovedBatch: the older concurrent runner

`prove-approved-batch.mjs` started by `run-production-proofs-safe.sh`.  A run pins its
configuration (`config`), verifies every seller of its scope natively with the workers of
`mapWithConcurrency`, and only when all pass lets the workers reuse artifacts or start
children.  A worker is a slot in `crew`; its steps are `VerifyNext`, `VerifyReturns`,
`ProveNext`, `ReuseProof`, `StartProver`, `ProverReturns` and `WorkerEnds`.  A worker that
throws rejects the run while the others go on to their next `await`, as `Promise.all` does.
`asked[s]` remembers for which plan each paid request was made: the public values a
checkpoint is compared with depend on it.

Abstractions.  A plan stands for all that the configuration pins except the quote digest.
The artifact's hash is recorded when the worker finishes with it.  One run is
active at a time, which is how the launcher is used.

### Evidence, ClosedLoop, Reciprocal, SellerClaim: what a proof means

`history` is a stretch of authenticated logs in chain order with the storage values the
predicates read, `claim` what is to be proved, and the evidence lists grow one piece at a
time in the order in which the code consumes them.  `phase` says which loop of the code is
running; each action is the body of that loop, accepting the piece and updating the sums, or
rejecting the claim; each check between two loops is an action.  So the lists
a behaviour builds are all lists of evidence over the history, up to the bounds,
and the verdict follows from the running state as it does in the code: `used`,
`fundedBy`, `settledBy`, `fundTotal`, `settledTotal`, `firstFunded`, `firstSettled` and the
bottleneck of the return path under way.  `VerifySeller` ends a claim as
`verify_seller` does, for the target seller, its staked agent and its volume.

Abstractions.  Logs are those of authenticated, successful receipts; a reference out of range
or a log that does not decode rejects the claim in the code and is not offered here.  A block's
number stands for its timestamp.  `AmountMax` stands for the largest `u128`.
Addresses are small numbers with 0 the zero address; lists of addresses that the code
requires to be strictly increasing are sets.  The check of 9000 basis points coverage
is implied by the stricter ledger of each buyer and has no action of its own.  A
history also holds opening balances, which no predicate reads: only the accounting
properties do.

`ClaimRules` states the same rules declaratively, over whole lists with sums over sets, and
the accounting of the contracts; `MCSellerClaim` gives the histories and claims.

### ReturnPaths, ReportBundle, Planner, MerkleTree, Snapshot: what is to be proved

`ReportBundle` is the draft of `build-unified-historical-bundle.mjs`: for each approved case one
claim with the evidence the scan has for it.  `ReturnPaths` is `return-path-selection.mjs`:
the greedy choice of disjoint return paths and the discovery of relayed ones in the traces.
`Planner` is the choice `proof-planner.mjs` makes from a claim: what a dependency resolves to,
eligible settlements, the selection within return capacity and within each buyer's ledger,
the fundings that are kept, the closure.  `MerkleTree` has the levels of a tree, its root and
the membership paths of a plan; `BlockChunks` builds its trees with it.

`Snapshot` is the process: `BuildBundle` (a child), `ReadBundle`, `FinalizeClaim` or
`ResumeClaim` for each closed loop, `WriteBundle`, `MakePlan` or `ResumePlan` for each claim by
concurrent workers, `PlanEnds`, `Validate`, `WriteLock`.  Its files are variables; the
checkpoints are sets of records of source, policy and result.  A kill tears the file being written and
may leave the bundle builder running, which then writes its draft over whatever is there
(`OrphanWrites`).  `SnapshotRules` instantiates the modules of the predicate for every plan
(`Guest(p)`): plan and predicate are compared through the same histories.

Abstractions.  A digest is the contents of the file, a claim's identifier the claim, a root the set below
it.  The ledger balances are those of the history.  Workers share no file, so planning
and saving a claim is one step.  Where the code orders by hash, any fixed order is taken.
`policy` is `ALPHA_RETURN_BPS`, the ratio of the predicate that
the planner also reads.  A provider that does not find a receipt, or answers with an error, drops the
evidence (`Losses`); the smaller claim is checkpointed like any other.

What the model shows of the code and is easy to miss: a return in the block of the first selected
settlement is planned although the predicate wants it later, and a deposit the funder has not signed, or
one before the period, is planned too (`Differs` names these; the guest rejects them);
reciprocal plans are not checked against the ledgers of the pair; a known path whose hops
have no log index takes any log of that shape, and two such hops of one transaction share a
key; discovery may take a relay's payment to itself as a second hop; a case whose finalized
claim cannot be planned makes every run fail.

### EvidenceCache, BlockChunks, Materialization: from plan to verified sellers

`EvidenceCache` is `block_evidence_many` of `host/src/rpc.rs` for several processes at once.
Each process (`phase`, `index`, `next`, `results`) has threads (`thread`), which take targets from a
counter (`TakeTarget`), merge entries of the same block that were in the directory when the process began
(`MergeCached`), else ask for header, receipts and transactions in separate calls
(`FetchHeader`, `FetchReceipts`, `FetchTransactions`), and rename the result into place
(`Publish`).  The endpoints may serve two forks for a while, so that two calls are answered from
different ones; a proof carries the version of the block under whose root it verifies.

`BlockChunks` are the chunks of a seller's block references, their root and paths and the check
of a chunk, on the levels of `MerkleTree`, from `predicate/src/seller.rs` 393-512 and `generate-block-authentication-chunks.mjs`.

`Materialization` composes them with the script.  `Launch` looks at every claim's witness;
workers `Spawn` a materializer, which fetches, builds its input (`BuildInput`), and writes the witness in
place (`TruncateWitness`, `WriteWitness`); the worker then looks at the file and writes
metadata (`StatWitness`, `WriteMetadata`); `Recheck`, `VerifySeller` and `WriteSummary`
follow.  `mark` and `asMarked` are the metadata: the materializer it names, and whether the
file still has the recorded size and time.  `Kill` ends the script and its children and cuts files that are being
written, `ChangeSource` makes the next launch build another materializer.

Abstractions.  The temporary file of a cache entry is seen by nobody, so publishing is one step; loading an
entry and taking a target is one step, since entries are only ever replaced by complete ones.
Verification of a seller is one step, which compares the provider's header with the period end of the
witness: the boundary of `TotalVolume` is reduced to it.  A transaction is in both versions of a
block.  A kill takes children along, as an interrupt from a terminal does: a child that outlived it could
rewrite a witness later.

`NothingIsAskedTwice` is about blocks that no fork has changed.  Of the others the cache can promise
less than its entries suggest: those of two forks are not merged, and an entry may be read in one version
and then replaced in the other by a process that asked before, so that what is in the directory is all of one fork and
yet was not what the reader saw.  That takes three processes, one more than the run has; the proof for
any number of them found it.

What the model shows of the code: native verification compares only the period end with the
chain.  Evidence of any other block that was orphaned after it was cached is merged, materialised and
verified again and again; it is noticed when the block is authenticated
(`docs/development-replay.md:127`).  An orphaned period end in the cache stops every
later run until the entry is deleted, which is why `RerunsFinish` excludes it.  Metadata names
claim, period, build, size and time, not the selection of the plan.
`countClaimMaterializationBlocks` of the script does not count the blocks of `hops`.

## 3. What the runs check

| Run | Configuration | Question | Result |
|---|---|---|---|
| `frozen_safety` | FrozenBatchSafety | two terminals, every command, kill, fault and refresh anywhere: is money safe? | holds |
| `frozen_liveness` | FrozenBatchLiveness | without kills, does every command end, and does the queue get complete unless a seller blocks it? | holds |
| `frozen_crash` | FrozenBatchCrash | do the files left by a kill let the launcher resume? | violated |
| `approved_safety` | ApprovedBatchSafety | concurrent workers, two plans, kill and fault | holds |
| `approved_liveness` | ApprovedBatchLiveness | does every run end, and do reruns finish the batch unless a seller blocks it? | holds |
| `approved_interrupted` | ApprovedBatchInterrupted | is an interrupted run resumed without a second payment? | violated |
| `approved_replaced` | ApprovedBatchReplaced | are the proofs of a summary made for its plan? | violated |
| `seller_claim` | SellerClaim | verdict against rule and accounting | holds |
| `seller_claim_opening` | SellerClaimOpening | does only in-period funding finance settlements? | violated |
| `snapshot` | Snapshot | drafts, plans, checkpoints and lock over fourteen histories, with a kill, a provider fault and a change of policy anywhere | holds |
| `snapshot_resumed` | SnapshotResumed | does a resumed plan keep within the ledgers? | violated |
| `materialization` | Materialization | two materializers on one cache, with reorganisation, faults, kills and rebuilds | holds |

### Bounds

*Frozen queue, safety* (`frozen_safety`, `frozen_crash`): two sellers, so that one is recorded while another
is in flight and order matters; two terminals, the least that race; one seller that is also submitted with the
canary script; one refresh, one kill and one fault, at any point; two artifact digests, so
that a rewritten artifact can be told from the recorded one.  `frozen_safety` has 3.7 million states up to
an exchange of the terminals.  Two kills in a row are covered by
the proofs, which have no bound.  `CHECK_DEADLOCK FALSE`: the queue
really stops when it is complete and when nothing is left that a script or an operator has to do.

*Frozen queue, liveness* (`frozen_liveness`): two sellers, of which seller 1 is also submitted with the canary script; two
artifact digests, so that such a submission can rewrite the artifact of a recorded seller; one refresh, so that the first
quote may go stale; two faults, each a lost answer, a failed child, a failed input or a request that
expires; no kill; and one terminal, so commands do not overlap (81 thousand states).
Overlapping commands are left to `frozen_safety`: with a second terminal, one fault instead of two already takes liveness
checking beyond a few minutes.  Nothing in a script waits for another one: a lock that is taken ends it.
A kill can leave files that no command accepts again (`frozen_crash`), so that nothing is claimed after one.

*Approved batch, safety* (`approved_safety`): two sellers, two worker slots, two plans, one kill and one fault; any set
of unfit sellers for each plan; runs of all sellers, and none of a canary seller only (6.1 million states up to an
exchange of the slots).  The two violation runs use one worker and only what their
question needs.

*Approved batch, liveness* (`approved_liveness`): the same sellers, slots and plans and one fault, which may be a lost answer, an expired
request, a failed child or read; no kill, which is left to `approved_safety` (520 thousand states; with a kill more than
16 million).  So a checkpoint and an artifact of another plan, a rejected run whose other workers go on, and an empty balance
all occur before the plan that the operator settles on.

*Claims*: six addresses (zero, Deposits, funder, seller, buyer, and one that is a relay, a second
buyer or an outsider), a period of blocks 2 to 8 with a log after it, three hops, two return
paths, two fundings and two settlements, which are enough for any log to be offered twice in
one role and in two roles, for a sum of two amounts to pass `AmountMax` and for a hop or a path to
come late.  Histories lie at both sides of each threshold: hop amounts 14/15 and 4/3, end
balances that meet or miss the ledger by one, sales that meet or miss reciprocity, a transfer at the
end of the period and after it.  Every history is one the contracts can produce: end
balances are computed from opening balance, deposits, settlements and withdrawals.  `Done` lets
a decided claim stutter, so deadlock stays checked for undecided ones.

*Snapshot*: fourteen histories, each with one to three cases, made for one decision each: a deposit and
its settlement in one block, known and discovered returns of two and three hops that share
a transfer, two buyers beyond their capacity, a settlement that does not fit before and after a
return, exact coverage, ambiguous logs, a deposit that is early or signed by another, a self-funded
seller beside a pair and a loop, a case the scan does not bear out.  Two policies (3000 and 5000 basis points)
separate claims that qualify under one only.  One kill, one provider fault, one change of policy
(`MaxKills`, `MaxFaults`, `MaxChanges`), at any point; two planning workers.  A report
has up to three claims and a claim up to seven dependencies, so levels of Merkle trees have an odd last node.
`AmountMax` is above every sum: overflow is the business of `seller_claim`.

*Materialization*: two claims with two children at once; blocks 1 to 3, of which 2 and 3 differ between the
forks; a target of two receipts and a transaction, which two older entries cover in part and
one claim's target covers for the other; one thread per child, the script's default for
`LOOP_RPC_CONCURRENCY`; chunks of one reference, so that a seller has two or three of them and the
tree an odd leaf.  Kills, faults and rebuilds have no bound; there are two builds, and the endpoints go
from the first fork through both to the second.

### Fairness

`FrozenBatch!FairSpec` and `ApprovedBatch!FairSpec` are weakly fair to each script and each
child, since an operating system runs its processes, and to the end of each accepted
request, by its proof or its deadline (`RequestFulfilled(s) \/ RequestExpires(s)`).  They are not fair to its fulfilment, which
nobody promises: a request may expire, and expiring is one of the faults that `MaxFaults` counts.
Nothing is fair to kills, faults, stale quotes or, in `FairSpec`, to the operator.  `CommandsEnd`
and `RunsEnd` need no more: a child's wait ends with the proof or with its own timeout.

Completion needs someone to rerun the launcher, and says so in its
own antecedent.  `OperatorServes` of `FrozenBatch` says that in the end commands do not overlap and that `run` and `refresh`
are started again and again when they can be (strong fairness: other
commands make them unavailable), the account is topped up and started submissions are reconciled.
That of `ApprovedBatch` says that in the end one fit plan is launched, for all its sellers, first without
confirmation and then with it, whenever no run is active, and the account is topped up.

Even then the code does not always finish, and the properties say exactly when it may not.  `Blocks(s)` of `FrozenBatch` is
a saved request that has expired, which every run waits for again, or a recorded artifact that a canary submission has
rewritten: `verifyCompleted` compares its digest (`submit-frozen-seller-batch.mjs:227`) and throws in every run.  `QueueCompletes`
promises a record of every seller that no blocked one is before, and a complete queue if none is blocked.
`Blocks(s, pl)` of `ApprovedBatch` is an artifact of another plan, a saved request of another plan, which every child
refuses, or a saved request that has expired; unless there is one, `BatchCompletes` promises that the
plan is done again and again.  No command of the scripts gets past a blocked seller; `docs/development-replay.md:162-163` forbids
deleting checkpoints to force a retry.

`Snapshot!FairSpec`: a run goes on (`RunGoesOn`, which says that a started run takes steps until it ends),
an orphan comes to its write, the operator starts the script again (weak fairness) and
deletes a checkpoint that is not JSON (strong fairness: runs come between), as the error it causes asks for.
The policy does not change while an orphan of an older run is building.
`Materialization!FairSpec`: running processes go on and the script is started again.  `RerunsFinish` says in its
antecedent that from some time on nothing fails, is killed or rebuilt and no orphaned
period end is kept; `upset` records whether the last step was one of these.

### Disagreements found

1. `LauncherCanResume` (`scripts/submit-frozen-seller-batch.mjs:162`).  `refresh` renames the
   new batch quote into place and then the new summary.  A kill in between leaves a
   summary for the old digest, which `run` and `refresh` both reject, although
   `docs/development-replay.md:155` says to rerun the same launcher.
2. `ResumesAfterInterruption` (`host/src/bin/wash-trading-prove-seller.rs:278`).  The approved batch
   writes no marker before it starts a child; killed after the request is accepted and
   before its checkpoint is written, it pays again, against `README.md:249`.
3. `SummaryIsForItsPlan` (`scripts/prove-approved-batch.mjs:120`).  `--preflight-only` may replace the
   configuration of a paid run, and the confirmed run after it reuses artifacts made for the
   replaced plan.
4. `OnlyFundingFinances` (`predicate/src/closed_loop.rs:294`).  The ledger counts a direct transfer to
   the buyer's wallet as funding, so a buyer that keeps it there and settles its old balance
   passes, against the comment at lines 269-271.  `LoopFinancedByFunder` states what does hold.
5. `PlanWithinLedger` (`scripts/proof-planner.mjs:746`).  A claim found in a finalization checkpoint is
   planned without the period-end balances, so a rerun plans what the first run refused: with a deposit and
   the settlement it pays for in one block, fundings of 10 are kept for settlements of 11, against
   `README.md:29` and the test of the ledger-aware selector; the guest rejects the seller.

## 4. What is proved

| Theorem | Module | States |
|---|---|---|
| `TypeCorrect` | FrozenBatchProofs | `Spec => []TypeOK` |
| `TrailKept` | FrozenBatchProofs | `Spec => []PaymentTrail` |
| `NoSecondPayment` | FrozenBatchProofs | `Spec => []AtMostOnePaidRequest` |
| `OneChild` | FrozenBatchProofs | `Spec => []OneChildPerSeller` |
| `ImplementsPaidOnce` | FrozenBatchProofs | the refinement of `PaidOnce` |
| `RecordedProved` | FrozenBatchProofs | `Spec => []RecordedIsProved` |
| `PaysInOrder` | FrozenBatchProofs | `Spec => []PaysInOrderUnderCurrentQuote` |
| `LauncherResumes` | FrozenBatchProofs | `Spec => []ResumableUnlessKilled`: `LauncherCanResume` while `crashes = 0` |
| `ResultsKept` | FrozenBatchProofs | `Spec => ResultsAreKept`, an action property |
| `ApprovedTypeCorrect` | ApprovedBatchProofs | `Spec => []TypeOK` |
| `PreflightGuards` | ApprovedBatchProofs | `Spec => []PreflightGuardsPayments` |
| `PreflightReports` | ApprovedBatchProofs | `Spec => []PreflightReportsAll` |
| `PaymentsExplained` | ApprovedBatchProofs | `Spec => []PaymentsAreExplained` |
| `ResumesOwn` | ApprovedBatchProofs | `Spec => []ResumesOwnPlan` |
| `DoneProved` | ApprovedBatchProofs | `Spec => []DoneIsProved` |
| `ClaimTypes` | ClaimRulesProofs | `Spec => []TypeOK`: no running sum passes `AmountMax` |
| `LogsCountOnce` | ClaimRulesProofs | `Spec => []NoLogCountedTwice` |
| `EvidenceInOrder` | ClaimRulesProofs | `Spec => []TimeRunsForward` |
| `RulesInvariant` | ClaimRulesProofs | `Spec => []RulesInv`: the running state is a function of the evidence listed |
| `LoopRule` | ClaimRulesProofs | `Spec => []LoopMatchesRule` |
| `PairRule` | ClaimRulesProofs | `Spec => []PairMatchesRule` |
| `WithinCounter` | ClaimRulesProofs | `CountersAddUp` gives `Spec => []ProvenWithinTotal` |
| `PairAccounts` | ClaimRulesProofs | `Spec => []PairFinancedItself` |
| `LoopAccounts` | ClaimRulesProofs | `Spec => []LoopFinancedByFunder` |
| `SnapshotIsWhole` | SnapshotProofs | `Spec => []LockedSnapshotIsWhole` |
| `SnapshotIsReproducible` | SnapshotProofs | `Spec => []LockIsReproducible` |
| `SnapshotTypes` | SnapshotProofs | `Spec => []TypeOK` |
| `SavedClaimsReplan` | SnapshotProofs | `Spec => []SavedClaimReplans` |
| `PlansLeadToRoot` | SnapshotProofs | `Spec => []MembershipsLeadToRoot`, a part of `PlansProveClaims` |
| `PlansProveAll` | SnapshotProofs | `Spec => []PlansProveClaims` |
| `EvidenceNeverMixed` | MaterializationProofs | `Spec => []EvidenceIsOfOneBlock` |
| `ReusedIsWhole` | MaterializationProofs | `Spec => []CurrentWitnessIsWhole` |
| `NotAskedTwice` | MaterializationProofs | `Spec => NothingIsAskedTwice`, an action property |
| `MaterializationTypes` | MaterializationProofs | `Spec => []TypeOK` |
| `OnlyItsChunks` | MaterializationProofs | `Spec => []ChunksAuthenticateReferences` |

*Frozen queue.*  The theorems hold for any number of sellers, terminals, kills, faults and
refreshes, from the assumptions on the constants alone.  "Paid at most once" is not inductive:
whether a child about to request may do so depends on the lock it was started under, the marker
written before it, and the fact that nobody else can be past that lock.  `PaymentTrail` says that, in
three parts: `LocksAreOwned` (a script past the lock owns it; a live child belongs to such a
script or has outlived it behind a stale lock; two live children have different sellers),
`PaymentsAreTraced` (a payment leaves a marker, a saved request was paid for, a script that
resumes has a saved request) and `ChildrenPayOnce` (what each state of a child says of the
files of its seller).  The invariant is `TypeOK /\ PaymentTrail /\ AtMostOnePaidRequest`,
with a lemma for each group of actions.  The refinement follows from it: a request is accepted
only when `paid` is 0, and an artifact is written only for a paid request.

What the summary says needs `QueueInv` on top of it.  `FilesProved` says of the files that what they call proved has
a fulfilled request behind it, and `ProvenStay` that no step undoes that; `ChildProves` and
`ScriptHolds` follow a proof from the child that writes it to the script that records it.
`HoldsBatchLock` and `IsCurrent` are what `batch.lock` is for: from reading quote and summary to writing them back a
script is alone, so that its copies are what is on disk, and writing one back
loses nothing (`ResultsStep`).  `SummaryFollowsQuote` names the one place where the quote is ahead of the summary:
a refresh between its two renames.  It holds until the first kill, hence the condition of
`LauncherResumes`; `frozen_crash` shows that the condition is needed.

*Approved batch.*  The theorems hold for any sellers, plans, kills, faults and a finite set of processes.  `BatchInv` says
that workers are at different sellers that are no longer queued (`RunHolds`), that nothing is
proved before the last verdict (`PreflightHolds`), that what left the queue is proved or in some
worker's hands (`ProvingHolds`), that a child belongs to a worker or has outlived its run, and then holds a
request of its own plan (`ChildHolds`), and that requests were made for plans that had passed (`RecordsHold`).
`PaymentsAreExplained` bounds a counter and needs the counting argument `Accounted`: payments made, the one that the run
may still make (`Open`), and those of orphans that are still to come (`Payers`) are together at most one
more than the kills and faults.  A kill turns the run's payment into an orphan's and opens the
seller for the next run: both sides grow by one.

*Claims.*  The theorems hold for every set of histories and claims of the right type and all
bounds.  `NoLogCountedTwice` is about the lists, and the code looks at its set of used logs,
so the invariant `ClaimInv` adds `EvidenceUsed` (every listed log is in the
set).  `TimeRunsForward` needs `FirstTimes` (the earliest times kept are times of listed
evidence), and the bound on sums needs `SumsBounded` (a buyer's sum is at most the total,
which is the one the code checks).  One lemma treats each kind of evidence that counts
(`FundingCounts`, `SettlementCounts`, `HopCounted`, `PathCounted`); a check without evidence and a rejection
preserve the invariant for plain reasons (`CheckKeeps`, `RejectKeeps`).

*Rules and accounts.*  `LoopMatchesRule` and `PairMatchesRule` say that the loops over evidence, which keep sums, sets and
earliest times, end with the verdict of a rule stated over the finished lists.  `RulesInv` holds at every step between:
each running sum is the sum over the evidence listed so far, the used logs are those listed
(`RulesSoFar`), and what an address was given is what reached its wallet and what was deposited for it (`FundingsSplit`).  An element that counts
extends the list and the running state alike.  The accounting theorems compare these sums with the contracts' own: a sum
over some logs is at most that over more of them, and a counter in the history is a sum over its
logs.  `SumFunction` is a recursive function over finite sets, and the induction it needs is in `FiniteSums`: a statement
that fails for some subset fails for one with the fewest elements (`Smallest`, from the
library's `WFMin`, which takes a set where the induction theorems take an operator), and taking an element from that
one gives a contradiction.  From the same lemma follow that a sum does not depend on the order, that it
is split by a partition and grows with its domain.
`OpeningAssumption` says that opening balances are numbers.  `CountersAddUp`, a hypothesis of `WithinCounter`, says
that the counter `totalVolumeUsdc` of a seller is the sum of its settlements, which is what the contract does;
TLC evaluates it on the histories of `seller_claim`.

*Snapshot.*  The theorems hold for every set of histories and policies, any number of workers, kills, faults and
changes.  `SnapshotAssumption` gives the types: logs are records of numbers, the analysis names finitely many
cases and known paths, the latter as places in the list of logs, a loop's buyers are finitely many and each has a balance,
policies and `MaxReturns` are positive.  What an accepted lock says is about files, each of which may come from another run, be torn, or
be overwritten by an orphan.  The invariant `WholeInv` says of each what whoever wrote it left: plans in
memory have the root and policy of the run (`PlansOfRun`), a saved plan is torn or carries its own policy
(`SavedPlans`), the plan file is absent, torn or of one root and policy with as many plans as its root
has claims (`WrittenPlan`), and a lock's root has as many claims as there are cases
(`WrittenLock`).  One lemma per part, each with a case for the actions that write it.

`LockIsReproducible` compares with a run that never happened, the one without checkpoints.  Of the bundle it says that it is
the one which that run writes.  Of each plan it says that the planner makes it of a claim of that bundle, with
the period-end balances or, if the claim was resumed, without them.  It does not say that the run without checkpoints makes the same plans:
that run always has the balances, and may plan less with them, or throw and lock nothing, where a resumed claim is
planned (`PlanWithinLedger`, and its history of `snapshot_resumed`).  `ReproInv` says that
as long as no fault has dropped evidence, files and memory hold what that run computes:
a saved claim is what its draft is finalized to under the policy it was saved for (`SavedClaims`), the draft file and those that orphans
will still write are the draft of the policy (`DraftsAgree`), memory holds the final form of the claims
that are done (`Finalizing`), and bundle and plan file have the root of the fresh bundle (`FreshFiles`).  It rests on
a claim being finalized in one way only and on everything computed from the history staying
the same as long as the history does, which takes a lemma for each operator in between.  For the plans, `FreshMade`, its last part, says
that every plan in memory, in a checkpoint or in the plan file is one that the planner makes of a claim of its root under its
own policy and its own choice of balances.

`SavedClaimsReplan` is about the planner's two greedy passes, the selection within capacity and ledgers and
the choice of return paths, which are folds over an order of the evidence.  `MadeInv` says what files and memory are made of,
whoever wrote them: claims of two shapes with evidence of the chain
(`IsLoop`, `IsPair`, `BundlesMade`, `MemoryMade`), a saved claim that can be planned again (`ClaimSavesMade`), a saved
plan that is for its claim and within it (`PlanSavesMade`), and the run's own counters (`Bounded`).
It is inductive because of `FinalOfLoop`, which collects what finalizing leaves whatever it was given: every settlement
kept has an earlier funding of its buyer and every funding kept has a later settlement, the returns are valid,
disjoint, at most `MaxReturns`, occur after the settlements they close, are located again, and cover the
volume.  Then the second planning has nothing left to choose: all settlements are eligible, their sum is
within the capacity that the returns give, the
returns are chosen again until they suffice, and they suffice only together.  That the greedy choice
reaches the required volume where the whole set does is shown by induction over the order of evidence, for which `FiniteSums` has
the solutions of folds and sets (`FoldsExist`, `SetInduct`), by the same smallest counterexample as above.
`TypeOK` follows from the same invariant.

`PlansProveAll` needs of a final claim only that it is `Reduced`: its volume is that of its settlements, all
eligible, and none of its fundings is dropped when they are selected.  The plan of such a claim may not choose its
volume, and a selection that has the amount of the whole and every settlement of no amount (`Keeps`) is the whole
(`KeepsAll`).  So the second planning, ledgers or not, proves all of the claim.  With the ledgers, each buyer's
settlements have passed the first turn of `WithinLedger` unreduced (`LedgerKeeps`), hence are within the capacity that the
fundings before the latest of them leave, and `LedgerCovers` turns that capacity into the rule of 105 %.  The returns
chosen are `Disjoint`, few enough, and reach the required return (`ChosenPart`), which rounds up, so they cover the volume
(`RequiredCovers`).  A saved plan keeps this under the policy and the balances it was made with, which it names.

*Trees.*  `MerkleProofs` is about any list of leaves, of any length.  The recursions of `MerkleTree` have one solution
each (`LevelsAgree`, `PlacesAgree`, `ClimbIs`); a list of n leaves has a height, above which one node is left
(`HeightIs`); a leaf's place in a level is within it (`PlaceInLevel`), and hashing a node with what is beside it gives
the node above (`UpFromPlace`).  So a path leads up from its leaf (`PathLeadsUp`).  That it leads up from no
other (`OnlyLeavesLeadUp`) goes downwards: a node is hashed of one pair of children only
(`DownFromPlace`), so that whoever reaches the root along a path of that height and those sides started at that leaf.
`PlansLeadToRoot` applies this to the trees of a report and of its claims, whose sizes are numbers
because `MadeInv` keeps their evidence finite, and `OnlyItsChunks` to the chunks of a seller.

*Materialization.*  The theorems hold for any finite set of claims, any targets, cached entries, threads and builds,
from the types of targets, at least one thread and one worker, a positive chunk size (`ChunkSizeAssumption`),
file contents that differ from "no file" and "cut short", and
`OrderAssumption`: a claim has a target, since its period end is one, and its targets are ordered by block, since the
code keeps them in a map ordered by number.
That an entry is of one block depends on every place evidence passes through.  The invariant `EvidenceInv`
follows it: entries, those a process has listed among them, are whole (`CacheHolds`); a thread at
work has a part of one version (`ThreadsHold`); a target whose turn has come is done or in some
thread's hands, so that all results are whole when the threads are over (`ClaimHolds`); and a whole witness
is made of them (`WitnessHolds`).  `MergedIsPart` and `CompleteIsWhole` are the facts about merging
on which it rests.  For metadata `MarksHold` adds that a file the script has looked at, or that metadata
describes, is whole, and that a file being written is neither: then a kill cuts nothing that is
described.

`NothingIsAskedTwice` needs `ReadInv`: entries of a block that no fork has changed are of its only version
(`EntriesFirst`), and of such a block a thread that merges holds all that the entries it has read hold (`ThreadHolds`), so that one
that asks has read all of them.  For `TypeOK`, `PoolInv` counts the pool: a claim whose child is
alive is some worker's (`Handled`), and the claims in hands are no more than the workers (`CrewOK`).

`OnlyItsChunks` needs that a seller is verified only while its witness is current (`VerifiedHold`), hence whole: then the
references of its artifact are those of its targets, in order and not empty.  Cutting them into chunks and
putting the chunks together again gives the same list (by induction over the chunks, `Flattens`), no chunk is empty or too large, and
each leaf is led to the root by its path.  A chunk that is offered at another place, or with other references, is
another leaf, because the place is hashed with the references.

*Only model-checked.*  Liveness, which is out of the prover's reach: `CommandsEnd`, `QueueCompletes`, `RunsEnd`,
`BatchCompletes`, `SnapshotCompletes` and `RerunsFinish`.  Of the safety properties, `PlanIsAccepted`: it states a plan
in the words of the predicate, through the instance `Guest(p)` of `ClaimRules` with a parameter, and
tlapm leaves what the instance takes from the libraries (`Cardinality`, `Len`, `SumFunction`, `SetToSeq`) without a definition
and without the theorems about it.  It also holds only of histories that the chain can
have (at most 256 buyers, no zero address, sums below the largest `u128`, settlements of more than nothing), which the assumptions
on `Histories` do not say.  The planner's own side of it is proved: `FinalOfLoop` of a final claim and `PlansProveClaims` of every plan, which has
the rules of the predicate on coverage, disjointness, order and ledgers in the planner's words.
The properties of the violation runs are those that the code does not have.

## 5. Not modelled

Merkle-Patricia proofs, RLP and ABI decoding, digests and claim identifiers are data conversions
without state; their result is an input of the predicates.  Network pricing is read-only and
reduced to the balance and the staleness of quotes.  Case construction, publication (but for the chunks file),
reports and guest builds keep no state between steps.  The execute-only and development modes of the prover
executable write no paid state.

Of planning: native fundings, which the planner drops, and `TOTAL_SETTLEMENT`, which the builder never makes;
`maximizeVolume` and the offline searches over an expanded graph; `merge-proof-plans.mjs`; the discovery
and candidate bundles.  The builder makes one claim per case, and the wallets of a pair are taken in the
order in which the analysis lists them.

Of the evidence host: the one-claim tool `main.rs` with its log queries, and the return expander, whose
output no later step of the snapshot reads.  How often a call is retried is not counted: it succeeds or fails.

The replay and preparation pools over sellers in development mode
(`replay-seller-development.mjs`, `prepare-seller-proving.mjs`,
`prove-approved-historical-development.mjs`) pay nothing and are rerun as a whole.

## 6. Plan

1. `ApprovedBatch` with two runs at once, which share the configuration and the artifacts.
2. `ReplayPool`: workers of `scripts/replay-seller-development.mjs` 104-160 and their serialised
   persistence.
3. Greedy choice of disjoint return paths (`SelectReturns`) against all choices: how far it stays below the best.
4. `Materialization` with a child that outlives a kill.

Theorems: from `PlansProveClaims` to the rules of `ClaimRules`, once the rules are operators of their evidence that need no
instance with a parameter.
