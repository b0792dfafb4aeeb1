------------------------------ MODULE FrozenBatch -------------------------------
(***************************************************************************)
(* The paid production queue: scripts/submit-frozen-seller-batch.mjs (run, *)
(* refresh) and scripts/submit-frozen-seller-canary.mjs (submit), with the *)
(* prover child they start (SellerProver).                                 *)
(*                                                                         *)
(* Each process of Procs is one invocation of a script at a time.  They    *)
(* share only files: the batch quote, batch.lock, summary.json and, per    *)
(* seller, execution.lock, submission-started.json, seller.request.json    *)
(* and seller.json.  Any of them may be killed between two file            *)
(* operations, leaving its locks behind and perhaps its child alive.       *)
(*                                                                         *)
(* A quote is known by its generation: the number of the refresh that      *)
(* issued it, 0 for prepare.  A quote is stale when it has expired or the  *)
(* live base fee has passed its ceiling; a later generation is not.        *)
(***************************************************************************)
EXTENDS SellerProver

CONSTANTS
  None,          \* no lock file
  Stale,         \* a lock file whose process is gone
  Canaries,      \* sellers the operator may also submit with the canary script
  MaxRefreshes,  \* bound: refreshes of the batch quote
  MaxCrashes,    \* bound: kills of a script
  MaxFaults      \* bound: failures of a child, of the network or of an input

ASSUME BatchAssumption ==
  /\ None \notin Procs
  /\ Stale \notin Procs
  /\ None # Stale
  /\ Canaries \subseteq Sellers
  /\ MaxRefreshes \in Nat
  /\ MaxCrashes \in Nat
  /\ MaxFaults \in Nat

VARIABLES
  batch,       \* batch-quote.json: its generation and that of each entry's quote
  batchLock,   \* batch.lock
  summary,     \* summary.json: the batch generation it is for, status and results
  started,     \* [Sellers -> BOOLEAN]: submission-started.json exists
  execLock,    \* [Sellers -> ...]: execution.lock
  stale,       \* quotes of a generation below this one are no longer acceptable
  crashes, faults,
  pc,          \* [Procs -> ...]: next operation of the process
  kind,        \* [Procs -> ...]: the command it runs, or last ran
  pos,         \* [Procs -> 1 .. N + 1]: the entry it is at
  seen,        \* [Procs -> ...]: the batch quote it read and had approved
  mem,         \* [Procs -> ...]: its in-memory copy of the summary
  resuming,    \* [Procs -> SUBSET Sellers]: those it found a saved request for
  outcome,     \* [Procs -> ...]: how its last seller submission ended
  digest       \* [Procs -> ...]: the artifact digest that submission returned

fileVars == <<batch, batchLock, summary, started, execLock>>
procVars == <<pc, kind, pos, seen, mem, resuming, outcome, digest>>
envVars  == <<stale, crashes, faults>>
scriptVars == <<fileVars, procVars, envVars>>
vars == <<proverVars, fileVars, procVars, envVars>>

Kinds == {"run", "refresh", "submit"}
Statuses == {"absent", "running", "paused-insufficient-funds", "needs-attention",
             "awaiting-approval", "complete"}
Quotes == [gen : Nat, quoted : [Sellers -> Nat]]
Summaries == [gen : Nat, status : Statuses, results : [Sellers -> Digests \cup {0}]]
NoSummary == [gen |-> 0, status |-> "absent", results |-> [s \in Sellers |-> 0]]
SubmitSteps == {"check", "afford", "lock", "mark", "prove", "release"}
Steps == {"idle", "batch.lock", "run.load", "run.next", "run.record", "unlock",
          "refresh.load", "refresh.lock", "refresh.entry", "refresh.state"} \cup SubmitSteps

FilesTypeOK ==
  /\ batch \in Quotes
  /\ batchLock \in Procs \cup {None, Stale}
  /\ summary \in Summaries
  /\ started \in [Sellers -> BOOLEAN]
  /\ execLock \in [Sellers -> Procs \cup {None, Stale}]

ScriptsTypeOK ==
  /\ pc \in [Procs -> Steps]
  /\ kind \in [Procs -> Kinds]
  /\ pos \in [Procs -> 1 .. N + 1]
  /\ seen \in [Procs -> Quotes]
  /\ mem \in [Procs -> Summaries]
  /\ resuming \in [Procs -> SUBSET Sellers]
  /\ outcome \in [Procs -> {"none", "ok", "funds", "error"}]
  /\ digest \in [Procs -> Digests \cup {0}]

\* A script that works on an entry is at an entry of the batch.
AtAnEntry ==
  \A p \in Procs : pc[p] \in SubmitSteps \cup {"run.record", "refresh.entry"} =>
    pos[p] \in Sellers

TypeOK ==
  /\ ProverTypeOK /\ FilesTypeOK /\ ScriptsTypeOK
  /\ stale \in Nat /\ crashes \in Nat /\ faults \in Nat
  /\ AtAnEntry

FirstQuote == [gen |-> 0, quoted |-> [s \in Sellers |-> 0]]

\* A freshly prepared batch and a requester who can afford one proof.
Init ==
  /\ ProverInit
  /\ balance = 1
  /\ batch = FirstQuote
  /\ batchLock = None
  /\ summary = NoSummary
  /\ started = [s \in Sellers |-> FALSE]
  /\ execLock = [s \in Sellers |-> None]
  /\ stale = 0 /\ crashes = 0 /\ faults = 0
  /\ pc = [p \in Procs |-> "idle"]
  /\ kind = [p \in Procs |-> "run"]
  /\ pos = [p \in Procs |-> 1]
  /\ seen = [p \in Procs |-> FirstQuote]
  /\ mem = [p \in Procs |-> NoSummary]
  /\ resuming = [p \in Procs |-> {}]
  /\ outcome = [p \in Procs |-> "none"]
  /\ digest = [p \in Procs |-> 0]

Goto(p, from, to) ==
  /\ pc[p] = from
  /\ pc' = [pc EXCEPT ![p] = to]

\* The command is over, and what it held in memory is gone.
End(p) ==
  /\ pc' = [pc EXCEPT ![p] = "idle"]
  /\ kind' = [kind EXCEPT ![p] = "run"]
  /\ pos' = [pos EXCEPT ![p] = 1]
  /\ seen' = [seen EXCEPT ![p] = FirstQuote]
  /\ mem' = [mem EXCEPT ![p] = NoSummary]
  /\ resuming' = [resuming EXCEPT ![p] = {}]
  /\ outcome' = [outcome EXCEPT ![p] = "none"]
  /\ digest' = [digest EXCEPT ![p] = 0]

-----------------------------------------------------------------------------
(* Starting a command.                                                     *)

\* run or refresh reads and validates the batch quote; submit is the canary
\* command, given the quote that prepare wrote for one seller.
Launch(p, k, s) ==
  /\ prover[p] = "none"
  /\ IF k = "submit" THEN Goto(p, "idle", "check") ELSE Goto(p, "idle", "batch.lock")
  /\ kind' = [kind EXCEPT ![p] = k]
  /\ pos' = [pos EXCEPT ![p] = IF k = "submit" THEN s ELSE 1]
  /\ seen' = [seen EXCEPT ![p] = IF k = "submit" THEN FirstQuote ELSE batch]
  /\ UNCHANGED <<proverVars, fileVars, envVars, mem, resuming, outcome, digest>>

LaunchRun(p) == Launch(p, "run", 1)
LaunchRefresh(p) == batch.gen < MaxRefreshes /\ Launch(p, "refresh", 1)
LaunchSubmit(p) == \E s \in Canaries : Launch(p, "submit", s)

\* Mutant of TakeBatchLock: the lock file is created without the exclusive flag.
TakeBatchLockAnyway(p) ==
  /\ Goto(p, "batch.lock", IF kind[p] = "run" THEN "run.load" ELSE "refresh.load")
  /\ batchLock' = p
  /\ UNCHANGED <<proverVars, batch, summary, started, execLock, envVars,
                 kind, pos, seen, mem, resuming, outcome, digest>>

\* writeFile(batch.lock, { flag: "wx" }): the loser exits, leaving the lock alone.
TakeBatchLock(p) ==
  /\ pc[p] = "batch.lock"
  /\ \/ /\ batchLock = None
        /\ batchLock' = p
        /\ Goto(p, "batch.lock", IF kind[p] = "run" THEN "run.load" ELSE "refresh.load")
        /\ UNCHANGED <<kind, pos, seen, mem, resuming, outcome, digest>>
     \/ /\ batchLock # None
        /\ End(p)
        /\ UNCHANGED batchLock
  /\ UNCHANGED <<proverVars, batch, summary, started, execLock, envVars>>

\* Mutant of BatchUnlock: no finally, the lock stays behind.
BatchUnlockForgotten(p) ==
  /\ pc[p] = "unlock"
  /\ End(p)
  /\ UNCHANGED <<proverVars, fileVars, envVars>>

\* finally { await unlink(lockPath) }, and the command ends.
BatchUnlock(p) ==
  /\ pc[p] = "unlock"
  /\ batchLock' = None
  /\ End(p)
  /\ UNCHANGED <<proverVars, batch, summary, started, execLock, envVars>>

\* Mutant of Accepted: the approval is not checked again under the lock.
AcceptedWithoutRecheck(p) == summary.status = "absent" \/ summary.gen = seen[p].gen

\* The checkpoint a command accepts: none yet, or one for the quote it was given.
Accepted(p) ==
  /\ batch.gen = seen[p].gen
  /\ summary.status = "absent" \/ summary.gen = seen[p].gen

-----------------------------------------------------------------------------
(* run: execute and runQueue.                                              *)

Persist(p, state) ==
  /\ mem' = [mem EXCEPT ![p] = state]
  /\ summary' = state

\* Recheck the approval under the lock, load or create the state, persist "running".
RunLoad(p) ==
  /\ \/ /\ Accepted(p)
        /\ Persist(p, [gen |-> seen[p].gen, status |-> "running", results |-> summary.results])
        /\ Goto(p, "run.load", "run.next")
     \/ /\ ~Accepted(p)
        /\ Goto(p, "run.load", "unlock")
        /\ UNCHANGED <<mem, summary>>
  /\ UNCHANGED <<proverVars, batch, batchLock, started, execLock, envVars,
                 kind, pos, seen, resuming, outcome, digest>>

\* verifyCompleted: skip a completed entry whose artifact still has its digest.
RunSkip(p) ==
  LET s == pos[p] IN
  /\ pc[p] = "run.next" /\ s <= N
  /\ mem[p].results[s] # 0
  /\ artifact[s].digest = mem[p].results[s]
  /\ pos' = [pos EXCEPT ![p] = s + 1]
  /\ UNCHANGED <<proverVars, fileVars, envVars,
                 pc, kind, seen, mem, resuming, outcome, digest>>

\* verifyCompleted throws: the exception leaves runQueue, nothing is persisted.
RunArtifactChanged(p) ==
  LET s == pos[p] IN
  /\ Goto(p, "run.next", "unlock") /\ s <= N
  /\ mem[p].results[s] # 0
  /\ artifact[s].digest # mem[p].results[s]
  /\ UNCHANGED <<proverVars, fileVars, envVars,
                 kind, pos, seen, mem, resuming, outcome, digest>>

\* Persist the entry as current and submit it.
RunSelect(p) ==
  /\ Goto(p, "run.next", "check") /\ pos[p] <= N
  /\ mem[p].results[pos[p]] = 0
  /\ Persist(p, mem[p])
  /\ UNCHANGED <<proverVars, batch, batchLock, started, execLock, envVars,
                 kind, pos, seen, resuming, outcome, digest>>

\* Mutant of RunRecord: the entry after the recorded one is passed over.
RunRecordPassesNext(p) ==
  /\ outcome[p] = "ok"
  /\ Goto(p, "run.record", "run.next")
  /\ Persist(p, [mem[p] EXCEPT !.results[pos[p]] = digest[p]])
  /\ pos' = [pos EXCEPT ![p] = @ + 2]
  /\ resuming' = [resuming EXCEPT ![p] = {}]
  /\ outcome' = [outcome EXCEPT ![p] = "none"]
  /\ digest' = [digest EXCEPT ![p] = 0]
  /\ UNCHANGED <<proverVars, batch, batchLock, started, execLock, envVars, kind, seen>>

\* The submission returned a verified proof: record it and go to the next entry.
RunRecord(p) ==
  /\ outcome[p] = "ok"
  /\ Goto(p, "run.record", "run.next")
  /\ Persist(p, [mem[p] EXCEPT !.results[pos[p]] = digest[p]])
  /\ pos' = [pos EXCEPT ![p] = @ + 1]
  /\ resuming' = [resuming EXCEPT ![p] = {}]
  /\ outcome' = [outcome EXCEPT ![p] = "none"]
  /\ digest' = [digest EXCEPT ![p] = 0]
  /\ UNCHANGED <<proverVars, batch, batchLock, started, execLock, envVars, kind, seen>>

\* The submission threw: persist why and stop the queue.
RunPause(p) ==
  /\ outcome[p] \in {"funds", "error"}
  /\ Goto(p, "run.record", "unlock")
  /\ Persist(p, [mem[p] EXCEPT !.status = IF outcome[p] = "funds"
                                          THEN "paused-insufficient-funds"
                                          ELSE "needs-attention"])
  /\ UNCHANGED <<proverVars, batch, batchLock, started, execLock, envVars,
                 kind, pos, seen, resuming, outcome, digest>>

RunFinish(p) ==
  /\ Goto(p, "run.next", "unlock") /\ pos[p] = N + 1
  /\ Persist(p, [mem[p] EXCEPT !.status = "complete"])
  /\ UNCHANGED <<proverVars, batch, batchLock, started, execLock, envVars,
                 kind, pos, seen, resuming, outcome, digest>>

RunStep(p) ==
  \/ RunLoad(p) \/ RunSkip(p) \/ RunArtifactChanged(p) \/ RunSelect(p)
  \/ RunRecord(p) \/ RunPause(p) \/ RunFinish(p)

-----------------------------------------------------------------------------
(* submit: one seller, called by run for an entry or by the canary command.*)

\* submit returns, or throws, to runQueue or to the canary's main.
SubmitReturns(p, how) ==
  \/ /\ kind[p] = "run"
     /\ pc' = [pc EXCEPT ![p] = "run.record"]
     /\ outcome' = [outcome EXCEPT ![p] = how]
     /\ UNCHANGED <<kind, pos, seen, mem, resuming, digest>>
  \/ /\ kind[p] = "submit"
     /\ End(p)

Resuming(p) == pos[p] \in resuming[p]
QuoteIsStale(p) == seen[p].quoted[pos[p]] < stale

\* Mutant of SubmitCheck: a saved request is not noticed.
SubmitCheckForgetsRequest(p) ==
  /\ Goto(p, "check", "afford")
  /\ resuming' = [resuming EXCEPT ![p] = {}]
  /\ UNCHANGED <<proverVars, fileVars, envVars, kind, pos, seen, mem, outcome, digest>>

\* exists(checkpointPath), read once, before the lock.
SubmitCheck(p) ==
  /\ Goto(p, "check", "afford")
  /\ resuming' = [resuming EXCEPT
                    ![p] = IF checkpoint[pos[p]] # 0 THEN {pos[p]} ELSE {}]
  /\ UNCHANGED <<proverVars, fileVars, envVars, kind, pos, seen, mem, outcome, digest>>

\* validateQuote, checkBaseFee and the balance test: only for a new request.
SubmitAfford(p) ==
  /\ pc[p] = "afford"
  /\ \/ /\ ~Resuming(p) /\ QuoteIsStale(p)
        /\ SubmitReturns(p, "error")
     \/ /\ ~Resuming(p) /\ ~QuoteIsStale(p) /\ balance = 0
        /\ SubmitReturns(p, "funds")
     \/ /\ Resuming(p) \/ (~QuoteIsStale(p) /\ balance > 0)
        /\ Goto(p, "afford", "lock")
        /\ UNCHANGED <<kind, pos, seen, mem, resuming, outcome, digest>>
  /\ UNCHANGED <<proverVars, fileVars, envVars>>

\* Mutant of SubmitLock: execution.lock is created without the exclusive flag.
SubmitLockAnyway(p) ==
  /\ Goto(p, "lock", "mark")
  /\ execLock' = [execLock EXCEPT ![pos[p]] = p]
  /\ UNCHANGED <<proverVars, batch, batchLock, summary, started, envVars,
                 kind, pos, seen, mem, resuming, outcome, digest>>

SubmitLock(p) ==
  LET s == pos[p] IN
  /\ pc[p] = "lock"
  /\ \/ /\ execLock[s] = None
        /\ execLock' = [execLock EXCEPT ![s] = p]
        /\ Goto(p, "lock", "mark")
        /\ UNCHANGED <<kind, pos, seen, mem, resuming, outcome, digest>>
     \/ /\ execLock[s] # None
        /\ SubmitReturns(p, "error")
        /\ UNCHANGED execLock
  /\ UNCHANGED <<proverVars, batch, batchLock, summary, started, envVars>>

\* An earlier launch was marked but has no saved request: refuse to pay again.
SubmitAmbiguous(p) ==
  /\ Goto(p, "mark", "release")
  /\ started[pos[p]] /\ ~Resuming(p)
  /\ outcome' = [outcome EXCEPT ![p] = "error"]
  /\ UNCHANGED <<proverVars, fileVars, envVars, kind, pos, seen, mem, resuming, digest>>

\* Mutant of SubmitMark: an ambiguous earlier launch does not stop a new request.
SubmitMarkAgain(p) ==
  LET s == pos[p] IN
  /\ Goto(p, "mark", "prove")
  /\ started' = [started EXCEPT ![s] = @ \/ ~Resuming(p)]
  /\ Spawn(p, s)
  /\ UNCHANGED <<checkpoint, artifact, paid, fulfilled, expired, balance, envVars,
                 batch, batchLock, summary, execLock,
                 kind, pos, seen, mem, resuming, outcome, digest>>

\* Write submission-started.json unless resuming, then start the prover child.
SubmitMark(p) ==
  LET s == pos[p] IN
  /\ Goto(p, "mark", "prove")
  /\ Resuming(p) \/ ~started[s]
  /\ started' = [started EXCEPT ![s] = @ \/ ~Resuming(p)]
  /\ Spawn(p, s)
  /\ UNCHANGED <<checkpoint, artifact, paid, fulfilled, expired, balance, envVars,
                 batch, batchLock, summary, execLock,
                 kind, pos, seen, mem, resuming, outcome, digest>>

\* Mutant of SubmitVerify: the exit status of the child is ignored.
SubmitVerifyAnyExit(p) ==
  /\ Goto(p, "prove", "release")
  /\ prover[p] \in {"ok", "failed"}
  /\ outcome' = [outcome EXCEPT ![p] = "ok"]
  /\ digest' = [digest EXCEPT ![p] = artifact[pos[p]].digest]
  /\ Reap(p)
  /\ UNCHANGED <<checkpoint, artifact, paid, fulfilled, expired, balance, fileVars, envVars,
                 kind, pos, seen, mem, resuming>>

\* The child exited: read and hash the artifact, or throw.
SubmitVerify(p) ==
  /\ Goto(p, "prove", "release")
  /\ \/ /\ prover[p] = "ok"
        /\ outcome' = [outcome EXCEPT ![p] = "ok"]
        /\ digest' = [digest EXCEPT ![p] = artifact[pos[p]].digest]
     \/ /\ prover[p] = "failed"
        /\ outcome' = [outcome EXCEPT ![p] = "error"]
        /\ UNCHANGED digest
  /\ Reap(p)
  /\ UNCHANGED <<checkpoint, artifact, paid, fulfilled, expired, balance, fileVars, envVars,
                 kind, pos, seen, mem, resuming>>

\* finally { await unlink(lock) }
SubmitRelease(p) ==
  /\ pc[p] = "release"
  /\ SubmitReturns(p, outcome[p])
  /\ execLock' = [execLock EXCEPT ![pos[p]] = None]
  /\ UNCHANGED <<proverVars, batch, batchLock, summary, started, envVars>>

SubmitStep(p) ==
  \/ SubmitCheck(p) \/ SubmitAfford(p) \/ SubmitLock(p) \/ SubmitAmbiguous(p)
  \/ SubmitMark(p) \/ SubmitVerify(p) \/ SubmitRelease(p)

-----------------------------------------------------------------------------
(* refresh: reprice every entry that has no saved request.                 *)

RefreshLoad(p) ==
  /\ \/ /\ Accepted(p)
        /\ mem' = [mem EXCEPT ![p] = summary]
        /\ Goto(p, "refresh.load", "refresh.lock")
     \/ /\ ~Accepted(p)
        /\ Goto(p, "refresh.load", "unlock")
        /\ UNCHANGED mem
  /\ UNCHANGED <<proverVars, fileVars, envVars,
                 kind, pos, seen, resuming, outcome, digest>>

\* exists(execution.lock) for the entry at pos: throw when it is locked.
RefreshSeesLock(p) ==
  /\ pos[p] <= N
  /\ Goto(p, "refresh.lock",
          IF execLock[pos[p]] = None THEN "refresh.entry" ELSE "unlock")
  /\ UNCHANGED <<proverVars, fileVars, envVars,
                 kind, pos, seen, mem, resuming, outcome, digest>>

\* Keep the quote of a saved request; throw on a marked launch without one.
RefreshEntry(p) ==
  LET s == pos[p] IN
  /\ pc[p] = "refresh.entry"
  /\ \/ /\ checkpoint[s] = 0 /\ started[s]
        /\ Goto(p, "refresh.entry", "unlock")
        /\ UNCHANGED <<pos, resuming>>
     \/ /\ checkpoint[s] # 0 \/ ~started[s]
        /\ Goto(p, "refresh.entry", "refresh.lock")
        /\ resuming' = [resuming EXCEPT
                          ![p] = @ \cup (IF checkpoint[s] # 0 THEN {s} ELSE {})]
        /\ pos' = [pos EXCEPT ![p] = s + 1]
  /\ UNCHANGED <<proverVars, fileVars, envVars, kind, seen, mem, outcome, digest>>

Repriced(p) ==
  LET next == seen[p].gen + 1 IN
  [gen |-> next,
   quoted |-> [s \in Sellers |-> IF s \in resuming[p] THEN seen[p].quoted[s] ELSE next]]

\* rename(batch-quote.json.tmp, batch-quote.json)
RefreshQuote(p) ==
  /\ pos[p] = N + 1
  /\ Goto(p, "refresh.lock", "refresh.state")
  /\ batch' = Repriced(p)
  /\ UNCHANGED <<proverVars, batchLock, summary, started, execLock, envVars,
                 kind, pos, seen, mem, resuming, outcome, digest>>

\* Mutant of RefreshState: the summary keeps the digest of the old quote.
RefreshStateKeepsDigest(p) ==
  /\ Goto(p, "refresh.state", "unlock")
  /\ summary' = IF mem[p].status = "absent" THEN summary
                ELSE [mem[p] EXCEPT !.status = IF @ = "complete" THEN "complete"
                                               ELSE "awaiting-approval"]
  /\ UNCHANGED <<proverVars, batch, batchLock, started, execLock, envVars,
                 kind, pos, seen, mem, resuming, outcome, digest>>

\* rename(summary.json.tmp, summary.json), when there was a summary.
RefreshState(p) ==
  /\ Goto(p, "refresh.state", "unlock")
  /\ summary' = IF mem[p].status = "absent" THEN summary
                ELSE [gen |-> seen[p].gen + 1,
                      status |-> IF mem[p].status = "complete" THEN "complete"
                                 ELSE "awaiting-approval",
                      results |-> mem[p].results]
  /\ UNCHANGED <<proverVars, batch, batchLock, started, execLock, envVars,
                 kind, pos, seen, mem, resuming, outcome, digest>>

RefreshStep(p) ==
  \/ RefreshLoad(p) \/ RefreshSeesLock(p) \/ RefreshEntry(p)
  \/ RefreshQuote(p) \/ RefreshState(p)

-----------------------------------------------------------------------------
(* What goes wrong, and what the operator does about it.                   *)

\* A source hash, a price or a balance cannot be read, or does not match.
InputFails(p) ==
  /\ faults < MaxFaults /\ faults' = faults + 1
  /\ \/ /\ pc[p] \in {"check", "afford"}
        /\ SubmitReturns(p, "error")
     \/ /\ Goto(p, "refresh.entry", "unlock")
        /\ UNCHANGED <<kind, pos, seen, mem, resuming, outcome, digest>>
  /\ UNCHANGED <<proverVars, fileVars, stale, crashes>>

\* The script is killed.  Its lock files stay; its child dies with it (a signal
\* to the process group) or goes on alone (a signal to the script).
Crash(p, childDies) ==
  /\ crashes < MaxCrashes /\ crashes' = crashes + 1
  /\ pc[p] # "idle"
  /\ End(p)
  /\ batchLock' = IF batchLock = p THEN Stale ELSE batchLock
  /\ execLock' = [s \in Sellers |-> IF execLock[s] = p THEN Stale ELSE execLock[s]]
  /\ IF childDies THEN Reap(p) ELSE UNCHANGED <<prover, job, request>>
  /\ UNCHANGED <<checkpoint, artifact, paid, fulfilled, expired, balance,
                 batch, summary, started, stale, faults>>

KilledWithChild(p) == Crash(p, TRUE)
KilledAlone(p) == Running(p) /\ Crash(p, FALSE)

\* A child that outlived its script exits.
OrphanExits(p) ==
  /\ pc[p] = "idle" /\ prover[p] \in {"ok", "failed"}
  /\ Reap(p)
  /\ UNCHANGED <<checkpoint, artifact, paid, fulfilled, expired, balance, scriptVars>>

\* The operator removes a lock left behind, once nothing it protected still runs.
ReviewBatchLock ==
  /\ batchLock = Stale
  /\ batchLock' = None
  /\ UNCHANGED <<proverVars, batch, summary, started, execLock, procVars, envVars>>

ReviewExecLock(s) ==
  /\ execLock[s] = Stale
  /\ \A p \in Procs : prover[p] # "none" => job[p] # s
  /\ execLock' = [execLock EXCEPT ![s] = None]
  /\ UNCHANGED <<proverVars, batch, batchLock, summary, started, procVars, envVars>>

\* Mutant of Reconcile: the marker is removed without looking at the history.
ReconcileBlindly(s) ==
  /\ started[s] /\ checkpoint[s] = 0 /\ execLock[s] = None
  /\ started' = [started EXCEPT ![s] = FALSE]
  /\ UNCHANGED <<proverVars, batch, batchLock, summary, execLock, procVars, envVars>>

\* The operator reconciles a marked launch with the requester's history: the
\* request the network has is saved, or the marker of one it never got is removed.
Reconcile(s) ==
  /\ started[s] /\ checkpoint[s] = 0 /\ execLock[s] = None
  /\ \/ /\ paid[s] = 0
        /\ started' = [started EXCEPT ![s] = FALSE]
        /\ UNCHANGED checkpoint
     \/ /\ \E r \in 1 .. paid[s] : checkpoint' = [checkpoint EXCEPT ![s] = r]
        /\ UNCHANGED started
  /\ UNCHANGED <<artifact, paid, fulfilled, expired, balance, prover, job, request,
                 batch, batchLock, summary, execLock, procVars, envVars>>

RequestFulfilled(s) == Fulfil(s) /\ UNCHANGED scriptVars

\* The network does not prove a request of seller s in time.
RequestExpires(s) ==
  /\ faults < MaxFaults /\ faults' = faults + 1
  /\ Expire(s)
  /\ UNCHANGED <<fileVars, procVars, stale, crashes>>

\* A day passes or the base fee rises: no quote issued so far is acceptable.
QuotesGoStale ==
  /\ batch.gen < MaxRefreshes
  /\ stale' = batch.gen + 1
  /\ UNCHANGED <<proverVars, fileVars, procVars, crashes, faults>>

-----------------------------------------------------------------------------

ScriptStep(p) ==
  TakeBatchLock(p) \/ BatchUnlock(p) \/ RunStep(p) \/ SubmitStep(p) \/ RefreshStep(p)

ChildStep(p) == ProverStep(p) /\ UNCHANGED scriptVars

ChildFault(p) ==
  /\ faults < MaxFaults /\ faults' = faults + 1
  /\ ProverFault(p)
  /\ UNCHANGED <<fileVars, procVars, stale, crashes>>

Operator ==
  \/ \E p \in Procs : LaunchRun(p) \/ LaunchRefresh(p) \/ LaunchSubmit(p)
  \/ ReviewBatchLock
  \/ \E s \in Sellers : ReviewExecLock(s) \/ Reconcile(s)
  \/ TopUp /\ UNCHANGED scriptVars

Environment ==
  \/ \E s \in Sellers : RequestFulfilled(s) \/ RequestExpires(s)
  \/ QuotesGoStale
  \/ \E p \in Procs : \/ InputFails(p) \/ ChildFault(p) \/ OrphanExits(p)
                      \/ KilledWithChild(p) \/ KilledAlone(p)

Next ==
  \/ \E p \in Procs : ScriptStep(p) \/ ChildStep(p)
  \/ Operator
  \/ Environment

Spec == Init /\ [][Next]_vars

-----------------------------------------------------------------------------
(* Safety.                                                                 *)

\* The files and processes that keep a second payment away, wherever a script or
\* a child was killed:
\*   a script past SubmitLock owns execution.lock, and a live child is started by
\*     such a script or has outlived it behind the lock it left;
\*   a saved request was paid for, and a payment leaves its marker behind;
\*   a child without a saved request to load has not been paid for yet.
LocksAreOwned ==
  /\ \A p \in Procs : pc[p] \in {"mark", "prove", "release"} =>
       pos[p] \in Sellers /\ execLock[pos[p]] = p
  /\ \A p \in Procs : prover[p] # "none" =>
       \/ pc[p] = "prove" /\ pos[p] = job[p]
       \/ pc[p] = "idle" /\ execLock[job[p]] = Stale
  /\ \A p, q \in Procs :
       prover[p] # "none" /\ prover[q] # "none" /\ job[p] = job[q] => p = q

PaymentsAreTraced ==
  /\ \A s \in Sellers : paid[s] # 0 => started[s]
  /\ \A s \in Sellers : checkpoint[s] <= paid[s]
  /\ \A p \in Procs : pc[p] \in {"afford", "lock", "mark"} /\ Resuming(p) =>
       checkpoint[pos[p]] # 0

ChildrenPayOnce ==
  \A p \in Procs : LET s == job[p] IN
    /\ prover[p] = "load" /\ checkpoint[s] = 0 => paid[s] = 0 /\ started[s]
    /\ prover[p] = "request" => checkpoint[s] = 0 /\ paid[s] = 0 /\ started[s]
    /\ prover[p] = "save" => checkpoint[s] = 0 /\ request[p] = paid[s] /\ paid[s] # 0
    /\ prover[p] \in {"wait", "write"} => request[p] = checkpoint[s] /\ checkpoint[s] # 0

PaymentTrail == LocksAreOwned /\ PaymentsAreTraced /\ ChildrenPayOnce

\* No seller is ever paid for twice, whatever is killed, lost or run twice.
AtMostOnePaidRequest == \A s \in Sellers : paid[s] <= 1

\* execution.lock: never two live children for the same seller, not even when
\* one of them outlived the script that started it.
OneChildPerSeller ==
  \A p, q \in Procs : Running(p) /\ Running(q) /\ job[p] = job[q] => p = q

\* A result recorded as complete is backed by the artifact of the request that was
\* paid, fulfilled and saved for that seller, and "complete" has one for everyone.
RecordedIsProved ==
  /\ \A s \in Sellers : summary.results[s] # 0 =>
       /\ artifact[s].request # 0
       /\ artifact[s].request = checkpoint[s]
       /\ artifact[s].request \in fulfilled[s]
  /\ summary.status = "complete" => \A s \in Sellers : summary.results[s] # 0

\* The queue is sequential: when run is about to pay for an entry, every earlier
\* entry is already recorded on disk, and the quote it pays under is still the one
\* on disk, though run read both long before.
PaysInOrderUnderCurrentQuote ==
  \A p \in Procs : prover[p] = "request" /\ pc[p] = "prove" /\ kind[p] = "run" =>
    /\ \A t \in 1 .. job[p] - 1 : summary.results[t] # 0
    /\ seen[p].gen = batch.gen

\* No step forgets a completed result, although run and refresh write back a copy
\* of summary.json that they read when they started.
ResultsAreKept ==
  [][\A s \in Sellers : summary.results[s] # 0 => summary'.results[s] = summary.results[s]]_vars

\* The queue implements the promise made to the requester: payments and artifacts
\* appear once for each seller, a payment before its artifact.
Promise == INSTANCE PaidOnce WITH
  spent <- paid,
  proved <- [s \in Sellers |-> artifact[s].request # 0]

PaysOncePerProof == Promise!Spec

\* With every lock gone, the launcher (refresh, then run) accepts the files it finds.
LauncherCanResume ==
  (batchLock = None /\ \A p \in Procs : pc[p] = "idle")
    => summary.status = "absent" \/ summary.gen = batch.gen

\* Overlapping runs, refreshes and canary submissions, and every failure short of a kill,
\* leave the quote and the summary in step, though refresh renames them one by one.
ResumableUnlessKilled == crashes = 0 => LauncherCanResume

(* Liveness.                                                               *)

\* Scripts and children make progress; nothing is assumed of the operator.  A request
\* does not stay open for ever: it has a proof before its deadline, or it has expired.
\* WaitProof and WaitProofTimesOut exclude each other, so the wait of a child always ends.
FairSpec ==
  /\ Spec
  /\ \A p \in Procs : WF_vars(ScriptStep(p)) /\ WF_vars(ChildStep(p))
  /\ \A s \in Sellers : WF_vars(RequestFulfilled(s) \/ RequestExpires(s))

\* What the operator is asked to do: in the end one command at a time, and again and
\* again rerun the launcher, refresh, top up, reconcile.
OperatorServes ==
  /\ <>[](\A p, q \in Procs : pc[p] # "idle" /\ pc[q] # "idle" => p = q)
  /\ SF_vars(\E p \in Procs : LaunchRun(p)) /\ SF_vars(\E p \in Procs : LaunchRefresh(p))
  /\ WF_vars(TopUp /\ UNCHANGED scriptVars)
  /\ \A s \in Sellers : SF_vars(Reconcile(s))

\* Every command that is not killed ends, and gives back the locks it took.
CommandsEnd ==
  \A p \in Procs : pc[p] # "idle" ~>
    pc[p] = "idle" /\ batchLock # p /\ \A s \in Sellers : execLock[s] # p

\* What no rerun gets past.  A saved request that has expired is waited for again by
\* every child, since the checkpoint stays (prove-seller 270-276); and when the canary
\* command has rewritten a recorded artifact, with its own timings, verifyCompleted
\* throws in every run (submit-frozen-seller-batch.mjs 227).
Blocks(s) ==
  \/ checkpoint[s] \in expired[s]
  \/ summary.results[s] # 0 /\ artifact[s].digest # summary.results[s]

\* An operator who serves the queue sees every seller recorded that no blocked one is
\* before, and the queue complete if none is blocked: as long as no script is killed, lost
\* answers, failing children, timeouts, stale quotes, an empty balance and the other two
\* commands only delay it.
QueueCompletes ==
  OperatorServes =>
    /\ \A s \in Sellers : <>(summary.results[s] # 0) \/ []<>(\E t \in 1 .. s : Blocks(t))
    /\ <>(summary.status = "complete") \/ []<>(\E s \in Sellers : Blocks(s))

=============================================================================
