--------------------------- MODULE Materialization ---------------------------
(***************************************************************************)
(* Turning a locked plan into verified seller inputs                       *)
(* (scripts/generate-approved-development-proofs.mjs): workers start a     *)
(* materializer (host/src/bin/wash-trading-materialize-p0.rs) for every    *)
(* claim whose witness file is not current, record what the file was, and  *)
(* then a prover child verifies each seller and commits to its blocks.     *)
(*                                                                         *)
(* A claim has one seller.  A kill takes the children of the script along, *)
(* as an interrupt from the terminal does.  Witness files and their        *)
(* metadata are written in place: a truncated file is <<>>, one cut short  *)
(* is Cut, and metadata that is not JSON describes nothing.                *)
(***************************************************************************)
EXTENDS EvidenceCache, BlockChunks

CONSTANTS
  Concurrency, \* --materialize-concurrency
  Builds,      \* digests of materializer binaries
  NoFile, Cut  \* contents of a witness: none, a write that was interrupted

\* Neither is the evidence of any targets.
ASSUME FilesAssumption == {NoFile, Cut} \cap Seq(EvidenceSet) = {}

\* mapWithConcurrency refuses to run without a worker.
ASSUME PoolAssumption == IsFiniteSet(Claims) /\ Concurrency \in Nat \ {0}

VARIABLES
  build,     \* the materializer that cargo builds now
  witness,   \* <claim>.witness.json: the evidence of its targets
  mark,      \* <claim>.witness.json.cache.json: the build it names (0: none), and
  asMarked,  \* whether the file has the size and the time of change recorded there
  \* the script
  stage,     \* what it does now
  missing,   \* claims no worker has taken
  busy,      \* claims being handled, each by a worker
  seen,      \* of those, whose file was looked at after the child, and is still the same
  crew,      \* workers that have not thrown
  rejected,  \* one has
  verified,  \* sellers whose artifact was written in this run
  upset      \* whether the last step of any process was a failure or a kill, or the
             \* source was changed after it

files == <<witness, mark, asMarked>>
script == <<stage, missing, busy, seen, crew, rejected, verified>>
vars == <<forks, cache, phase, fetching, build, files, script, upset>>

Stages == {"idle", "pool", "recheck", "sellers", "summary"}
Phases == {"none", "index", "blocks", "build", "write", "writing", "failed", "done"}

Init ==
  /\ FetchInit
  /\ build \in Builds
  /\ witness = [c \in Claims |-> NoFile] /\ mark = [c \in Claims |-> 0]
  /\ asMarked = [c \in Claims |-> FALSE]
  /\ stage = "idle" /\ missing = {} /\ busy = {} /\ seen = {} /\ crew = 0
  /\ rejected = FALSE /\ verified = {} /\ upset = FALSE

\* Mutant of IsCurrent: size and time of change are not compared.
IsCurrentAnyFile(c) == witness[c] \notin {NoFile, <<>>} /\ mark[c] = build

\* The metadata names this build and describes the file as it is.
IsCurrent(c) == witness[c] \notin {NoFile, <<>>} /\ mark[c] = build /\ asMarked[c]

Exit ==
  /\ stage' = "idle" /\ missing' = {} /\ busy' = {} /\ seen' = {} /\ crew' = 0
  /\ rejected' = FALSE /\ verified' = {}

-----------------------------------------------------------------------------
(* The materializer process *)

EndBlock(c) == Len(Targets[c])

\* Log references need a position map wherever receipts are used.
LogsLocated(c) ==
  \A j \in DOMAIN results[c] : results[c][j].receipts # {} => results[c][j].positions # {}

\* The input is put together; the ledgers are read at the period end from the provider and
\* must verify under the evidence's header.
BuildInput(c) ==
  /\ phase[c] = "build"
  /\ \E v \in Served(Targets[c][EndBlock(c)].block) :
       phase' = [phase EXCEPT ![c] =
                   IF LogsLocated(c) /\ v = results[c][EndBlock(c)].header
                   THEN "write" ELSE "failed"]
  /\ UNCHANGED <<forks, cache, fetching, build, files, script>>

BuildFails(c) ==
  /\ phase[c] = "build"
  /\ phase' = [phase EXCEPT ![c] = "failed"]
  /\ UNCHANGED <<forks, cache, fetching, build, files, script>>

\* The file changes: it is not what metadata, or a look at it, described.
Rewrite(c, contents) ==
  /\ witness' = [witness EXCEPT ![c] = contents]
  /\ asMarked' = [asMarked EXCEPT ![c] = FALSE]
  /\ seen' = seen \ {c}

TruncateWitness(c) ==
  /\ phase[c] = "write" /\ phase' = [phase EXCEPT ![c] = "writing"]
  /\ Rewrite(c, <<>>)
  /\ UNCHANGED <<forks, cache, fetching, build, mark,
                 stage, missing, busy, crew, rejected, verified>>

WriteWitness(c) ==
  /\ phase[c] = "writing" /\ phase' = [phase EXCEPT ![c] = "done"]
  /\ Rewrite(c, results[c])
  /\ UNCHANGED <<forks, cache, fetching, build, mark,
                 stage, missing, busy, crew, rejected, verified>>

-----------------------------------------------------------------------------
(* The script: the pool of workers *)

\* The plan is checked against the lock and the materializer is built; every claim's witness
\* is looked at.
Launch ==
  /\ stage = "idle"
  /\ missing' = {c \in Claims : ~IsCurrent(c)}
  /\ crew' = IF Cardinality(missing') < Concurrency THEN Cardinality(missing') ELSE Concurrency
  /\ stage' = IF missing' = {} THEN "recheck" ELSE "pool"
  /\ UNCHANGED <<forks, cache, phase, fetching, build, files, busy, seen, rejected,
                 verified>>

\* Mutant of Spawn: the claim stays in the list.
SpawnAgain(c) ==
  /\ stage = "pool" /\ c \in missing /\ \A d \in missing : c <= d
  /\ Cardinality(busy) < crew
  /\ busy' = busy \cup {c}
  /\ phase' = [phase EXCEPT ![c] = "index"]
  /\ UNCHANGED <<forks, cache, fetching, build, files, stage, missing, seen, crew,
                 rejected, verified>>

\* An idle worker takes the next claim and starts its materializer.
Spawn(c) ==
  /\ stage = "pool" /\ c \in missing /\ \A d \in missing : c <= d
  /\ Cardinality(busy) < crew
  /\ missing' = missing \ {c} /\ busy' = busy \cup {c}
  /\ phase' = [phase EXCEPT ![c] = "index"]
  /\ UNCHANGED <<forks, cache, fetching, build, files, stage, seen, crew, rejected,
                 verified>>

\* The child's exit: after a failure the worker throws, and the others go on.
Exited(c) ==
  /\ phase[c] \in {"failed", "done"} /\ phase' = [phase EXCEPT ![c] = "none"]
  /\ Forget({c})

ChildFailed(c) ==
  /\ phase[c] = "failed" /\ Exited(c)
  /\ busy' = busy \ {c} /\ crew' = crew - 1 /\ rejected' = TRUE
  /\ UNCHANGED <<forks, cache, build, files, stage, missing, seen, verified>>

\* Mutant of StatWitness: the file was looked at before the child wrote it.
StatBefore(c) ==
  /\ phase[c] = "done" /\ Exited(c)
  /\ seen' = seen
  /\ UNCHANGED <<forks, cache, build, files, stage, missing, busy, crew, rejected,
                 verified>>

\* writeWitnessCacheMetadata looks at the file, which the child has just written and which is
\* not empty, and then writes what it saw.
StatWitness(c) ==
  /\ phase[c] = "done" /\ Exited(c)
  /\ seen' = seen \cup {c}
  /\ UNCHANGED <<forks, cache, build, files, stage, missing, busy, crew, rejected,
                 verified>>

WriteMetadata(c) ==
  /\ c \in busy /\ phase[c] = "none"
  /\ mark' = [mark EXCEPT ![c] = build]
  /\ asMarked' = [asMarked EXCEPT ![c] = c \in seen]
  /\ busy' = busy \ {c} /\ seen' = seen \ {c}
  /\ UNCHANGED <<forks, cache, phase, fetching, build, witness,
                 stage, missing, crew, rejected, verified>>

\* All workers are through, or have thrown.
PoolEnds ==
  /\ stage = "pool" /\ busy = {} /\ (missing = {} \/ crew = 0)
  /\ IF rejected THEN Exit
     ELSE stage' = "recheck" /\ UNCHANGED <<missing, busy, seen, crew, rejected, verified>>
  /\ UNCHANGED <<forks, cache, phase, fetching, build, files>>

-----------------------------------------------------------------------------
(* The script: sellers and summary *)

Recheck ==
  /\ stage = "recheck"
  /\ IF \A c \in Claims : IsCurrent(c)
     THEN stage' = "sellers" /\ UNCHANGED <<missing, busy, seen, crew, rejected, verified>>
     ELSE Exit
  /\ UNCHANGED <<forks, cache, phase, fetching, build, files>>

\* The references of a witness: number and hash of its blocks.
References(c) ==
  [j \in DOMAIN witness[c] |->
     [number |-> Targets[c][j].block, hash |-> witness[c][j].header]]

\* What the artifact commits to.
Artifact(c) ==
  [references |-> References(c), root |-> ChunkRoot(References(c)),
   chunks |-> AuthenticationChunks(References(c))]

\* A prover child with --witness-only: the boundary header comes from the provider, and must
\* be that of the evidence; the artifact is written.
VerifySeller(c) ==
  /\ stage = "sellers" /\ c \notin verified /\ \A d \in Claims \ verified : c <= d
  /\ \E v \in Served(Targets[c][EndBlock(c)].block) :
       IF witness[c] # Cut /\ v = witness[c][EndBlock(c)].header
       THEN /\ verified' = verified \cup {c}
            /\ UNCHANGED <<stage, missing, busy, seen, crew, rejected>>
       ELSE Exit
  /\ UNCHANGED <<forks, cache, phase, fetching, build, witness, mark, asMarked>>

SellerFails ==
  /\ stage = "sellers" /\ verified # Claims
  /\ Exit
  /\ UNCHANGED <<forks, cache, phase, fetching, build, files>>

\* All sellers are verified and their total is the approved one.
SellersEnd ==
  /\ stage = "sellers" /\ verified = Claims /\ stage' = "summary"
  /\ UNCHANGED <<forks, cache, phase, fetching, build, files, missing, busy, seen,
                 crew, rejected, verified>>

WriteSummary ==
  /\ stage = "summary" /\ Exit
  /\ UNCHANGED <<forks, cache, phase, fetching, build, files>>

-----------------------------------------------------------------------------
(* Surroundings *)

\* The script and its children are interrupted; a file in the middle of a write is cut short,
\* or empty.  Metadata cut short names nothing.
Kill ==
  /\ stage # "idle"
  /\ \E cut \in SUBSET {c \in Claims : phase[c] = "writing"},
        torn \in SUBSET {c \in busy : phase[c] = "none"} :
       /\ witness' = [c \in Claims |-> IF c \in cut THEN Cut ELSE witness[c]]
       /\ mark' = [c \in Claims |-> IF c \in torn THEN 0 ELSE mark[c]]
       /\ asMarked' = [c \in Claims |-> IF c \in torn THEN FALSE ELSE asMarked[c]]
  /\ phase' = [c \in Claims |-> "none"] /\ Forget(Claims)
  /\ Exit
  /\ UNCHANGED <<forks, cache, build>>

\* The materializer's source is changed, or changed back.
ChangeSource ==
  /\ stage = "idle"
  /\ build' \in Builds \ {build}
  /\ UNCHANGED <<forks, cache, phase, fetching, files, script>>

Fetching == \E c \in Claims : BlockStep(c) /\ UNCHANGED <<build, files, script>>

\* What the processes do by themselves.
Run ==
  /\ upset' = FALSE
  /\ \/ Fetching
     \/ \E c \in Claims :
          \/ BuildInput(c) \/ TruncateWitness(c) \/ WriteWitness(c)
          \/ Spawn(c) \/ ChildFailed(c) \/ StatWitness(c) \/ WriteMetadata(c)
          \/ VerifySeller(c)
     \/ PoolEnds \/ Recheck \/ SellersEnd \/ WriteSummary

Start == Launch /\ upset' = FALSE

Upset ==
  /\ upset' = TRUE
  /\ \/ \E c \in Claims, t \in Threads :
          FetchFails(c, t) /\ UNCHANGED <<build, files, script>>
     \/ \E c \in Claims : BuildFails(c)
     \/ SellerFails \/ Kill \/ ChangeSource

Fork == Reorganise /\ UNCHANGED <<build, files, script, upset>>

Next == Run \/ Start \/ Upset \/ Fork

Spec == Init /\ [][Next]_vars

\* A running process goes on, and the script is started again and again.
FairSpec == Spec /\ WF_vars(Run) /\ WF_vars(Start)

-----------------------------------------------------------------------------
(* Properties *)

\* Evidence is of one block: every proof verifies under the header it comes with, it holds
\* exactly what was asked for, and positions are those of this block.
OfOneBlock(target, e) ==
  /\ e.receipts = target.receipts \X {e.header}
  /\ e.transactions = target.transactions \X {e.header}
  /\ e.positions \subseteq {e.header}
  /\ target.receipts # {} => e.positions # {}

IsWhole(c) == witness[c] \notin {NoFile, Cut} /\ DOMAIN witness[c] = DOMAIN Targets[c]

\* Types; a claim is either waiting or handled, and no more are handled than workers are left.
TypeOK ==
  /\ forks \in {{1}, {1, 2}, {2}} /\ build \in Builds /\ stage \in Stages
  /\ DOMAIN cache = Keys
  /\ phase \in [Claims -> Phases]
  /\ mark \in [Claims -> Builds \cup {0}] /\ asMarked \in [Claims -> BOOLEAN]
  /\ missing \subseteq Claims /\ busy \subseteq Claims /\ busy \cap missing = {}
  /\ Cardinality(busy) <= crew /\ crew <= Concurrency
  /\ {c \in Claims : phase[c] # "none"} \subseteq busy
  /\ seen \subseteq busy /\ rejected \in BOOLEAN /\ verified \subseteq Claims

\* Whatever forks the endpoints serve in between, and whichever processes publish at once,
\* what is cached and what a whole witness holds is of one block each (rpc.rs 188-276,
\* 453-518).
EvidenceIsOfOneBlock ==
  /\ \A k \in Keys : cache[k] # NoEntry => OfOneBlock(k, cache[k])
  /\ \A c \in Claims : IsWhole(c) =>
        \A j \in DOMAIN Targets[c] : OfOneBlock(Targets[c][j], witness[c][j])

\* A witness that would be reused is whole: no interrupted write passes for one, also when
\* the materializer is built from changed source and changed back
\* (generate-approved-development-proofs.mjs 486-530).
CurrentWitnessIsWhole == \A c \in Claims : IsCurrent(c) => IsWhole(c)

\* Chunks someone may offer for an artifact: stretches of its references at any index, also
\* with another hash, with any of its paths.
Stretches(refs) == {SubSeq(refs, i, j) : i, j \in 1 .. Len(refs)} \ {<<>>}
Offered(a) ==
  [index : 0 .. 2 * Len(a.chunks) + 1,
   references : Stretches(a.references)
                \cup Stretches([i \in DOMAIN a.references |->
                                 [a.references[i] EXCEPT !.hash = 3 - @]]),
   proof : {a.chunks[n].proof : n \in DOMAIN a.chunks}]

\* What a seller's proof commits to is authenticated by its chunks and by nothing else: they
\* make an acceptable chunks file with all its references, in order, and a chunk
\* verifies under the root only if it is one of them, at its place (seller.rs 393-512).
ChunksAuthenticateReferences ==
  \A c \in verified :
    LET a == Artifact(c) IN
    /\ ChunksFileAccepted(a.chunks, Len(a.references))
    /\ FlattenSeq([n \in DOMAIN a.chunks |-> a.chunks[n].references]) = a.references
    /\ \A chunk \in Offered(a) :
          VerifyChunk(a.root, chunk) <=> \E n \in DOMAIN a.chunks : a.chunks[n] = chunk

\* No fork that was served has changed the block.
Unforked(block) == block < ForkFrom \/ forks = {1}

\* Where the chain was not reorganised, the provider is asked for a block only if what was
\* cached when the process began does not hold it (rpc.rs 346-383).  Entries of two forks
\* are not merged, and one may be replaced after it was read.
Cached(c, target) == {cache[k] : k \in {k \in index[c] : k.block = target.block}}
Covered(c, target) ==
  /\ Cached(c, target) # {}
  /\ target.receipts \subseteq UNION {Indices(e.receipts) : e \in Cached(c, target)}
  /\ target.transactions \subseteq UNION {Indices(e.transactions) : e \in Cached(c, target)}

NothingIsAskedTwice ==
  [][\A c \in Claims, t \in Threads :
       At(c, t, "merge") /\ (thread[c][t].pc = "fetch")'
         => ~(Unforked(Target(c, t).block) /\ Covered(c, Target(c, t)))]_vars

\* Something kept holds a period end that is not that of the chain.
EndIsStale ==
  \/ Cardinality(forks) # 1
  \/ \E c \in Claims :
       LET end == Targets[c][EndBlock(c)]
           old(e) == e # NoEntry /\ e.header \notin Served(end.block)
       IN \/ \E k \in Keys : k.block = end.block /\ old(cache[k])
          \/ IsWhole(c) /\ old(witness[c][EndBlock(c)])

\* Unless an orphaned period end was kept, reruns come to a summary: failures, interrupted
\* writes and rebuilt materializers never leave files that stop every later run, once runs
\* are left in peace (generate-approved-development-proofs.mjs 262-344).
RerunsFinish == <>[]~(upset \/ EndIsStale) => []<>(stage = "summary")

=============================================================================
