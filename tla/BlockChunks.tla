----------------------------- MODULE BlockChunks -----------------------------
(***************************************************************************)
(* How a seller proof commits to the blocks it used: references in chunks  *)
(* under a Merkle root (predicate/src/seller.rs), the file a publisher     *)
(* makes of them (scripts/generate-block-authentication-chunks.mjs), and   *)
(* the check whoever authenticates a chunk makes.  A hash is what was      *)
(* hashed; levels are built as those of a bundle are.                      *)
(***************************************************************************)
EXTENDS MerkleTree, SequencesExt

CONSTANT ChunkSize \* BLOCK_AUTHENTICATION_CHUNK_SIZE

ASSUME ChunkSizeAssumption == ChunkSize \in Nat \ {0}

\* The chunks of a list of references, in order.
Chunked(refs) ==
  [n \in 1 .. (Len(refs) + ChunkSize - 1) \div ChunkSize |->
     SubSeq(refs, (n - 1) * ChunkSize + 1,
            IF n * ChunkSize < Len(refs) THEN n * ChunkSize ELSE Len(refs))]

\* Mutant of ChunkLeaf: the index is not hashed.
ChunkLeafAnywhere(index, refs) == <<"chunk", 0, refs>>

ChunkLeaf(index, refs) == <<"chunk", index, refs>>

Leaves(refs) == [n \in DOMAIN Chunked(refs) |-> ChunkLeaf(n - 1, Chunked(refs)[n])]

ChunkRoot(refs) == RootOf(Leaves(refs))

\* At each level the node beside, or the node itself where there is none.
ChunkProof(leaves, index) ==
  [h \in 1 .. Height(leaves) |->
     LET level == LevelAbove(leaves, h - 1) IN level[Beside(level, Place(index, h - 1)) + 1]]

\* References the chunks are made of: numbers strictly increase.
InOrder(refs) == \A i \in 1 .. Len(refs) - 1 : refs[i].number < refs[i + 1].number

AuthenticationChunks(refs) ==
  [n \in DOMAIN Chunked(refs) |->
     [index |-> n - 1, references |-> Chunked(refs)[n],
      proof |-> ChunkProof(Leaves(refs), n - 1)]]

\* Where a chunk's path leads: the parity of the index says on which side a sibling is.
ClimbFrom(chunk) ==
  Climb(ChunkLeaf(chunk.index, chunk.references),
        [h \in 1 .. Len(chunk.proof) |->
           [node |-> chunk.proof[h], left |-> Place(chunk.index, h - 1) % 2 = 1]])

VerifyChunk(root, chunk) ==
  /\ Len(chunk.references) \in 1 .. ChunkSize
  /\ InOrder(chunk.references)
  /\ ClimbFrom(chunk) = root

\* What the chunks file is made from is checked for: chunks in order, none empty or too large,
\* references strictly increasing throughout, and as many as the artifact says.
ChunksFileAccepted(chunks, count) ==
  LET references == FlattenSeq([n \in DOMAIN chunks |-> chunks[n].references])
  IN /\ \A n \in DOMAIN chunks :
          chunks[n].index = n - 1 /\ Len(chunks[n].references) \in 1 .. ChunkSize
     /\ InOrder(references)
     /\ Len(references) = count

=============================================================================
