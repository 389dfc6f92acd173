------------------------------ MODULE Chunker ------------------------------
(***************************************************************************)
(* The loop that cuts a document's text into overlapping chunks before     *)
(* they are embedded (Chunker.run, rag/pipeline.py:96-125).  A text is     *)
(* its length, a chunk the interval of positions from..(to - 1) of its     *)
(* slice; its index is its place in the sequence, less one.                *)
(***************************************************************************)
EXTENDS Integers, Sequences

CONSTANTS
    Chunkers,  \* the [size, overlap] a Chunker is built with, 512 and 64 in the code
    Lengths    \* the lengths of the texts

ASSUME ChunkerAssumption ==
    /\ Chunkers \subseteq [size : Nat, overlap : Nat]
    /\ \A c \in Chunkers : c.overlap < c.size
    /\ Lengths \subseteq Nat

VARIABLES
    chunker,  \* self
    length,   \* len(text)
    start,    \* where the next chunk starts
    chunks,   \* the chunks appended so far
    done      \* the loop has ended

chunkVars == <<chunker, length, start, chunks, done>>

-----------------------------------------------------------------------------
end == start + chunker.size

(* text[start:end]: a slice stops at the end of the text. *)
Slice == [from |-> start, to |-> IF end <= length THEN end ELSE length]

(* The chunk that reaches the end of the text is the last. *)
OnlyPastTheEnd == end > length
ReachesTheEnd == end >= length

NextStartWithGap == end + chunker.overlap
NextStart == end - chunker.overlap

Chunk ==
    /\ ~done /\ start < length
    /\ chunks' = Append(chunks, Slice)
    /\ done' = ReachesTheEnd
    /\ start' = IF ReachesTheEnd THEN start ELSE NextStart
    /\ UNCHANGED <<chunker, length>>

(* The condition of the loop is false: an empty text has no chunks. *)
Exit ==
    /\ ~done /\ start >= length
    /\ done' = TRUE
    /\ UNCHANGED <<chunker, length, start, chunks>>

ChunkInit ==
    /\ chunker \in Chunkers
    /\ length \in Lengths
    /\ start = 0
    /\ chunks = <<>>
    /\ done = FALSE

ChunkNext == Chunk \/ Exit

ChunkSpec == ChunkInit /\ [][ChunkNext]_chunkVars

-----------------------------------------------------------------------------
(* Properties                                                              *)

(* Chunks are non-empty intervals of the text. *)
ChunkTypeOK ==
    /\ chunker \in Chunkers
    /\ length \in Lengths
    /\ start \in Nat
    /\ chunks \in Seq([from : Nat, to : Nat])
    /\ \A k \in DOMAIN chunks : chunks[k].from < chunks[k].to /\ chunks[k].to <= length
    /\ done \in BOOLEAN

(* Every position of the text is in some chunk: no sentence is lost to     *)
(* retrieval because it fell between two chunks or after the last one.     *)
ChunksCoverTheText ==
    done => \A i \in 0..(length - 1) :
                \E k \in DOMAIN chunks : chunks[k].from <= i /\ i < chunks[k].to

(* Two neighbours share exactly overlap characters, the last two included, *)
(* so a sentence no longer than that is never split between them; and each *)
(* chunk ends later than the one before it, so that none repeats text that *)
(* is indexed in full (the last one would, without the break) and the loop *)
(* ends after at most as many chunks as there are characters.              *)
NeighboursOverlap ==
    \A k \in 1..(Len(chunks) - 1) :
        /\ chunks[k + 1].from = chunks[k].to - chunker.overlap
        /\ chunks[k].to < chunks[k + 1].to

=============================================================================
