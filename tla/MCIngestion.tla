---------------------------- MODULE MCIngestion ----------------------------
(* Ingestion for TLC.  Two uploads reach every way in which the text of    *)
(* one can stand beside, replace or interleave with that of another; every *)
(* overlap below a size up to 5 on texts of up to 17 characters meets the  *)
(* end of a text in every way.  The loop that cuts a text has no await and *)
(* shares nothing with the store, so it runs while no upload has begun,    *)
(* and stands before an empty text afterwards.                             *)
EXTENDS DocumentIndex, Chunker

MCChunkers == {c \in [size : 1..5, overlap : 0..4] : c.overlap < c.size}
MCLengths == 0..17

ChunkerAtRest == length = 0 /\ chunker = [size |-> 1, overlap |-> 0] /\ ~done
UploadsAtRest == restarts = 0 /\ \A u \in Uploads : phase[u] = "idle"

IngestionInit == Init /\ ChunkInit

IngestionNext ==
    \/ ChunkerAtRest /\ Next /\ UNCHANGED chunkVars
    \/ UploadsAtRest /\ ChunkNext /\ UNCHANGED vars

IngestionSpec == IngestionInit /\ [][IngestionNext]_<<vars, chunkVars>>
=============================================================================
