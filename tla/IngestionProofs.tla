-------------------------- MODULE IngestionProofs ---------------------------
(***************************************************************************)
(* Ingestion: the chunks a text is cut into, and the uploads that hand     *)
(* them to the vector store.                                               *)
(*                                                                         *)
(* Chunker: every size and every smaller overlap.  ReachInv keeps how far  *)
(* the chunks reach: everything before that point is covered, and the next *)
(* chunk starts overlap characters short of it.                            *)
(*                                                                         *)
(* DocumentIndex: any number of uploads, tenants, document ids and chunks. *)
(* Each invariant needs to know in which phases an upload can own records  *)
(* and how far it has got.                                                 *)
(***************************************************************************)
EXTENDS Chunker, DocumentIndex, SequenceTheorems, TLAPS

-----------------------------------------------------------------------------
(* Chunker                                                                 *)

Reach == IF chunks = <<>> THEN 0 ELSE chunks[Len(chunks)].to

ReachIsWhereItStopped ==
    /\ chunks = <<>> => start = 0
    /\ ~done /\ chunks # <<>> => start = Reach - chunker.overlap /\ Reach < length
    /\ done => Reach = length

CoveredToReach ==
    \A i \in 0..(Reach - 1) :
        \E k \in DOMAIN chunks : chunks[k].from <= i /\ i < chunks[k].to

ReachInv ==
    /\ ChunkTypeOK
    /\ ReachIsWhereItStopped
    /\ CoveredToReach
    /\ NeighboursOverlap

(* The last element of a sequence of intervals. *)
LEMMA LastInterval ==
    ASSUME NEW s \in Seq([from : Nat, to : Nat]), s # <<>>
    PROVE  s[Len(s)].to \in Nat
<1>1. Len(s) \in Nat /\ Len(s) # 0
  BY LenProperties, EmptySeq
<1>2. s[Len(s)] \in [from : Nat, to : Nat]
  <2>1. Len(s) \in 1..Len(s)
    BY <1>1
  <2> QED
    BY <2>1, ElementOfSeq
<1> QED
  BY <1>2

(* Before a chunk is cut: it starts at most where the chunks reach, ends   *)
(* after that, and ends the text exactly when the loop stops.              *)
LEMMA NextSlice ==
    ASSUME ReachInv, ~done, start < length
    PROVE  /\ chunker.size \in Nat /\ chunker.overlap \in Nat /\ length \in Nat
           /\ chunker.overlap < chunker.size
           /\ Reach \in Nat
           /\ Slice \in [from : Nat, to : Nat]
           /\ Slice.from = start /\ Slice.from < Slice.to /\ Slice.to <= length
           /\ Slice.from <= Reach /\ Reach < Slice.to
           /\ ReachesTheEnd => Slice.to = length
           /\ ~ReachesTheEnd => /\ Slice.to < length
                                /\ NextStart = Slice.to - chunker.overlap
                                /\ NextStart \in Nat
<1>1. chunker.size \in Nat /\ chunker.overlap \in Nat /\ chunker.overlap < chunker.size
  BY ChunkerAssumption DEF ReachInv, ChunkTypeOK
<1>2. length \in Nat /\ start \in Nat
  BY ChunkerAssumption DEF ReachInv, ChunkTypeOK
<1>3. chunks # <<>> => chunks[Len(chunks)].to \in Nat
  BY LastInterval DEF ReachInv, ChunkTypeOK
<1>4. /\ Reach \in Nat
      /\ start <= Reach /\ Reach < start + chunker.size /\ Reach < length
  <2>1. CASE chunks = <<>>
    BY <2>1, <1>1, <1>2 DEF ReachInv, ReachIsWhereItStopped, Reach
  <2>2. CASE chunks # <<>>
    <3>1. Reach \in Nat
      BY <1>3, <2>2 DEF Reach
    <3>2. start = Reach - chunker.overlap /\ Reach < length
      BY <2>2 DEF ReachInv, ReachIsWhereItStopped
    <3> QED
      BY <3>1, <3>2, <1>1, <1>2
  <2> QED
    BY <2>1, <2>2
<1> QED
  BY <1>1, <1>2, <1>4 DEF Slice, end, ReachesTheEnd, NextStart

LEMMA ChunkPreserves == ASSUME ReachInv, Chunk PROVE ReachInv'
<1> USE DEF ReachInv
<1> DEFINE n == Len(chunks)
<1>1. /\ ~done /\ start < length
      /\ chunks' = Append(chunks, Slice)
      /\ done' = ReachesTheEnd
      /\ start' = IF ReachesTheEnd THEN start ELSE NextStart
      /\ chunker' = chunker /\ length' = length
  BY DEF Chunk
<1>2. /\ chunker.size \in Nat /\ chunker.overlap \in Nat /\ length \in Nat
      /\ chunker.overlap < chunker.size
      /\ Reach \in Nat
      /\ Slice \in [from : Nat, to : Nat]
      /\ Slice.from = start /\ Slice.from < Slice.to /\ Slice.to <= length
      /\ Slice.from <= Reach /\ Reach < Slice.to
      /\ ReachesTheEnd => Slice.to = length
      /\ ~ReachesTheEnd => /\ Slice.to < length
                           /\ NextStart = Slice.to - chunker.overlap
                           /\ NextStart \in Nat
  BY <1>1, NextSlice
<1> HIDE DEF ReachInv
<1>a. Slice.from \in Nat /\ Slice.to \in Nat
  BY <1>2
<1>3. /\ chunks \in Seq([from : Nat, to : Nat]) /\ n \in Nat
      /\ start \in Nat /\ chunker \in Chunkers /\ length \in Lengths
      /\ \A k \in 1..n : chunks[k].from < chunks[k].to /\ chunks[k].to <= length
  BY DEF ReachInv, ChunkTypeOK
<1>4. /\ chunks' \in Seq([from : Nat, to : Nat])
      /\ Len(chunks') = n + 1 /\ DOMAIN chunks' = 1..(n + 1)
      /\ chunks'[n + 1] = Slice
      /\ \A k \in 1..n : chunks'[k] = chunks[k]
  BY <1>1, <1>2, <1>3
<1>5. Reach' = Slice.to /\ chunks' # <<>>
  BY <1>3, <1>4 DEF Reach
<1>6. ChunkTypeOK'
  BY <1>1, <1>2, <1>3, <1>4 DEF ChunkTypeOK, ReachesTheEnd
<1>7. ReachIsWhereItStopped'
  BY <1>1, <1>2, <1>5 DEF ReachIsWhereItStopped
<1>8. CoveredToReach'
  <2> SUFFICES ASSUME NEW i \in 0..(Slice.to - 1)
               PROVE  \E k \in 1..(n + 1) : chunks'[k].from <= i /\ i < chunks'[k].to
    BY <1>4, <1>5 DEF CoveredToReach
  <2>1. CASE i < Reach
    <3>0. i \in 0..(Reach - 1) /\ DOMAIN chunks = 1..n
      BY <2>1, <1>a, <1>2, <1>3
    <3>1. PICK k \in 1..n : chunks[k].from <= i /\ i < chunks[k].to
      BY <3>0 DEF ReachInv, CoveredToReach
    <3>2. k \in 1..(n + 1)
      BY <1>3
    <3>3. chunks'[k] = chunks[k]
      BY <1>4
    <3> QED
      BY <3>1, <3>2, <3>3
  <2>2. CASE i >= Reach
    <3>1. Slice.from <= i /\ i < Slice.to
      BY <2>2, <1>a, <1>2
    <3>2. n + 1 \in 1..(n + 1)
      BY <1>3
    <3> QED
      BY <3>1, <3>2, <1>4
  <2> QED
    BY <2>1, <2>2, <1>a, <1>2
<1>9. NeighboursOverlap'
  <2>1. ASSUME NEW k \in 1..(n - 1)
        PROVE  /\ chunks'[k + 1].from = chunks'[k].to - chunker.overlap
               /\ chunks'[k].to < chunks'[k + 1].to
    <3>1. k \in 1..n /\ k + 1 \in 1..n
      BY <1>3
    <3>2. /\ chunks[k + 1].from = chunks[k].to - chunker.overlap
          /\ chunks[k].to < chunks[k + 1].to
      BY <1>3 DEF ReachInv, NeighboursOverlap
    <3>3. chunks'[k] = chunks[k] /\ chunks'[k + 1] = chunks[k + 1]
      BY <3>1, <1>4
    <3> QED
      BY <3>2, <3>3
  <2>2. n > 0 => /\ chunks'[n + 1].from = chunks'[n].to - chunker.overlap
                 /\ chunks'[n].to < chunks'[n + 1].to
    <3> SUFFICES ASSUME n > 0
                 PROVE  /\ Slice.from = chunks[n].to - chunker.overlap
                        /\ chunks[n].to < Slice.to
      <4>1. n > 0 => chunks'[n] = chunks[n]
        BY <1>3, <1>4
      <4> QED
        BY <4>1, <1>4
    <3>1. chunks # <<>> /\ Reach = chunks[n].to
      BY <1>3 DEF Reach
    <3>2. start = Reach - chunker.overlap
      BY <3>1, <1>1 DEF ReachInv, ReachIsWhereItStopped
    <3> QED
      BY <3>1, <3>2, <1>2
  <2>3. ASSUME NEW k \in 1..((n + 1) - 1)
        PROVE  /\ chunks'[k + 1].from = chunks'[k].to - chunker.overlap
               /\ chunks'[k].to < chunks'[k + 1].to
    <3>1. k \in 1..(n - 1) \/ (k = n /\ n > 0)
      BY <1>3
    <3> QED
      BY <3>1, <2>1, <2>2
  <2> QED
    BY <2>3, <1>1, <1>4 DEF NeighboursOverlap
<1> QED
  BY <1>6, <1>7, <1>8, <1>9 DEF ReachInv

(* The loop's condition fails only before the first chunk. *)
LEMMA ExitPreserves == ASSUME ReachInv, Exit PROVE ReachInv'
<1>1. ~done /\ start >= length /\ done'
      /\ UNCHANGED <<chunker, length, start, chunks>>
  BY DEF Exit
<1>2. length \in Nat /\ chunker.overlap \in Nat
  BY ChunkerAssumption DEF ReachInv, ChunkTypeOK
<1>3. chunks = <<>>
  <2> SUFFICES ASSUME chunks # <<>> PROVE FALSE
    OBVIOUS
  <2>1. chunks[Len(chunks)].to \in Nat
    BY LastInterval DEF ReachInv, ChunkTypeOK
  <2>2. Reach \in Nat
    BY <2>1 DEF Reach
  <2>3. start = Reach - chunker.overlap /\ Reach < length
    BY <1>1 DEF ReachInv, ReachIsWhereItStopped
  <2> QED
    BY <1>1, <1>2, <2>2, <2>3
<1>4. length = 0
  BY <1>1, <1>2, <1>3 DEF ReachInv, ReachIsWhereItStopped
<1>5. ChunkTypeOK'
  BY <1>1 DEF ReachInv, ChunkTypeOK
<1>6. ReachIsWhereItStopped' /\ CoveredToReach'
  BY <1>1, <1>3, <1>4 DEF ReachInv, ReachIsWhereItStopped, CoveredToReach, Reach
<1>7. NeighboursOverlap'
  BY <1>1 DEF ReachInv, NeighboursOverlap
<1> QED
  BY <1>5, <1>6, <1>7 DEF ReachInv

LEMMA ReachHolds == ChunkSpec => []ReachInv
<1>1. ChunkInit => ReachInv
  <2> SUFFICES ASSUME ChunkInit PROVE ReachInv
    OBVIOUS
  <2>1. chunks = <<>> /\ start = 0 /\ done = FALSE /\ Len(chunks) = 0
    BY DEF ChunkInit
  <2>2. chunks \in Seq([from : Nat, to : Nat]) /\ DOMAIN chunks = {}
    BY <2>1
  <2>2a. ChunkTypeOK
    <3>1. chunker \in Chunkers /\ length \in Lengths /\ start \in Nat /\ done \in BOOLEAN
      BY DEF ChunkInit
    <3>2. \A k \in DOMAIN chunks : chunks[k].from < chunks[k].to /\ chunks[k].to <= length
      BY <2>2, Zenon
    <3> QED
      BY <3>1, <3>2, <2>2, Zenon DEF ChunkTypeOK
  <2>2b. NeighboursOverlap
    BY <2>1 DEF NeighboursOverlap
  <2>3. ReachIsWhereItStopped /\ CoveredToReach
    BY <2>1 DEF ReachIsWhereItStopped, CoveredToReach, Reach
  <2> QED
    BY <2>2a, <2>2b, <2>3 DEF ReachInv
<1>2. ReachInv /\ [ChunkNext]_chunkVars => ReachInv'
  <2> SUFFICES ASSUME ReachInv, [ChunkNext]_chunkVars PROVE ReachInv'
    OBVIOUS
  <2>1. CASE Chunk
    BY <2>1, ChunkPreserves
  <2>2. CASE Exit
    BY <2>2, ExitPreserves
  <2>3. CASE UNCHANGED chunkVars
    BY <2>3 DEF chunkVars, ReachInv, ChunkTypeOK, ReachIsWhereItStopped, CoveredToReach, Reach,
                NeighboursOverlap
  <2> QED
    BY <2>1, <2>2, <2>3 DEF ChunkNext
<1> QED
  BY <1>1, <1>2, PTL DEF ChunkSpec

-----------------------------------------------------------------------------
(* Every chunk is a non-empty interval of the text. *)
THEOREM ChunkTypeCorrect == ChunkSpec => []ChunkTypeOK
<1>1. ReachInv => ChunkTypeOK
  BY DEF ReachInv
<1> QED
  BY <1>1, ReachHolds, PTL

(* When the loop has ended, no position of the text is outside the chunks. *)
THEOREM NothingIsLost == ChunkSpec => []ChunksCoverTheText
<1>1. ReachInv => ChunksCoverTheText
  BY DEF ReachInv, ReachIsWhereItStopped, CoveredToReach, ChunksCoverTheText
<1> QED
  BY <1>1, ReachHolds, PTL

(* Neighbours share exactly the overlap, and each ends after the last. *)
THEOREM ChunksOverlapAndAdvance == ChunkSpec => []NeighboursOverlap
<1>1. ReachInv => NeighboursOverlap
  BY DEF ReachInv
<1> QED
  BY <1>1, ReachHolds, PTL

-----------------------------------------------------------------------------
(* DocumentIndex                                                           *)

Begun(u) == phase[u] \notin {"idle", "413"}

UploadsAreFixed ==
    \A u \in Uploads :
        /\ Begun(u) => tenant[u] \in Tenants /\ document[u] \in DocumentIds \cup Uploads
        /\ phase[u] = "idle" => next[u] = 0
        /\ next[u] <= size[u]
        /\ phase[u] = "auditing" => next[u] = size[u]

RecordsHaveOwners ==
    \A r \in store :
        /\ tenant[r.upload] = r.tenant /\ document[r.upload] = r.document
        /\ phase[r.upload] \in {"indexing", "auditing", "500", "indexed", "lost"}

SuccessIsIndexed ==
    \A row \in audit : row.outcome = "success" =>
        phase[row.upload] \in {"indexed", "500"} /\ next[row.upload] = size[row.upload]

MemoryKeeps ==
    inMemory => \A u \in Uploads :
        /\ phase[u] # "indexing"
        /\ restarts = 0 /\ phase[u] \in {"auditing", "indexed"} =>
               \A i \in 0..(size[u] - 1) : Record(u, i) \in store

(* Every PUT that was answered stored the chunk or was refused. *)
PutsAreAccounted ==
    ~inMemory => \A u \in Uploads : \A i \in 0..(next[u] - 1) :
        i \in refused[u] \/ Occupied(u, i)

IInv ==
    /\ TypeOK
    /\ UploadsAreFixed
    /\ RecordsHaveOwners
    /\ SuccessIsIndexed
    /\ MemoryKeeps
    /\ PutsAreAccounted

-----------------------------------------------------------------------------
LEMMA InitEstablishes == Init => IInv
BY DocumentAssumption
   DEF Init, IInv, TypeOK, UploadsAreFixed, RecordsHaveOwners, SuccessIsIndexed,
       MemoryKeeps, PutsAreAccounted, Begun, Records

(* A step that only moves an upload to another phase. *)
LEMMA MovePreserves ==
    ASSUME IInv, NEW u \in Uploads, NEW p, Goto(u, p),
           p \in InFlight \cup Answers,
           UNCHANGED <<inMemory, tenant, document, size, next, store, refused, audit, restarts>>,
           phase[u] \notin {"indexed", "413", "500"},
           Begun(u) \/ p = "413",
           phase[u] \in {"idle", "scanning", "rejecting"} \/ p \in {"auditing", "500"},
           p = "auditing" => phase[u] = "indexing" /\ next[u] = size[u],
           p = "indexing" => ~inMemory,
           p # "indexed"
    PROVE  IInv'
<1>1. TypeOK'
  BY DEF IInv, TypeOK, Goto, InFlight, Answers
<1>2. UploadsAreFixed'
  BY DEF IInv, TypeOK, UploadsAreFixed, Begun, Goto, InFlight, Answers
<1>3. RecordsHaveOwners'
  BY DEF IInv, TypeOK, RecordsHaveOwners, Goto, Records
<1>4. SuccessIsIndexed'
  BY DEF IInv, TypeOK, SuccessIsIndexed, Goto
<1>5. MemoryKeeps'
  BY DEF IInv, TypeOK, MemoryKeeps, Goto, Record
<1>6. PutsAreAccounted'
  BY DEF IInv, PutsAreAccounted, Occupied
<1> QED
  BY <1>1, <1>2, <1>3, <1>4, <1>5, <1>6 DEF IInv

LEMMA PostPreserves == ASSUME IInv, NEW u \in Uploads, Post(u) PROVE IInv'
<1>0. PICK t \in Tenants, d \in DocumentIds \cup {u}, n \in 0..MaxChunks :
          /\ phase[u] = "idle" /\ phase' = [phase EXCEPT ![u] = "scanning"]
          /\ tenant' = [tenant EXCEPT ![u] = t]
          /\ document' = [document EXCEPT ![u] = d]
          /\ size' = [size EXCEPT ![u] = n]
          /\ UNCHANGED <<inMemory, next, store, refused, audit, restarts>>
  BY DEF Post, Goto
<1>1. TypeOK'
  BY <1>0 DEF IInv, TypeOK, InFlight
<1>2. UploadsAreFixed'
  BY <1>0, DocumentAssumption DEF IInv, TypeOK, UploadsAreFixed, Begun
<1>3. RecordsHaveOwners'
  BY <1>0 DEF IInv, TypeOK, RecordsHaveOwners, Records
<1>4. SuccessIsIndexed'
  BY <1>0 DEF IInv, TypeOK, SuccessIsIndexed
<1>5. MemoryKeeps'
  BY <1>0 DEF IInv, TypeOK, MemoryKeeps, Record
<1>6. PutsAreAccounted'
  BY <1>0 DEF IInv, TypeOK, UploadsAreFixed, PutsAreAccounted, Occupied
<1> QED
  BY <1>1, <1>2, <1>3, <1>4, <1>5, <1>6 DEF IInv

LEMMA IndexInMemoryPreserves ==
    ASSUME IInv, NEW u \in Uploads, IndexInMemory(u) PROVE IInv'
<1>0. /\ inMemory /\ phase[u] = "scanning" /\ phase' = [phase EXCEPT ![u] = "auditing"]
      /\ store' = store \cup {Record(u, i) : i \in 0..(size[u] - 1)}
      /\ next' = [next EXCEPT ![u] = size[u]]
      /\ UNCHANGED <<inMemory, tenant, document, size, refused, audit, restarts>>
  BY DEF IndexInMemory, Extended, Goto
<1>a. /\ tenant[u] \in Tenants /\ document[u] \in DocumentIds \cup Uploads
      /\ size[u] \in 0..MaxChunks
  BY <1>0 DEF IInv, TypeOK, UploadsAreFixed, Begun
<1>b. \A i \in 0..(size[u] - 1) : Record(u, i) \in Records
  BY <1>a, DocumentAssumption DEF Record, Records
<1>1. TypeOK'
  BY <1>0, <1>b DEF IInv, TypeOK, InFlight
<1>2. UploadsAreFixed'
  BY <1>0, DocumentAssumption DEF IInv, TypeOK, UploadsAreFixed, Begun
<1>3. RecordsHaveOwners'
  <2> SUFFICES ASSUME NEW r \in store'
               PROVE  /\ tenant'[r.upload] = r.tenant /\ document'[r.upload] = r.document
                      /\ phase'[r.upload] \in {"indexing", "auditing", "500", "indexed", "lost"}
    BY DEF RecordsHaveOwners
  <2>1. CASE r \in store
    BY <2>1, <1>0 DEF IInv, TypeOK, RecordsHaveOwners, Records
  <2>2. CASE \E i \in 0..(size[u] - 1) : r = Record(u, i)
    BY <2>2, <1>0 DEF IInv, TypeOK, Record
  <2> QED
    BY <2>1, <2>2, <1>0
<1>4. SuccessIsIndexed'
  BY <1>0 DEF IInv, TypeOK, SuccessIsIndexed
<1>5. MemoryKeeps'
  BY <1>0 DEF IInv, TypeOK, MemoryKeeps, Record
<1>6. PutsAreAccounted'
  BY <1>0 DEF PutsAreAccounted
<1> QED
  BY <1>1, <1>2, <1>3, <1>4, <1>5, <1>6 DEF IInv

(* A PUT, applied or not, adds at most one record, of the upload itself. *)
LEMMA PutKeepsOwners ==
    ASSUME IInv, NEW u \in Uploads, phase[u] = "indexing", ~AllPut(u),
           store' \in {Stored(u), store}, tenant' = tenant, document' = document,
           NEW p \in {"indexing", "500"}, Goto(u, p)
    PROVE  /\ next[u] + 1 <= size[u] /\ size[u] \in 0..MaxChunks /\ next[u] \in Nat
           /\ store' \subseteq Records
           /\ RecordsHaveOwners'
<1>1. /\ next[u] + 1 <= size[u] /\ size[u] \in 0..MaxChunks /\ next[u] \in Nat
      /\ tenant[u] \in Tenants /\ document[u] \in DocumentIds \cup Uploads
  BY DocumentAssumption DEF IInv, TypeOK, UploadsAreFixed, Begun, AllPut
<1>2. Record(u, next[u]) \in Records
  BY <1>1, DocumentAssumption DEF Record, Records
<1>3. \A r \in store' : r \in store \/ r = Record(u, next[u])
  BY DEF Stored, Replaced
<1>4. store' \subseteq Records
  BY <1>2, <1>3 DEF IInv, TypeOK
<1>5. RecordsHaveOwners'
  <2> SUFFICES ASSUME NEW r \in store'
               PROVE  /\ tenant'[r.upload] = r.tenant /\ document'[r.upload] = r.document
                      /\ phase'[r.upload] \in {"indexing", "auditing", "500", "indexed", "lost"}
    BY DEF RecordsHaveOwners
  <2>1. CASE r \in store
    BY <2>1 DEF IInv, TypeOK, RecordsHaveOwners, Records, Goto
  <2>2. CASE r = Record(u, next[u])
    BY <2>2 DEF IInv, TypeOK, Record, Goto
  <2> QED
    BY <2>1, <2>2, <1>3
<1> QED
  BY <1>1, <1>4, <1>5

LEMMA PutPreserves ==
    ASSUME IInv, NEW u \in Uploads, PutAnswered(u) \/ PutRaises(u) PROVE IInv'
<1>0. /\ phase[u] = "indexing" /\ ~AllPut(u) /\ store' \in {Stored(u), store}
      /\ UNCHANGED <<inMemory, tenant, document, size, audit, restarts>>
  BY Zenon DEF PutAnswered, PutRaises
<1>a. refused' \in {[refused EXCEPT ![u] = @ \cup {next[u]}], refused}
  BY Zenon DEF PutAnswered, PutRaises
<1>b. PutAnswered(u) => store' = Stored(u) \/ refused' = [refused EXCEPT ![u] = @ \cup {next[u]}]
  BY Zenon DEF PutAnswered
<1>1. PICK p \in {"indexing", "500"} :
          /\ phase' = [phase EXCEPT ![u] = p]
          /\ next' = [next EXCEPT ![u] = IF p = "500" THEN @ ELSE @ + 1]
          /\ p = "indexing" => PutAnswered(u)
  <2>1. CASE PutAnswered(u)
    <3>1. phase' = [phase EXCEPT ![u] = "indexing"]
      BY <2>1 DEF PutAnswered, IInv, TypeOK
    <3> QED
      BY <2>1, <3>1 DEF PutAnswered
  <2>2. CASE PutRaises(u)
    <3>1. next' = [next EXCEPT ![u] = @]
      BY <2>2 DEF PutRaises, IInv, TypeOK
    <3> QED
      BY <2>2, <3>1 DEF PutRaises, Goto
  <2> QED
    BY <2>1, <2>2
<1>2. /\ next[u] + 1 <= size[u] /\ size[u] \in 0..MaxChunks /\ next[u] \in Nat
      /\ store' \subseteq Records
      /\ RecordsHaveOwners'
  BY <1>0, <1>1, PutKeepsOwners DEF Goto
<1>c. next[u] \in 0..(MaxChunks - 1)
  BY <1>0, <1>2, DocumentAssumption DEF IInv, TypeOK
<1>d. refused' \in [Uploads -> SUBSET (0..(MaxChunks - 1))]
  BY <1>a, <1>c DEF IInv, TypeOK
<1>e. phase' \in [Uploads -> {"idle"} \cup InFlight \cup Answers]
  BY <1>1 DEF IInv, TypeOK, InFlight, Answers
<1>f. next' \in [Uploads -> 0..MaxChunks]
  <2>1. next'[u] \in 0..MaxChunks /\ next' \in [Uploads -> Int]
    BY <1>1, <1>c, DocumentAssumption DEF IInv, TypeOK
  <2>2. \A v \in Uploads \ {u} : next'[v] = next[v]
    BY <1>1 DEF IInv, TypeOK
  <2> QED BY <2>1, <2>2 DEF IInv, TypeOK
<1>3. TypeOK'
  BY <1>0, <1>2, <1>d, <1>e, <1>f DEF IInv, TypeOK
<1>4. UploadsAreFixed'
  BY <1>0, <1>1, <1>2 DEF IInv, TypeOK, UploadsAreFixed, Begun
<1>5. SuccessIsIndexed'
  BY <1>0, <1>1 DEF IInv, TypeOK, SuccessIsIndexed
<1>6. MemoryKeeps'
  BY <1>0 DEF IInv, MemoryKeeps
<1>7. ASSUME NEW v \in Uploads, NEW i \in 0..(MaxChunks - 1), Occupied(v, i)
      PROVE  Occupied(v, i)'
  <2>1. PICK r \in store : r.document = document[v] /\ r.index = i
    BY <1>7 DEF Occupied
  <2>2. r \in store' \/ (Record(u, next[u]) \in store' /\ r \in Replaced(u, next[u]))
    BY <1>0 DEF Stored
  <2>3. CASE r \in store'
    BY <2>1, <2>3, <1>0 DEF Occupied
  <2>4. CASE Record(u, next[u]) \in store' /\ r \in Replaced(u, next[u])
    <3>1. document[v] = document[u] /\ i = next[u]
      BY <2>1, <2>4 DEF Replaced
    <3> QED
      BY <2>4, <3>1, <1>0 DEF Occupied, Record
  <2> QED
    BY <2>2, <2>3, <2>4
<1>8. PutsAreAccounted'
  <2> SUFFICES ASSUME ~inMemory, NEW v \in Uploads, NEW i \in 0..(next'[v] - 1)
               PROVE  i \in refused'[v] \/ Occupied(v, i)'
    BY <1>0 DEF PutsAreAccounted
  <2>1. i \in 0..(MaxChunks - 1) /\ next[v] \in Nat
    BY <1>3, DocumentAssumption DEF IInv, TypeOK
  <2>2. CASE i < next[v]
    <3>1. i \in refused[v] \/ Occupied(v, i)
      BY <2>1, <2>2 DEF IInv, PutsAreAccounted
    <3>2. i \in refused[v] => i \in refused'[v]
      BY <1>a DEF IInv, TypeOK
    <3> QED
      BY <2>1, <3>1, <3>2, <1>7
  <2>3. CASE i >= next[v]
    <3>1. v = u /\ i = next[u] /\ PutAnswered(u)
      BY <1>1, <2>1, <2>3 DEF IInv, TypeOK
    <3>2. CASE refused' = [refused EXCEPT ![u] = @ \cup {next[u]}]
      BY <3>1, <3>2 DEF IInv, TypeOK
    <3>3. CASE store' = Stored(u)
      <4>1. Record(u, next[u]) \in store'
        BY <3>3 DEF Stored
      <4> QED
        BY <3>1, <4>1, <1>0 DEF Occupied, Record
    <3> QED
      BY <3>1, <3>2, <3>3, <1>b
  <2> QED
    BY <2>1, <2>2, <2>3
<1> QED
  BY <1>2, <1>3, <1>4, <1>5, <1>6, <1>8 DEF IInv

LEMMA AuditPreserves ==
    ASSUME IInv, NEW u \in Uploads, AuditRejected(u) \/ AuditIndexed(u) PROVE IInv'
<1>0. PICK row \in [upload : {u}, outcome : {"success", "error"}],
           a \in {"422", "indexed", "500"} :
          /\ phase' = [phase EXCEPT ![u] = a]
          /\ audit' = audit \cup {row}
          /\ row.outcome = "success" => phase[u] = "auditing" /\ a \in {"indexed", "500"}
          /\ phase[u] \in {"rejecting", "auditing"}
          /\ a = "indexed" => phase[u] = "auditing"
          /\ a = "422" => phase[u] = "rejecting"
          /\ UNCHANGED <<inMemory, tenant, document, size, next, store, refused, restarts>>
  <2>1. ASSUME NEW p \in {"rejecting", "auditing"}, NEW o \in {"success", "error"},
               NEW answer \in {"422", "indexed"}, AuditCommits(u, p, o, answer)
        PROVE  \E a \in {answer, "500"} :
                  /\ phase' = [phase EXCEPT ![u] = a]
                  /\ phase[u] = p
                  /\ audit' = audit \cup {[upload |-> u, outcome |-> o]}
                  /\ UNCHANGED <<inMemory, tenant, document, size, next, store, refused, restarts>>
    BY <2>1, Zenon DEF AuditCommits, Goto
  <2>2. CASE AuditRejected(u)
    <3>1. PICK a \in {"422", "500"} :
                  /\ phase' = [phase EXCEPT ![u] = a]
                  /\ phase[u] = "rejecting"
                  /\ audit' = audit \cup {[upload |-> u, outcome |-> "error"]}
                  /\ UNCHANGED <<inMemory, tenant, document, size, next, store, refused, restarts>>
      BY <2>1, <2>2, Zenon DEF AuditRejected
    <3> WITNESS [upload |-> u, outcome |-> "error"] \in [upload : {u}, outcome : {"success", "error"}],
                a \in {"422", "indexed", "500"}
    <3> QED
      BY <3>1
  <2>3. CASE AuditIndexed(u)
    <3>1. PICK a \in {"indexed", "500"} :
                  /\ phase' = [phase EXCEPT ![u] = a]
                  /\ phase[u] = "auditing"
                  /\ audit' = audit \cup {[upload |-> u, outcome |-> "success"]}
                  /\ UNCHANGED <<inMemory, tenant, document, size, next, store, refused, restarts>>
      BY <2>1, <2>3, Zenon DEF AuditIndexed
    <3> WITNESS [upload |-> u, outcome |-> "success"] \in [upload : {u}, outcome : {"success", "error"}],
                a \in {"422", "indexed", "500"}
    <3> QED
      BY <3>1
  <2> QED
    BY <2>2, <2>3
<1>1. TypeOK'
  BY <1>0 DEF IInv, TypeOK, Answers
<1>2. UploadsAreFixed'
  BY <1>0 DEF IInv, TypeOK, UploadsAreFixed, Begun
<1>3. RecordsHaveOwners'
  BY <1>0 DEF IInv, TypeOK, RecordsHaveOwners, Records
<1>4. SuccessIsIndexed'
  BY <1>0 DEF IInv, TypeOK, SuccessIsIndexed, UploadsAreFixed
<1>5. MemoryKeeps'
  BY <1>0 DEF IInv, TypeOK, MemoryKeeps, Record
<1>6. PutsAreAccounted'
  BY <1>0 DEF IInv, PutsAreAccounted, Occupied
<1> QED
  BY <1>1, <1>2, <1>3, <1>4, <1>5, <1>6 DEF IInv

LEMMA RestartPreserves == ASSUME IInv, Restart PROVE IInv'
<1>0. /\ restarts \in Nat /\ restarts < MaxRestarts /\ restarts' = restarts + 1
      /\ phase' = [u \in Uploads |-> IF phase[u] \in InFlight THEN "lost" ELSE phase[u]]
      /\ store' \subseteq store
      /\ UNCHANGED <<inMemory, tenant, document, size, next, refused, audit>>
  BY DEF Restart, IInv, TypeOK
<1>1. TypeOK'
  BY <1>0, DocumentAssumption DEF IInv, TypeOK, Answers
<1>2. UploadsAreFixed'
  BY <1>0 DEF IInv, TypeOK, UploadsAreFixed, Begun, InFlight
<1>3. RecordsHaveOwners'
  BY <1>0 DEF IInv, TypeOK, RecordsHaveOwners, Records, InFlight
<1>4. SuccessIsIndexed'
  BY <1>0 DEF IInv, TypeOK, SuccessIsIndexed, InFlight
<1>5. MemoryKeeps'
  BY <1>0 DEF IInv, TypeOK, MemoryKeeps, InFlight
<1>6. PutsAreAccounted'
  BY <1>0, DocumentAssumption DEF Restart, IInv, PutsAreAccounted, Occupied
<1> QED
  BY <1>1, <1>2, <1>3, <1>4, <1>5, <1>6 DEF IInv

LEMMA Inductive == Spec => []IInv
<1>1. IInv /\ [Next]_vars => IInv'
  <2> SUFFICES ASSUME IInv, [Next]_vars PROVE IInv'
    OBVIOUS
  <2>1. CASE Restart
    BY <2>1, RestartPreserves
  <2>2. ASSUME NEW u \in Uploads, TooLarge(u) PROVE IInv'
    BY <2>2, MovePreserves DEF TooLarge, Answers, Begun
  <2>3. ASSUME NEW u \in Uploads, Post(u) PROVE IInv'
    BY <2>3, PostPreserves
  <2>4. ASSUME NEW u \in Uploads, Reject(u) PROVE IInv'
    BY <2>4, MovePreserves DEF Reject, InFlight, Begun
  <2>5. ASSUME NEW u \in Uploads, IndexInMemory(u) PROVE IInv'
    BY <2>5, IndexInMemoryPreserves
  <2>6. ASSUME NEW u \in Uploads, Embed(u) PROVE IInv'
    BY <2>6, MovePreserves DEF Embed, InFlight, Begun
  <2>7. ASSUME NEW u \in Uploads, PutAnswered(u) \/ PutRaises(u) PROVE IInv'
    BY <2>7, PutPreserves
  <2>8. ASSUME NEW u \in Uploads, Upserted(u) PROVE IInv'
    BY <2>8, MovePreserves DEF Upserted, AllPut, InFlight, Begun
  <2>9. ASSUME NEW u \in Uploads, AuditRejected(u) \/ AuditIndexed(u) PROVE IInv'
    BY <2>9, AuditPreserves
  <2>10. ASSUME NEW u \in Uploads, AuditRaises(u) PROVE IInv'
    BY <2>10, MovePreserves DEF AuditRaises, Answers, Begun
  <2>11. CASE UNCHANGED vars
    BY <2>11 DEF vars, IInv, TypeOK, UploadsAreFixed, RecordsHaveOwners, SuccessIsIndexed,
                 MemoryKeeps, PutsAreAccounted, Occupied, Begun, Record
  <2> QED
    BY <2>1, <2>2, <2>3, <2>4, <2>5, <2>6, <2>7, <2>8, <2>9, <2>10, <2>11 DEF Next, Serve
<1> QED
  BY <1>1, InitEstablishes, PTL DEF Spec

-----------------------------------------------------------------------------
(* The uploads, the store and the audit rows stay within what they hold. *)
THEOREM TypeCorrect == Spec => []TypeOK
<1>1. IInv => TypeOK
  BY DEF IInv
<1> QED
  BY <1>1, Inductive, PTL

(* A search finds only what a principal of its tenant uploaded. *)
THEOREM SearchStaysInTenant == Spec => []HitsAreOfOwnTenant
<1>1. IInv => HitsAreOfOwnTenant
  BY DEF IInv, RecordsHaveOwners, HitsAreOfOwnTenant, Hits
<1> QED
  BY <1>1, Inductive, PTL

(* A refused file leaves nothing in the store. *)
THEOREM RefusedLeavesNoText == Spec => []RejectedIsNotFound
<1>1. IInv => RejectedIsNotFound
  BY DEF IInv, RecordsHaveOwners, RejectedIsNotFound
<1> QED
  BY <1>1, Inductive, PTL

(* A success row is only written after the last PUT was answered, and a    *)
(* record of OpenSearch goes only where another takes its place.           *)
THEOREM AuditedStoredOrRefused == Spec => []AuditedIsStoredOrRefused
<1>1. IInv => AuditedIsStoredOrRefused
  BY DEF IInv, TypeOK, SuccessIsIndexed, PutsAreAccounted, AuditedIsStoredOrRefused
<1> QED
  BY <1>1, Inductive, PTL

(* The memory store keeps what was indexed until the process restarts. *)
THEOREM MemoryFindsIndexed == Spec => []IndexedIsFound
<1>1. IInv => IndexedIsFound
  <2> SUFFICES ASSUME IInv, inMemory, restarts = 0,
                      NEW u \in Uploads, phase[u] = "indexed",
                      NEW i \in 0..(size[u] - 1)
               PROVE  Record(u, i) \in Hits(tenant[u], {document[u]})
    BY DEF IndexedIsFound
  <2>1. Record(u, i) \in store
    BY DEF IInv, MemoryKeeps
  <2> QED
    BY <2>1 DEF Hits, Allowed, Record
<1> QED
  BY <1>1, Inductive, PTL
(* What the boundary between tenants in OpenSearch rests on: as long as no *)
(* two tenants' uploads choose one document id, no tenant's upload takes   *)
(* another's record away, however the uploads interleave and whichever     *)
(* PUTs are refused or lost (vectorstore.py:92, pipeline.py:154).          *)
IdsDivideTenants ==
    \A u, v \in Uploads :
        Begun(u) /\ Begun(v) /\ document[u] = document[v] => tenant[u] = tenant[v]

THEOREM OwnIdsKeepTenantsApart ==
    Spec /\ []IdsDivideTenants => OtherTenantsKeepTheirChunks
<1> DEFINE KeepsOthers ==
        \A r \in store \ store' :
            inMemory \/ \E u \in Uploads : phase[u] = "indexing" /\ tenant[u] = r.tenant
<1>1. IInv /\ IdsDivideTenants /\ [Next]_vars => [KeepsOthers]_vars
  <2> SUFFICES ASSUME IInv, IdsDivideTenants, Next,
                      NEW r \in store \ store', ~inMemory
               PROVE  \E u \in Uploads : phase[u] = "indexing" /\ tenant[u] = r.tenant
    OBVIOUS
  <2>1. PICK u \in Uploads : PutAnswered(u) \/ PutRaises(u)
    <3>1. store' # store
      OBVIOUS
    <3> QED
      BY <3>1 DEF Next, Restart, TooLarge, Post, Serve, Reject, IndexInMemory, Embed, Upserted,
         AuditRejected, AuditIndexed, AuditCommits, AuditRaises
  <2>2. phase[u] = "indexing" /\ store' = Stored(u)
    BY <2>1 DEF PutAnswered, PutRaises
  <2>3. r.document = document[u]
    BY <2>2 DEF Stored, Replaced
  <2>4. /\ r.upload \in Uploads /\ Begun(r.upload) /\ Begun(u)
        /\ tenant[r.upload] = r.tenant /\ document[r.upload] = r.document
    BY <2>2 DEF IInv, TypeOK, RecordsHaveOwners, Records, Begun
  <2>5. tenant[u] = r.tenant
    BY <2>3, <2>4 DEF IdsDivideTenants
  <2> QED
    BY <2>2, <2>5
<1> QED
  BY <1>1, Inductive, PTL DEF Spec, OtherTenantsKeepTheirChunks
=============================================================================
