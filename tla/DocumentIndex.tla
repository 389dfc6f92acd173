--------------------------- MODULE DocumentIndex ---------------------------
(***************************************************************************)
(* Concurrent document uploads and the vector store they fill              *)
(* (api/v1/endpoints/documents.py, rag/pipeline.py, rag/vectorstore.py),   *)
(* and what a search of that store returns.  A document is its id and the  *)
(* number of its chunks; the steps of the pipeline between two awaits are  *)
(* one action.  OpenSearch and the audit database are external: a call may *)
(* be answered, refused or lost, and a lost PUT may have been applied.     *)
(***************************************************************************)
EXTENDS Naturals

CONSTANTS
    Uploads,      \* the requests
    Tenants,
    DocumentIds,  \* the ids clients choose; without one an upload makes its own
    MaxChunks,    \* the most chunks a document has
    MaxRestarts,  \* bound on the restarts
    Absent        \* the value None

ASSUME DocumentAssumption ==
    /\ MaxChunks \in Nat /\ MaxRestarts \in Nat
    /\ DocumentIds \cap Uploads = {}

VARIABLES
    inMemory,  \* the store: settings.vector_store is not "opensearch"
    phase,     \* where each upload is, or how it was answered
    tenant,    \* principal.tenant_id
    document,  \* doc_id
    size,      \* the number of chunks of the text
    next,      \* the chunks handed to the store so far
    store,     \* the records of the vector store
    refused,   \* history: the chunks whose PUT was answered with an error
    audit,     \* the document.ingest rows committed: upload and outcome
    restarts

vars == <<inMemory, phase, tenant, document, size, next, store, refused, audit, restarts>>

Answers == {"413", "422", "500", "indexed", "lost"}
InFlight == {"scanning", "rejecting", "indexing", "auditing"}

(* The id of a record names no upload and no tenant, but the memory store  *)
(* keeps every record it is given.                                         *)
RecordWithoutTenant(u, i) ==
    [upload |-> u, tenant |-> CHOOSE t \in Tenants : TRUE, document |-> document[u], index |-> i]
Record(u, i) == [upload |-> u, tenant |-> tenant[u], document |-> document[u], index |-> i]

Records == [upload : Uploads, tenant : Tenants, document : DocumentIds \cup Uploads,
            index : 0..(MaxChunks - 1)]

-----------------------------------------------------------------------------
(* Searching                                                               *)

(* Both stores filter alike: an empty list of ids filters nothing, as None *)
(* does.                                                                   *)
Allowed(r, allowed) == allowed \in {Absent, {}} \/ r.document \in allowed

Hits(t, allowed) == {r \in store : r.tenant = t /\ Allowed(r, allowed)}

-----------------------------------------------------------------------------
(* Uploading                                                               *)

Goto(u, p) == phase' = [phase EXCEPT ![u] = p]

TooLarge(u) ==
    /\ phase[u] = "idle"
    /\ Goto(u, "413")
    /\ UNCHANGED <<inMemory, tenant, document, size, next, store, refused, audit, restarts>>

Post(u) ==
    /\ phase[u] = "idle"
    /\ \E t \in Tenants, d \in DocumentIds \cup {u}, n \in 0..MaxChunks :
           /\ tenant' = [tenant EXCEPT ![u] = t]
           /\ document' = [document EXCEPT ![u] = d]
           /\ size' = [size EXCEPT ![u] = n]
    /\ Goto(u, "scanning")
    /\ UNCHANGED <<inMemory, next, store, refused, audit, restarts>>

(* The parser raises IngestionError on a file type it does not know. *)
RejectAfterIndexing(u) ==
    /\ phase[u] = "scanning"
    /\ Goto(u, "rejecting")
    /\ store' = store \cup {Record(u, i) : i \in 0..(size[u] - 1)}
    /\ UNCHANGED <<inMemory, tenant, document, size, next, refused, audit, restarts>>
Reject(u) ==
    /\ phase[u] = "scanning"
    /\ Goto(u, "rejecting")
    /\ UNCHANGED <<inMemory, tenant, document, size, next, store, refused, audit, restarts>>

(* Parsing, classifying, chunking and embedding do not wait, and neither   *)
(* does the memory store: it extends its list at once.                     *)
ReplacedById(u) ==
    {r \in store : r.document # document[u]} \cup {Record(u, i) : i \in 0..(size[u] - 1)}
Extended(u) == store \cup {Record(u, i) : i \in 0..(size[u] - 1)}

IndexInMemory(u) ==
    /\ inMemory
    /\ phase[u] = "scanning"
    /\ store' = Extended(u)
    /\ next' = [next EXCEPT ![u] = size[u]]
    /\ Goto(u, "auditing")
    /\ UNCHANGED <<inMemory, tenant, document, size, refused, audit, restarts>>

Embed(u) ==
    /\ ~inMemory
    /\ phase[u] = "scanning"
    /\ Goto(u, "indexing")
    /\ UNCHANGED <<inMemory, tenant, document, size, next, store, refused, audit, restarts>>

(* One PUT to /_doc/<document id>:<index>, which replaces that record. *)
Replaced(u, i) == {r \in store : r.document = document[u] /\ r.index = i}
Stored(u) == (store \ Replaced(u, next[u])) \cup {Record(u, next[u])}

AllButOnePut(u) == next[u] + 1 >= size[u]
AllPut(u) == next[u] = size[u]

(* The response is not looked at: a refused PUT counts as one that stored. *)
PutAnswered(u) ==
    /\ phase[u] = "indexing" /\ ~AllPut(u)
    /\ \/ store' = Stored(u) /\ UNCHANGED refused
       \/ store' = store /\ refused' = [refused EXCEPT ![u] = @ \cup {next[u]}]
    /\ next' = [next EXCEPT ![u] = @ + 1]
    /\ UNCHANGED <<inMemory, phase, tenant, document, size, audit, restarts>>

(* A timeout or a broken connection raises: no audit, no clean-up. *)
PutRaises(u) ==
    /\ phase[u] = "indexing" /\ ~AllPut(u)
    /\ store' \in {Stored(u), store}
    /\ Goto(u, "500")
    /\ UNCHANGED <<inMemory, tenant, document, size, next, refused, audit, restarts>>

Upserted(u) ==
    /\ phase[u] = "indexing" /\ AllPut(u)
    /\ Goto(u, "auditing")
    /\ UNCHANGED <<inMemory, tenant, document, size, next, store, refused, audit, restarts>>

(* record(...), then the response; the commit may raise once applied.      *)
AuditCommits(u, p, outcome, answer) ==
    /\ phase[u] = p
    /\ audit' = audit \cup {[upload |-> u, outcome |-> outcome]}
    /\ Goto(u, answer) \/ Goto(u, "500")
    /\ UNCHANGED <<inMemory, tenant, document, size, next, store, refused, restarts>>

AuditRejected(u) == AuditCommits(u, "rejecting", "error", "422")
AuditIndexed(u) == AuditCommits(u, "auditing", "success", "indexed")

AuditRaises(u) ==
    /\ phase[u] \in {"rejecting", "auditing"}
    /\ Goto(u, "500")
    /\ UNCHANGED <<inMemory, tenant, document, size, next, store, refused, audit, restarts>>

(* The process stops: its requests are lost, and the memory store with it. *)
Restart ==
    /\ restarts < MaxRestarts
    /\ restarts' = restarts + 1
    /\ phase' = [u \in Uploads |-> IF phase[u] \in InFlight THEN "lost" ELSE phase[u]]
    /\ store' = IF inMemory THEN {} ELSE store
    /\ UNCHANGED <<inMemory, tenant, document, size, next, refused, audit>>

Init ==
    /\ inMemory \in BOOLEAN
    /\ phase = [u \in Uploads |-> "idle"]
    /\ tenant = [u \in Uploads |-> Absent]
    /\ document = [u \in Uploads |-> Absent]
    /\ size = [u \in Uploads |-> 0]
    /\ next = [u \in Uploads |-> 0]
    /\ store = {}
    /\ refused = [u \in Uploads |-> {}]
    /\ audit = {}
    /\ restarts = 0

Serve(u) ==
    \/ Reject(u) \/ IndexInMemory(u) \/ Embed(u)
    \/ PutAnswered(u) \/ PutRaises(u) \/ Upserted(u)
    \/ AuditRejected(u) \/ AuditIndexed(u) \/ AuditRaises(u)

Next == Restart \/ \E u \in Uploads : TooLarge(u) \/ Post(u) \/ Serve(u)

Spec == Init /\ [][Next]_vars

-----------------------------------------------------------------------------
(* Properties                                                              *)

(* The uploads, the store and the audit rows stay within what they hold. *)
TypeOK ==
    /\ inMemory \in BOOLEAN
    /\ phase \in [Uploads -> {"idle"} \cup InFlight \cup Answers]
    /\ tenant \in [Uploads -> Tenants \cup {Absent}]
    /\ document \in [Uploads -> DocumentIds \cup Uploads \cup {Absent}]
    /\ size \in [Uploads -> 0..MaxChunks]
    /\ next \in [Uploads -> 0..MaxChunks]
    /\ store \subseteq Records
    /\ refused \in [Uploads -> SUBSET (0..(MaxChunks - 1))]
    /\ audit \subseteq [upload : Uploads, outcome : {"success", "error"}]
    /\ restarts \in 0..MaxRestarts

(* However uploads of the same document id by several tenants interleave,  *)
(* a search finds only text that a principal of that tenant uploaded.      *)
HitsAreOfOwnTenant ==
    \A t \in Tenants : \A r \in Hits(t, Absent) : tenant[r.upload] = t

(* A file that is refused leaves no text to find, from the moment it is    *)
(* refused and while its audit row is still being written.                 *)
RejectedIsNotFound ==
    \A u \in Uploads : phase[u] \in {"413", "422", "rejecting"} =>
        \A r \in store : r.upload # u

(* A chunk's place in OpenSearch: its document id and its index. *)
Occupied(u, i) == \E r \in store : r.document = document[u] /\ r.index = i

(* What a success row of the audit says of OpenSearch: every chunk of the  *)
(* document has its record there, this upload's or that of another under   *)
(* the same id, unless OpenSearch refused that very chunk.  The row is     *)
(* written an await per chunk after the first PUT, with other uploads,     *)
(* errors and restarts between them (vectorstore.py:91-101).               *)
AuditedIsStoredOrRefused ==
    ~inMemory =>
        \A row \in audit : row.outcome = "success" =>
            \A i \in 0..(size[row.upload] - 1) :
                i \in refused[row.upload] \/ Occupied(row.upload, i)

(* With the memory store, until the process restarts, a document answered  *)
(* as indexed is found in full, whatever other uploads do at the same time *)
(* or later, unless its tenant uploads that document again.                *)
IndexedIsFound ==
    inMemory /\ restarts = 0 =>
        \A u \in Uploads :
            /\ phase[u] = "indexed"
            /\ \A v \in Uploads \ {u} : tenant[v] # tenant[u] \/ document[v] # document[u]
            => \A i \in 0..(size[u] - 1) : Record(u, i) \in Hits(tenant[u], {document[u]})

(* "tenant_id is the hard boundary at EVERY layer" (docs/architecture/     *)
(* 15-multitenancy.md:8): a record leaves OpenSearch only while an upload   *)
(* of its own tenant is being indexed.  The id of a record names no        *)
(* tenant, so another tenant's upload with the same document id takes it.  *)
OtherTenantsKeepTheirChunks ==
    [][\A r \in store \ store' :
           inMemory \/ \E u \in Uploads : phase[u] = "indexing" /\ tenant[u] = r.tenant]_vars

=============================================================================
