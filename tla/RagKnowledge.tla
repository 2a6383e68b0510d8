----------------------------- MODULE RagKnowledge -----------------------------
(***************************************************************************)
(* The knowledge base: uploads and deletions (app/rag/ingestion.py) run     *)
(* beside the reads of the agents (app/rag/retriever.py), which share a     *)
(* Redis cache with a TTL.  MongoDB holds a row per document and a row per  *)
(* chunk, without transactions: every call is a step, and any actor may be  *)
(* interrupted between two of them.                                         *)
(*                                                                         *)
(* The reads ask one question that every chunk answers well enough, and     *)
(* there are at most top_k chunks, so what a read finds is the set of       *)
(* chunks it looked at; each of its two queries is one step.  A document is *)
(* named by the upload that made it, as its _id is never used again.        *)
(***************************************************************************)
EXTENDS Integers, FiniteSets

CONSTANTS Uploads, Deletes, Reads,
          CompanyOf,    \* the company of each of them
          SlugOf,       \* the slug of each upload and delete
          TitleOf,      \* title and version of each upload
          Pieces,       \* how many chunks the text of each upload makes
          Faq,          \* the uploads of category FAQ
          Customers,    \* who reads with customer_only
          Miss,         \* no entry in the cache
          NoDocument

Actors == Uploads \cup Deletes \cup Reads

AllChunks(u) == {u} \X (1 .. Pieces[u])

Chunks == UNION {AllChunks(u) : u \in Uploads}

ASSUME RagAssumption ==
    /\ Uploads \cap Deletes = {} /\ Uploads \cap Reads = {} /\ Deletes \cap Reads = {}
    /\ DOMAIN CompanyOf = Actors
    /\ DOMAIN SlugOf = Uploads \cup Deletes
    /\ DOMAIN TitleOf = Uploads
    /\ Pieces \in [Uploads -> Nat]
    /\ Faq \subseteq Uploads
    /\ \A s \in SUBSET Chunks : s # Miss
    /\ NoDocument \notin Uploads

VARIABLES pc,
          docs,     \* rag_documents
          chunks,   \* rag_chunks
          written,  \* chunks each upload has written
          target,   \* the document each delete found
          listed,   \* the documents each read found
          got,      \* the chunks each read returns
          cache,    \* result of a question, by company and audience
          raced,    \* history: uploads that wrote chunks after a delete found them
          gone      \* history: documents deleted when a read began

stored == <<docs, chunks, written>>
reading == <<listed, got>>
history == <<raced, gone>>
vars == <<pc, stored, target, reading, cache, history>>

\* The cache key of a read.
Key(r) == <<CompanyOf[r], r \in Customers>>

CacheKeys == {Key(r) : r \in Reads}

Init ==
    /\ pc = [a \in Actors |-> "idle"]
    /\ docs = {}
    /\ chunks = {}
    /\ written = [u \in Uploads |-> 0]
    /\ target = [d \in Deletes |-> NoDocument]
    /\ listed = [r \in Reads |-> {}]
    /\ got = [r \in Reads |-> {}]
    /\ cache = [k \in CacheKeys |-> Miss]
    /\ raced = {}
    /\ gone = [r \in Reads |-> {}]

-----------------------------------------------------------------------------
Goto(a, label) == pc' = [pc EXCEPT ![a] = label]

Targeted(u) == \E d \in Deletes : target[d] = u

-----------------------------------------------------------------------------
(* ingest_document *)

\* A text without a chunk, or a category outside the enumeration: ValueError.
Upload(u) ==
    /\ pc[u] = "idle"
    /\ Goto(u, IF Pieces[u] = 0 THEN "refused" ELSE "insert")
    /\ UNCHANGED <<stored, target, reading, cache, history>>

\* Either unique index of rag_documents refuses the row; both raise the same
\* DuplicateKeyError.
Clashes(u) == \E v \in docs :
    /\ CompanyOf[v] = CompanyOf[u]
    /\ SlugOf[v] = SlugOf[u] \/ TitleOf[v] = TitleOf[u]

InsertDocument(u) ==
    /\ pc[u] = "insert"
    /\ IF Clashes(u)
       THEN /\ Goto(u, "duplicate")
            /\ UNCHANGED docs
       ELSE /\ Goto(u, "write")
            /\ docs' = docs \cup {u}
    /\ UNCHANGED <<chunks, written, target, reading, cache, history>>

\* The embeddings have been computed, in a thread; insert_many writes the
\* chunks in order, whether or not the document is still there.
WriteChunk(u) ==
    /\ pc[u] = "write"
    /\ written' = [written EXCEPT ![u] = @ + 1]
    /\ chunks' = chunks \cup {<<u, written[u] + 1>>}
    /\ Goto(u, IF written[u] + 1 = Pieces[u] THEN "stored" ELSE "write")
    /\ raced' = IF Targeted(u) THEN raced \cup {u} ELSE raced
    /\ UNCHANGED <<docs, target, reading, cache, gone>>

-----------------------------------------------------------------------------
(* delete_document *)

Delete(d) ==
    /\ pc[d] = "idle"
    /\ Goto(d, "find")
    /\ UNCHANGED <<stored, target, reading, cache, history>>

Named(d) == {u \in docs : CompanyOf[u] = CompanyOf[d] /\ SlugOf[u] = SlugOf[d]}

\* Bug: the row is deleted before its chunks (find_one_and_delete).
FindAndDelete(d) ==
    /\ pc[d] = "find"
    /\ \E u \in Named(d) :
        /\ target' = [target EXCEPT ![d] = u]
        /\ docs' = docs \ {u}
    /\ Goto(d, "chunks")
    /\ UNCHANGED <<chunks, written, reading, cache, history>>

FindDocument(d) ==
    /\ pc[d] = "find"
    /\ \E u \in Named(d) : target' = [target EXCEPT ![d] = u]
    /\ Goto(d, "chunks")
    /\ UNCHANGED <<stored, reading, cache, history>>

\* DocumentNotFoundError.
NotFound(d) ==
    /\ pc[d] = "find"
    /\ Named(d) = {}
    /\ Goto(d, "not_found")
    /\ UNCHANGED <<stored, target, reading, cache, history>>

DeleteChunks(d) ==
    /\ pc[d] = "chunks"
    /\ chunks' = {m \in chunks : m[1] # target[d]}
    /\ Goto(d, "row")
    /\ UNCHANGED <<docs, written, target, reading, cache, history>>

\* Bug: delete_one by slug.
DeleteRowBySlug(d) ==
    /\ pc[d] = "row"
    /\ docs' = docs \ Named(d)
    /\ Goto(d, "deleted")
    /\ UNCHANGED <<chunks, written, target, reading, cache, history>>

\* delete_one by _id; the reply may be lost.
DeleteRow(d) ==
    /\ pc[d] = "row"
    /\ docs' = docs \ {target[d]}
    /\ \E end \in {"deleted", "failed"} : Goto(d, end)
    /\ UNCHANGED <<chunks, written, target, reading, cache, history>>

-----------------------------------------------------------------------------
(* retrieve_with_sources *)

\* Documents a read may see: those of its company, only the FAQ for a customer.
Visible(r) == {u \in Uploads : CompanyOf[u] = CompanyOf[r] /\ (r \in Customers => u \in Faq)}

Ask(r) ==
    /\ pc[r] = "idle"
    /\ Goto(r, "cache")
    /\ gone' = [gone EXCEPT ![r] = {target[d] : d \in {x \in Deletes : pc[x] = "deleted"}}]
    /\ UNCHANGED <<stored, target, reading, cache, raced>>

\* Bug: the audience is missing from the cache key.
HitAnyAudience(r) ==
    /\ pc[r] = "cache"
    /\ \E k \in CacheKeys :
        /\ k[1] = CompanyOf[r]
        /\ cache[k] # Miss
        /\ got' = [got EXCEPT ![r] = cache[k]]
    /\ Goto(r, "cached")
    /\ UNCHANGED <<stored, target, listed, cache, history>>

CacheHit(r) ==
    /\ pc[r] = "cache"
    /\ cache[Key(r)] # Miss
    /\ got' = [got EXCEPT ![r] = cache[Key(r)]]
    /\ Goto(r, "cached")
    /\ UNCHANGED <<stored, target, listed, cache, history>>

\* No entry, or no cache: a Redis error is a miss.
CacheMiss(r) ==
    /\ pc[r] = "cache"
    /\ Goto(r, "list")
    /\ UNCHANGED <<stored, target, reading, cache, history>>

ListDocuments(r) ==
    /\ pc[r] = "list"
    /\ listed' = [listed EXCEPT ![r] = docs \cap Visible(r)]
    /\ Goto(r, IF docs \cap Visible(r) = {} THEN "put" ELSE "load")
    /\ UNCHANGED <<stored, target, got, cache, history>>

\* Bug: the chunks are found by company instead of by document.
LoadByCompany(r) ==
    /\ pc[r] = "load"
    /\ got' = [got EXCEPT ![r] = {m \in chunks : m[1] \in Visible(r)}]
    /\ Goto(r, "put")
    /\ UNCHANGED <<stored, target, listed, cache, history>>

\* Chunks of documents that are gone by now may be among them, or missing.
LoadChunks(r) ==
    /\ pc[r] = "load"
    /\ got' = [got EXCEPT ![r] = {m \in chunks : m[1] \in listed[r]}]
    /\ Goto(r, "put")
    /\ UNCHANGED <<stored, target, listed, cache, history>>

\* The result is stored with a TTL, also when it is empty; a Redis error is
\* ignored.
PutCache(r) ==
    /\ pc[r] = "put"
    /\ \/ cache' = [cache EXCEPT ![Key(r)] = got[r]]
       \/ UNCHANGED cache
    /\ Goto(r, "fresh")
    /\ UNCHANGED <<stored, target, reading, history>>

\* Bug: the entries have no TTL.
NeverExpires(k) ==
    /\ cache[k] # Miss
    /\ UNCHANGED vars

Expire(k) ==
    /\ cache[k] # Miss
    /\ cache' = [cache EXCEPT ![k] = Miss]
    /\ UNCHANGED <<pc, stored, target, reading, history>>

-----------------------------------------------------------------------------
Working == {"insert", "write", "find", "chunks", "row", "cache", "list", "load", "put"}

\* MongoDB or the embedding model fails, the request is cancelled, the worker
\* dies.
Interrupt(a) ==
    /\ pc[a] \in Working
    /\ Goto(a, "failed")
    /\ UNCHANGED <<stored, target, reading, cache, history>>

ReadStep(r) ==
    CacheHit(r) \/ CacheMiss(r) \/ ListDocuments(r) \/ LoadChunks(r) \/ PutCache(r)

Next ==
    \/ \E u \in Uploads : Upload(u) \/ InsertDocument(u) \/ WriteChunk(u)
    \/ \E d \in Deletes :
        Delete(d) \/ FindDocument(d) \/ NotFound(d) \/ DeleteChunks(d) \/ DeleteRow(d)
    \/ \E r \in Reads : Ask(r) \/ ReadStep(r)
    \/ \E k \in CacheKeys : Expire(k)
    \/ \E a \in Actors : Interrupt(a)

Spec == Init /\ [][Next]_vars

\* A read that began goes on and Redis drops what has reached its TTL.
FairSpec ==
    /\ Spec
    /\ \A r \in Reads : WF_vars(ReadStep(r))
    /\ \A k \in CacheKeys : WF_vars(Expire(k))

-----------------------------------------------------------------------------
(* Properties *)

\* No read returns a chunk of another company, and no customer's read a chunk of
\* an internal document, from the cache or not.
ReadsStayInside == \A r \in Reads : \A m \in got[r] : m[1] \in Visible(r)

\* A document that was deleted before a read began is not in what it finds, not
\* even if its upload went on writing chunks.
FreshReadsForget == \A r \in Reads : pc[r] = "fresh" =>
    \A m \in got[r] : m[1] \notin gone[r]

\* A document whose upload was answered is whole until a delete has found it: a
\* delete touches only the document it found, also when the slug is used again.
AnsweredUploadIsWhole == \A u \in Uploads : pc[u] = "stored" /\ ~Targeted(u) =>
    u \in docs /\ AllChunks(u) \subseteq chunks

\* delete_document: chunks first, so that an interrupted delete leaves no chunk
\* "orphaned with no document left to find them through".  Only an upload that
\* was still writing when the delete found its document leaves some.
OrphansOnlyFromRace == \A m \in chunks : m[1] \in docs \/ m[1] \in raced

\* A deleted document is in the end no longer answered from the cache.
DeletedIsForgotten == \A d \in Deletes, u \in Uploads :
    pc[d] = "deleted" /\ target[d] = u ~>
        [](\A k \in CacheKeys : cache[k] = Miss \/ \A m \in cache[k] : m[1] # u)

=============================================================================
