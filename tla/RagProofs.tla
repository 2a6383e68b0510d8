------------------------------ MODULE RagProofs ------------------------------
(***************************************************************************)
(* Proofs about RagKnowledge: who sees what, which documents are whole and  *)
(* which are gone, for any number of uploads, deletes and reads that are    *)
(* interrupted anywhere, and documents of any number of chunks.             *)
(***************************************************************************)
EXTENDS RagKnowledge, TLAPS

Pair == Uploads \X Nat

Results == (SUBSET Pair) \cup {Miss}

Types ==
    /\ DOMAIN pc = Actors
    /\ docs \subseteq Uploads /\ chunks \subseteq Pair
    /\ written \in [Uploads -> Nat]
    /\ target \in [Deletes -> Uploads \cup {NoDocument}]
    /\ listed \in [Reads -> SUBSET Uploads] /\ got \in [Reads -> SUBSET Pair]
    /\ cache \in [CacheKeys -> Results]
    /\ raced \subseteq Uploads /\ gone \in [Reads -> SUBSET Uploads]

\* The row of upload u is not written yet; no row is ever written twice.
Before(u) == pc[u] \in {"idle", "insert"}

\* Until a delete has found its document, an upload has its row and all that it
\* wrote.
UploadInv == \A u \in Uploads :
    /\ u \in docs => ~Before(u)
    /\ Before(u) => written[u] = 0
    /\ pc[u] = "stored" => written[u] = Pieces[u]
    /\ pc[u] \in {"write", "stored"} /\ ~Targeted(u) =>
         u \in docs /\ \A i \in 1 .. written[u] : <<u, i>> \in chunks

\* Between its two deletions a delete leaves no chunk but those that the upload
\* has written since.
DeleteInv == \A d \in Deletes :
    /\ pc[d] \in {"idle", "find"} => target[d] = NoDocument
    /\ pc[d] \in {"chunks", "row", "deleted"} => target[d] \in Uploads
    /\ target[d] \in Uploads => ~Before(target[d])
    /\ pc[d] = "row" => \A m \in chunks : m[1] = target[d] => m[1] \in raced
    /\ pc[d] = "deleted" => target[d] \notin docs

\* What a read lists, returns and leaves in the cache is what its company and
\* audience may see; before its own query it has nothing.
InsideInv == \A r \in Reads :
    /\ listed[r] \subseteq Visible(r)
    /\ \A m \in got[r] : m[1] \in Visible(r)
    /\ cache[Key(r)] # Miss => \A m \in cache[Key(r)] : m[1] \in Visible(r)

\* A document that was gone when a read began stays gone.
GoneInv == \A r \in Reads :
    /\ pc[r] \in {"idle", "cache", "list", "load"} => got[r] = {}
    /\ \A u \in gone[r] : u \notin docs /\ ~Before(u)
    /\ pc[r] = "load" => listed[r] \cap gone[r] = {}
    /\ pc[r] \in {"put", "fresh"} => \A m \in got[r] : m[1] \notin gone[r]

IInv == Types /\ UploadInv /\ DeleteInv /\ InsideInv /\ GoneInv /\ OrphansOnlyFromRace

LEMMA Disjoint ==
  /\ \A u \in Uploads : u \in Actors /\ u \notin Deletes /\ u \notin Reads /\ u # NoDocument
  /\ \A d \in Deletes : d \in Actors /\ d \notin Uploads /\ d \notin Reads
  /\ \A r \in Reads : r \in Actors /\ r \notin Uploads /\ r \notin Deletes /\ Key(r) \in CacheKeys
  BY RagAssumption DEF Actors, CacheKeys

\* The cache key tells apart all that decides what a read may see.
LEMMA KeyTellsAudience ==
  ASSUME NEW r \in Reads, NEW s \in Reads, Key(r) = Key(s)
  PROVE  Visible(r) = Visible(s)
  <1>1. CompanyOf[r] = CompanyOf[s] /\ (r \in Customers) = (s \in Customers)
    BY DEF Key
  <1> QED BY <1>1 DEF Visible

\* Companies and audiences do not change.
LEMMA AudienceStays == \A r \in Reads : Visible(r)' = Visible(r) /\ Key(r)' = Key(r)
  BY DEF Visible, Key

LEMMA ResultsAreSets ==
  Miss \in Results /\ \A x \in Results : x # Miss => x \in SUBSET Pair
  <1>1. Miss \in Results
    BY DEF Results
  <1>2. ASSUME NEW x \in Results, x # Miss PROVE x \in SUBSET Pair
    BY <1>2, Zenon DEF Results
  <1> QED BY <1>1, <1>2

LEMMA SetsAreResults == \A x \in SUBSET Pair : x \in Results
  BY DEF Results

LEMMA InitIInv == Init => IInv
  <1> SUFFICES ASSUME Init PROVE IInv
    OBVIOUS
  <1> USE Disjoint
  <1>1. Types
    BY ResultsAreSets DEF Init, Types
  <1>2. UploadInv /\ DeleteInv
    BY DEF Init, UploadInv, DeleteInv, Before
  <1>3. InsideInv /\ GoneInv /\ OrphansOnlyFromRace
    BY DEF Init, InsideInv, GoneInv, OrphansOnlyFromRace
  <1> QED BY <1>1, <1>2, <1>3 DEF IInv

-----------------------------------------------------------------------------
\* The reads notice nothing of an upload but a row that did not exist before,
\* and of a delete only what disappears.
LEMMA ReadsUndisturbed ==
  ASSUME Types, InsideInv, GoneInv, UNCHANGED <<listed, got, cache, gone>>,
         \A r \in Reads : pc'[r] = pc[r],
         \A u \in Uploads : Before(u)' => Before(u),
         \A u \in docs' : u \in docs \/ Before(u)
  PROVE  InsideInv' /\ GoneInv'
  <1> USE Disjoint
  <1>1. InsideInv'
    BY DEF InsideInv, Key, Visible
  <1>2. GoneInv'
    BY DEF GoneInv, Types
  <1> QED BY <1>1, <1>2

LEMMA UploadIInv ==
  ASSUME IInv, NEW u \in Uploads, Upload(u)
  PROVE  IInv'
  <1> USE Disjoint DEF IInv
  <1>1. /\ UNCHANGED <<docs, chunks, written, target, listed, got, cache, raced, gone>>
        /\ pc[u] = "idle" /\ pc'[u] \in {"refused", "insert"}
        /\ DOMAIN pc' = Actors /\ \A a \in Actors \ {u} : pc'[a] = pc[a]
    BY DEF Upload, Goto, Types, stored, reading, history
  <1>2. Types'
    BY <1>1 DEF Types
  <1>3. UploadInv'
    BY <1>1 DEF UploadInv, Before, Targeted
  <1>4. DeleteInv'
    BY <1>1 DEF DeleteInv, Before
  <1>5. InsideInv' /\ GoneInv'
    BY <1>1, ReadsUndisturbed DEF Before
  <1>6. OrphansOnlyFromRace'
    BY <1>1 DEF OrphansOnlyFromRace
  <1> QED BY <1>2, <1>3, <1>4, <1>5, <1>6

LEMMA InsertIInv ==
  ASSUME IInv, NEW u \in Uploads, InsertDocument(u)
  PROVE  IInv'
  <1> USE Disjoint DEF IInv
  <1>1. /\ UNCHANGED <<chunks, written, target, listed, got, cache, raced, gone>>
        /\ pc[u] = "insert"
        /\ \/ pc'[u] = "duplicate" /\ docs' = docs
           \/ pc'[u] = "write" /\ docs' = docs \cup {u}
        /\ DOMAIN pc' = Actors /\ \A a \in Actors \ {u} : pc'[a] = pc[a]
    BY DEF InsertDocument, Goto, Types, reading, history
  <1>2. Types'
    BY <1>1 DEF Types
  <1>3. UploadInv'
    BY <1>1 DEF UploadInv, Before, Targeted
  <1>4. DeleteInv'
    BY <1>1 DEF DeleteInv, Before
  <1>5. InsideInv' /\ GoneInv'
    BY <1>1, ReadsUndisturbed DEF Before
  <1>6. OrphansOnlyFromRace'
    BY <1>1 DEF OrphansOnlyFromRace
  <1> QED BY <1>2, <1>3, <1>4, <1>5, <1>6

LEMMA WriteIInv ==
  ASSUME IInv, NEW u \in Uploads, WriteChunk(u)
  PROVE  IInv'
  <1> USE Disjoint DEF IInv
  <1>1. /\ UNCHANGED <<docs, target, listed, got, cache, gone>>
        /\ written' = [written EXCEPT ![u] = written[u] + 1]
        /\ chunks' = chunks \cup {<<u, written[u] + 1>>}
        /\ raced' = IF Targeted(u) THEN raced \cup {u} ELSE raced
        /\ pc[u] = "write"
        /\ pc'[u] = IF written[u] + 1 = Pieces[u] THEN "stored" ELSE "write"
        /\ DOMAIN pc' = Actors /\ \A a \in Actors \ {u} : pc'[a] = pc[a]
    BY DEF WriteChunk, Goto, Types, reading
  <1>2. Types'
    BY <1>1 DEF Types, Pair
  <1>3. UploadInv'
    <2>1. ASSUME NEW v \in Uploads, v # u
          PROVE  written'[v] = written[v] /\ pc'[v] = pc[v]
      BY <1>1, <2>1 DEF Types
    <2>2. written[u] \in Nat /\ written'[u] = written[u] + 1
      BY <1>1 DEF Types
    <2>3. ASSUME ~Targeted(u), NEW i \in 1 .. written'[u] PROVE <<u, i>> \in chunks'
      BY <1>1, <2>2, <2>3 DEF UploadInv
    <2>4. chunks \subseteq chunks' /\ \A v \in Uploads : Targeted(v)' = Targeted(v)
      BY <1>1 DEF Targeted
    <2> QED BY <1>1, <2>1, <2>2, <2>3, <2>4 DEF UploadInv, Before
  <1>4. DeleteInv'
    <2>1. ASSUME NEW d \in Deletes, pc'[d] = "row", NEW m \in chunks', m[1] = target'[d]
          PROVE  m[1] \in raced'
      <3>1. CASE m \in chunks
        BY <1>1, <2>1, <3>1 DEF DeleteInv
      <3>2. CASE m = <<u, written[u] + 1>>
        BY <1>1, <2>1, <3>2 DEF Targeted
      <3> QED BY <1>1, <3>1, <3>2
    <2> QED BY <1>1, <2>1 DEF DeleteInv, Before
  <1>5. InsideInv' /\ GoneInv'
    BY <1>1, ReadsUndisturbed DEF Before
  <1>6. OrphansOnlyFromRace'
    <2>1. u \in docs \/ u \in raced'
      BY <1>1 DEF UploadInv
    <2>2. raced \subseteq raced'
      BY <1>1
    <2> QED BY <1>1, <2>1, <2>2 DEF OrphansOnlyFromRace
  <1> QED BY <1>2, <1>3, <1>4, <1>5, <1>6

-----------------------------------------------------------------------------
LEMMA FindIInv ==
  ASSUME IInv, NEW d \in Deletes, Delete(d) \/ FindDocument(d) \/ NotFound(d)
  PROVE  IInv'
  <1> USE Disjoint DEF IInv
  <1>1. /\ UNCHANGED <<docs, chunks, written, listed, got, cache, raced, gone>>
        /\ pc[d] \in {"idle", "find"}
        /\ \/ pc'[d] \in {"find", "not_found"} /\ target' = target
           \/ /\ pc'[d] = "chunks"
              /\ \E u \in docs : target' = [target EXCEPT ![d] = u]
        /\ DOMAIN pc' = Actors /\ \A a \in Actors \ {d} : pc'[a] = pc[a]
    BY DEF Delete, FindDocument, NotFound, Named, Goto, Types, stored, reading, history
  <1>2. Types'
    BY <1>1 DEF Types
  <1>3. \A u \in Uploads : Targeted(u) => Targeted(u)'
    BY <1>1 DEF Targeted, DeleteInv, Types
  <1>4. UploadInv'
    BY <1>1, <1>3 DEF UploadInv, Before
  <1>5. DeleteInv'
    BY <1>1 DEF DeleteInv, UploadInv, Before, Types
  <1>6. InsideInv' /\ GoneInv'
    BY <1>1, ReadsUndisturbed DEF Before
  <1>7. OrphansOnlyFromRace'
    BY <1>1 DEF OrphansOnlyFromRace
  <1> QED BY <1>2, <1>4, <1>5, <1>6, <1>7

LEMMA DeleteChunksIInv ==
  ASSUME IInv, NEW d \in Deletes, DeleteChunks(d)
  PROVE  IInv'
  <1> USE Disjoint DEF IInv
  <1>1. /\ UNCHANGED <<docs, target, written, listed, got, cache, raced, gone>>
        /\ chunks' = {m \in chunks : m[1] # target[d]}
        /\ pc[d] = "chunks" /\ pc'[d] = "row"
        /\ DOMAIN pc' = Actors /\ \A a \in Actors \ {d} : pc'[a] = pc[a]
    BY DEF DeleteChunks, Goto, Types, reading, history
  <1>2. Types'
    BY <1>1 DEF Types
  <1>3. UploadInv'
    BY <1>1 DEF UploadInv, Before, Targeted
  <1>4. DeleteInv'
    BY <1>1 DEF DeleteInv, Before
  <1>5. InsideInv' /\ GoneInv'
    BY <1>1, ReadsUndisturbed DEF Before
  <1>6. OrphansOnlyFromRace'
    BY <1>1 DEF OrphansOnlyFromRace
  <1> QED BY <1>2, <1>3, <1>4, <1>5, <1>6

LEMMA DeleteRowIInv ==
  ASSUME IInv, NEW d \in Deletes, DeleteRow(d)
  PROVE  IInv'
  <1> USE Disjoint DEF IInv
  <1>1. /\ UNCHANGED <<chunks, target, written, listed, got, cache, raced, gone>>
        /\ docs' = docs \ {target[d]}
        /\ pc[d] = "row" /\ pc'[d] \in {"deleted", "failed"}
        /\ DOMAIN pc' = Actors /\ \A a \in Actors \ {d} : pc'[a] = pc[a]
    BY DEF DeleteRow, Goto, Types, reading, history
  <1>2. Types'
    BY <1>1 DEF Types
  <1>3. UploadInv'
    BY <1>1 DEF UploadInv, Before, Targeted
  <1>4. DeleteInv'
    BY <1>1 DEF DeleteInv, Before
  <1>5. InsideInv' /\ GoneInv'
    BY <1>1, ReadsUndisturbed DEF Before
  <1>6. OrphansOnlyFromRace'
    BY <1>1 DEF OrphansOnlyFromRace, DeleteInv
  <1> QED BY <1>2, <1>3, <1>4, <1>5, <1>6

-----------------------------------------------------------------------------
\* A read changes nothing that uploads and deletes rely on.
LEMMA WritersUndisturbed ==
  ASSUME IInv, NEW r \in Reads, UNCHANGED <<docs, chunks, written, target, raced>>,
         \A a \in Actors \ {r} : pc'[a] = pc[a]
  PROVE  UploadInv' /\ DeleteInv' /\ OrphansOnlyFromRace'
  <1> USE Disjoint DEF IInv
  <1>1. UploadInv'
    BY DEF UploadInv, Before, Targeted
  <1>2. DeleteInv'
    BY DEF DeleteInv, Before
  <1>3. OrphansOnlyFromRace'
    BY DEF OrphansOnlyFromRace
  <1> QED BY <1>1, <1>2, <1>3

LEMMA AskIInv ==
  ASSUME IInv, NEW r \in Reads, Ask(r)
  PROVE  IInv'
  <1> USE Disjoint DEF IInv
  <1>1. /\ UNCHANGED <<docs, chunks, written, target, listed, got, cache, raced>>
        /\ pc[r] = "idle" /\ pc'[r] = "cache"
        /\ DOMAIN pc' = Actors /\ \A a \in Actors \ {r} : pc'[a] = pc[a]
    BY DEF Ask, Goto, Types, stored, reading
  <1>2. gone' = [gone EXCEPT ![r] = {target[d] : d \in {x \in Deletes : pc[x] = "deleted"}}]
    BY DEF Ask
  <1>3. \A u \in gone'[r] : u \in Uploads /\ u \notin docs /\ ~Before(u)
    BY <1>2 DEF Types, DeleteInv
  <1>4. Types'
    BY <1>1, <1>2, <1>3 DEF Types
  <1>5. InsideInv'
    BY <1>1 DEF InsideInv, Key, Visible
  <1>6. GoneInv'
    <2>1. \A s \in Reads \ {r} : gone'[s] = gone[s] /\ pc'[s] = pc[s]
      BY <1>1, <1>2 DEF Types
    <2>2. \A u \in Uploads : Before(u)' = Before(u)
      BY <1>1 DEF Before
    <2> QED BY <1>1, <1>3, <1>4, <2>1, <2>2 DEF GoneInv, Types
  <1> QED BY <1>1, <1>4, <1>5, <1>6, WritersUndisturbed

\* What a read holds stays inside its audience when each part that changed is inside.
LEMMA InsideStep ==
  ASSUME \A s \in Reads : listed'[s] \subseteq Visible(s),
         \A s \in Reads : \A m \in got'[s] : m[1] \in Visible(s),
         \A s \in Reads : cache'[Key(s)] # Miss => \A m \in cache'[Key(s)] : m[1] \in Visible(s)
  PROVE  InsideInv'
  BY AudienceStays, Zenon DEF InsideInv

LEMMA ReadIInv ==
  ASSUME IInv, NEW r \in Reads, ReadStep(r)
  PROVE  IInv'
  <1> USE Disjoint DEF IInv
  <1>1. /\ UNCHANGED <<docs, chunks, written, target, raced, gone>>
        /\ DOMAIN pc' = Actors /\ \A a \in Actors \ {r} : pc'[a] = pc[a]
        /\ \A u \in Uploads : Before(u)' = Before(u)
    BY DEF ReadStep, CacheHit, CacheMiss, ListDocuments, LoadChunks, PutCache, Goto, Types,
       stored, history, Before
  <1>2. CASE CacheHit(r)
    <2>1. /\ UNCHANGED <<listed, cache>> /\ pc'[r] = "cached"
          /\ got' = [got EXCEPT ![r] = cache[Key(r)]] /\ cache[Key(r)] # Miss
      BY <1>2 DEF CacheHit, Goto, Types
    <2>2. Types'
      BY <1>1, <2>1, ResultsAreSets DEF Types
    <2>3. InsideInv'
      <3>1. \A s \in Reads : listed'[s] \subseteq Visible(s)
        BY <2>1 DEF InsideInv
      <3>2. \A s \in Reads : got'[s] = IF s = r THEN cache[Key(r)] ELSE got[s]
        BY <2>1 DEF Types
      <3>3. \A s \in Reads : \A m \in got'[s] : m[1] \in Visible(s)
        BY <2>1, <3>2 DEF InsideInv
      <3>4. \A s \in Reads :
              cache'[Key(s)] # Miss => \A m \in cache'[Key(s)] : m[1] \in Visible(s)
        BY <2>1 DEF InsideInv
      <3> QED BY <3>1, <3>3, <3>4, InsideStep
    <2>4. GoneInv'
      BY <1>1, <2>1 DEF GoneInv, Types
    <2> QED BY <1>1, <2>2, <2>3, <2>4, WritersUndisturbed
  <1>3. CASE CacheMiss(r)
    <2>1. /\ UNCHANGED <<listed, cache, got>> /\ pc[r] = "cache" /\ pc'[r] = "list"
      BY <1>3 DEF CacheMiss, Goto, Types, reading
    <2>2. Types'
      BY <1>1, <2>1 DEF Types
    <2>3. InsideInv'
      <3>1. \A s \in Reads : listed'[s] \subseteq Visible(s)
        BY <2>1 DEF InsideInv
      <3>2. \A s \in Reads : \A m \in got'[s] : m[1] \in Visible(s)
        BY <2>1 DEF InsideInv
      <3>3. \A s \in Reads :
              cache'[Key(s)] # Miss => \A m \in cache'[Key(s)] : m[1] \in Visible(s)
        BY <2>1 DEF InsideInv
      <3> QED BY <3>1, <3>2, <3>3, InsideStep
    <2>4. GoneInv'
      BY <1>1, <2>1 DEF GoneInv, Types
    <2> QED BY <1>1, <2>2, <2>3, <2>4, WritersUndisturbed
  <1>4. CASE ListDocuments(r)
    <2>1. /\ UNCHANGED <<got, cache>> /\ pc[r] = "list" /\ pc'[r] \in {"put", "load"}
          /\ listed' = [listed EXCEPT ![r] = docs \cap Visible(r)]
      BY <1>4 DEF ListDocuments, Goto, Types
    <2>2. Types'
      BY <1>1, <2>1 DEF Types, Visible
    <2>3. InsideInv'
      <3>1. \A s \in Reads : listed'[s] = IF s = r THEN docs \cap Visible(r) ELSE listed[s]
        BY <2>1 DEF Types
      <3>2. \A s \in Reads : listed'[s] \subseteq Visible(s)
        BY <3>1 DEF InsideInv
      <3>3. \A s \in Reads : \A m \in got'[s] : m[1] \in Visible(s)
        BY <2>1 DEF InsideInv
      <3>4. \A s \in Reads :
              cache'[Key(s)] # Miss => \A m \in cache'[Key(s)] : m[1] \in Visible(s)
        BY <2>1 DEF InsideInv
      <3> QED BY <3>2, <3>3, <3>4, InsideStep
    <2>4. GoneInv'
      BY <1>1, <2>1 DEF GoneInv, Types
    <2> QED BY <1>1, <2>2, <2>3, <2>4, WritersUndisturbed
  <1>5. CASE LoadChunks(r)
    <2>1. /\ UNCHANGED <<listed, cache>> /\ pc[r] = "load" /\ pc'[r] = "put"
          /\ got' = [got EXCEPT ![r] = {m \in chunks : m[1] \in listed[r]}]
      BY <1>5 DEF LoadChunks, Goto, Types
    <2>2. Types'
      BY <1>1, <2>1 DEF Types
    <2>3. InsideInv'
      <3>1. \A s \in Reads : listed'[s] \subseteq Visible(s)
        BY <2>1 DEF InsideInv
      <3>2. \A s \in Reads :
              got'[s] = IF s = r THEN {m \in chunks : m[1] \in listed[r]} ELSE got[s]
        BY <2>1 DEF Types
      <3>3. \A m \in got'[r] : m[1] \in listed[r]
        BY <3>2
      <3>4. \A s \in Reads : \A m \in got'[s] : m[1] \in Visible(s)
        BY <3>2, <3>3 DEF InsideInv
      <3>5. \A s \in Reads :
              cache'[Key(s)] # Miss => \A m \in cache'[Key(s)] : m[1] \in Visible(s)
        BY <2>1 DEF InsideInv
      <3> QED BY <3>1, <3>4, <3>5, InsideStep
    <2>4. GoneInv'
      BY <1>1, <2>1 DEF GoneInv, Types
    <2> QED BY <1>1, <2>2, <2>3, <2>4, WritersUndisturbed
  <1>6. CASE PutCache(r)
    <2>1. /\ UNCHANGED <<listed, got>> /\ pc[r] = "put" /\ pc'[r] = "fresh"
          /\ cache' = cache \/ cache' = [cache EXCEPT ![Key(r)] = got[r]]
      BY <1>6 DEF PutCache, Goto, Types, reading
    <2>2. Types'
      BY <1>1, <2>1, SetsAreResults DEF Types
    <2>3. \A s \in Reads : Key(s) = Key(r) => Visible(s) = Visible(r)
      BY KeyTellsAudience
    <2>4. InsideInv'
      <3> SUFFICES ASSUME NEW s \in Reads, cache'[Key(s)] # Miss, NEW m \in cache'[Key(s)]
                   PROVE  m[1] \in Visible(s)
        BY <2>1 DEF InsideInv, Key, Visible
      <3>1. CASE cache'[Key(s)] = cache[Key(s)]
        BY <3>1 DEF InsideInv
      <3>2. CASE Key(s) = Key(r) /\ cache'[Key(s)] = got[r]
        BY <2>3, <3>2 DEF InsideInv
      <3> QED BY <2>1, <3>1, <3>2 DEF Types
    <2>5. GoneInv'
      BY <1>1, <2>1 DEF GoneInv, Types
    <2> QED BY <1>1, <2>2, <2>4, <2>5, WritersUndisturbed
  <1> QED BY <1>2, <1>3, <1>4, <1>5, <1>6 DEF ReadStep

-----------------------------------------------------------------------------
\* An interrupted actor leaves everything as it is.
LEMMA InterruptIInv ==
  ASSUME IInv, NEW a \in Actors, Interrupt(a)
  PROVE  IInv'
  <1> USE Disjoint DEF IInv
  <1>1. /\ UNCHANGED <<docs, chunks, written, target, listed, got, cache, raced, gone>>
        /\ pc'[a] = "failed"
        /\ DOMAIN pc' = Actors /\ \A b \in Actors \ {a} : pc'[b] = pc[b]
    BY DEF Interrupt, Goto, Types, stored, reading, history
  <1>2. Types'
    BY <1>1 DEF Types
  <1>3. UploadInv'
    BY <1>1 DEF UploadInv, Before, Targeted
  <1>4. DeleteInv'
    BY <1>1 DEF DeleteInv, Before
  <1>5. InsideInv'
    BY <1>1 DEF InsideInv, Key, Visible
  <1>6. GoneInv'
    BY <1>1 DEF GoneInv, Before, Types
  <1>7. OrphansOnlyFromRace'
    BY <1>1 DEF OrphansOnlyFromRace
  <1> QED BY <1>2, <1>3, <1>4, <1>5, <1>6, <1>7

LEMMA ExpireIInv ==
  ASSUME IInv, NEW k \in CacheKeys, Expire(k)
  PROVE  IInv'
  <1> USE Disjoint DEF IInv
  <1>1. /\ UNCHANGED <<pc, docs, chunks, written, target, listed, got, raced, gone>>
        /\ cache' = [cache EXCEPT ![k] = Miss]
    BY DEF Expire, stored, reading, history
  <1>2. Types'
    BY <1>1, ResultsAreSets DEF Types
  <1>3. UploadInv' /\ DeleteInv'
    BY <1>1 DEF UploadInv, DeleteInv, Before, Targeted
  <1>4. InsideInv'
    BY <1>1 DEF InsideInv, Key, Visible, Types
  <1>5. GoneInv' /\ OrphansOnlyFromRace'
    BY <1>1 DEF GoneInv, Before, OrphansOnlyFromRace
  <1> QED BY <1>2, <1>3, <1>4, <1>5

LEMMA NextIInv == IInv /\ [Next]_vars => IInv'
  <1> SUFFICES ASSUME IInv, [Next]_vars PROVE IInv'
    OBVIOUS
  <1>1. ASSUME NEW u \in Uploads, Upload(u) \/ InsertDocument(u) \/ WriteChunk(u) PROVE IInv'
    BY <1>1, UploadIInv, InsertIInv, WriteIInv
  <1>2. ASSUME NEW d \in Deletes,
               Delete(d) \/ FindDocument(d) \/ NotFound(d) \/ DeleteChunks(d) \/ DeleteRow(d)
        PROVE  IInv'
    BY <1>2, FindIInv, DeleteChunksIInv, DeleteRowIInv
  <1>3. ASSUME NEW r \in Reads, Ask(r) \/ ReadStep(r) PROVE IInv'
    BY <1>3, AskIInv, ReadIInv
  <1>4. ASSUME NEW k \in CacheKeys, Expire(k) PROVE IInv'
    BY <1>4, ExpireIInv
  <1>5. ASSUME NEW a \in Actors, Interrupt(a) PROVE IInv'
    BY <1>5, InterruptIInv
  <1>6. CASE UNCHANGED vars
    BY <1>6 DEF vars, stored, reading, history, IInv, Types, UploadInv, DeleteInv, InsideInv, GoneInv,
       OrphansOnlyFromRace, Before, Targeted, Key, Visible
  <1> QED BY <1>1, <1>2, <1>3, <1>4, <1>5, <1>6 DEF Next

LEMMA AlwaysIInv == Spec => []IInv
  BY InitIInv, NextIInv, PTL DEF Spec

-----------------------------------------------------------------------------
\* Nobody reads a chunk of another company, and no customer one of an internal
\* document, from the cache or not (retrieve_with_sources).
THEOREM AudiencesStayApart == Spec => []ReadsStayInside
  <1>1. IInv => ReadsStayInside
    BY DEF IInv, InsideInv, ReadsStayInside
  <1> QED BY <1>1, AlwaysIInv, PTL

\* A read that does not come from the cache knows nothing of a document whose
\* deletion was answered before it began, even if its upload went on writing.
THEOREM DeletedIsNotFound == Spec => []FreshReadsForget
  <1>1. IInv => FreshReadsForget
    BY DEF IInv, GoneInv, FreshReadsForget
  <1> QED BY <1>1, AlwaysIInv, PTL

\* An answered upload is whole until a delete finds it, however the slug is used
\* again (ingest_document, delete_document).
THEOREM UploadsAreWhole == Spec => []AnsweredUploadIsWhole
  <1>1. IInv => AnsweredUploadIsWhole
    <2> SUFFICES ASSUME IInv, NEW u \in Uploads, pc[u] = "stored", ~Targeted(u)
                 PROVE  u \in docs /\ AllChunks(u) \subseteq chunks
      BY DEF AnsweredUploadIsWhole
    <2>1. u \in docs /\ \A i \in 1 .. Pieces[u] : <<u, i>> \in chunks
      BY DEF IInv, UploadInv
    <2> QED BY <2>1 DEF AllChunks
  <1> QED BY <1>1, AlwaysIInv, PTL

\* No chunk is left without its document but by an upload that a delete has
\* overtaken (delete_document).
THEOREM OrphansHaveACause == Spec => []OrphansOnlyFromRace
  <1>1. IInv => OrphansOnlyFromRace
    BY DEF IInv
  <1> QED BY <1>1, AlwaysIInv, PTL

-----------------------------------------------------------------------------
(* What DeletedIsForgotten needs apart from fairness *)

\* A deleted document that nothing names any more: neither the cache nor a read
\* on its way there.
Forgotten(u) ==
    /\ \E d \in Deletes : pc[d] = "deleted" /\ target[d] = u
    /\ \A k \in CacheKeys : cache[k] # Miss => \A m \in cache[k] : m[1] # u
    /\ \A r \in Reads : /\ pc[r] = "load" => u \notin listed[r]
                        /\ pc[r] = "put" => \A m \in got[r] : m[1] # u

\* The row of a deleted document never comes back.
LEMMA ForgottenHasNoRow ==
  ASSUME IInv, NEW u \in Uploads, Forgotten(u) PROVE u \notin docs /\ pc[u] # "insert"
  BY DEF IInv, DeleteInv, Forgotten, Before

\* A deletion that was answered stays so.
LEMMA DeletionStays ==
  ASSUME IInv, [Next]_vars, NEW d \in Deletes, pc[d] = "deleted"
  PROVE  pc'[d] = "deleted" /\ target'[d] = target[d]
  <1> USE Disjoint DEF Goto
  <1>0. DOMAIN pc = Actors /\ DOMAIN target = Deletes
    BY DEF IInv, Types
  <1>1. ASSUME NEW u \in Uploads, Upload(u) \/ InsertDocument(u) \/ WriteChunk(u)
        PROVE  pc'[d] = "deleted" /\ target'[d] = target[d]
    BY <1>0, <1>1 DEF Upload, InsertDocument, WriteChunk, stored, reading
  <1>2. ASSUME NEW e \in Deletes,
               Delete(e) \/ FindDocument(e) \/ NotFound(e) \/ DeleteChunks(e) \/ DeleteRow(e)
        PROVE  pc'[d] = "deleted" /\ target'[d] = target[d]
    BY <1>0, <1>2 DEF Delete, FindDocument, NotFound, DeleteChunks, DeleteRow, stored
  <1>3. ASSUME NEW r \in Reads, Ask(r) \/ ReadStep(r)
        PROVE  pc'[d] = "deleted" /\ target'[d] = target[d]
    BY <1>0, <1>3 DEF Ask, ReadStep, CacheHit, CacheMiss, ListDocuments, LoadChunks, PutCache
  <1>4. ASSUME NEW k \in CacheKeys, Expire(k) PROVE pc'[d] = "deleted" /\ target'[d] = target[d]
    BY <1>4 DEF Expire
  <1>5. ASSUME NEW a \in Actors, Interrupt(a) PROVE pc'[d] = "deleted" /\ target'[d] = target[d]
    BY <1>0, <1>5 DEF Interrupt, Working
  <1>6. CASE UNCHANGED vars
    BY <1>6 DEF vars
  <1> QED BY <1>1, <1>2, <1>3, <1>4, <1>5, <1>6 DEF Next

\* Only the reads carry anything to the cache.
LEMMA NothingIsRemembered ==
  ASSUME IInv, [Next]_vars, NEW u \in Uploads, Forgotten(u)
  PROVE  /\ \A k \in CacheKeys : cache'[k] # Miss => \A m \in cache'[k] : m[1] # u
         /\ \A r \in Reads : /\ pc'[r] = "load" => u \notin listed'[r]
                             /\ pc'[r] = "put" => \A m \in got'[r] : m[1] # u
  <1> DEFINE Clean == /\ \A k \in CacheKeys : cache[k] # Miss => \A m \in cache[k] : m[1] # u
                      /\ \A r \in Reads : /\ pc[r] = "load" => u \notin listed[r]
                                          /\ pc[r] = "put" => \A m \in got[r] : m[1] # u
  <1> USE Disjoint DEF Goto
  <1>0. /\ DOMAIN pc = Actors /\ DOMAIN cache = CacheKeys /\ DOMAIN listed = Reads
        /\ DOMAIN got = Reads /\ u \notin docs /\ Clean
        /\ \A r \in Reads : pc[r] \in {"list", "cache", "idle"} => got[r] = {}
    BY ForgottenHasNoRow DEF IInv, Types, Forgotten, GoneInv
  <1> SUFFICES Clean'
    OBVIOUS
  <1>1. ASSUME NEW v \in Uploads, Upload(v) \/ InsertDocument(v) \/ WriteChunk(v) PROVE Clean'
    BY <1>0, <1>1 DEF Upload, InsertDocument, WriteChunk, stored, reading
  <1>2. ASSUME NEW e \in Deletes,
               Delete(e) \/ FindDocument(e) \/ NotFound(e) \/ DeleteChunks(e) \/ DeleteRow(e)
        PROVE  Clean'
    BY <1>0, <1>2 DEF Delete, FindDocument, NotFound, DeleteChunks, DeleteRow, stored, reading
  <1>3. ASSUME NEW r \in Reads, Ask(r) \/ ReadStep(r) PROVE Clean'
    <2>1. CASE Ask(r) \/ CacheHit(r) \/ CacheMiss(r)
      BY <1>0, <2>1 DEF Ask, CacheHit, CacheMiss, stored, reading
    <2>2. CASE ListDocuments(r)
      BY <1>0, <2>2 DEF ListDocuments
    <2>3. CASE LoadChunks(r)
      BY <1>0, <2>3 DEF LoadChunks
    <2>4. CASE PutCache(r)
      BY <1>0, <2>4 DEF PutCache, reading
    <2> QED BY <1>3, <2>1, <2>2, <2>3, <2>4 DEF ReadStep
  <1>4. ASSUME NEW k \in CacheKeys, Expire(k) PROVE Clean'
    BY <1>0, <1>4 DEF Expire, reading
  <1>5. ASSUME NEW a \in Actors, Interrupt(a) PROVE Clean'
    BY <1>0, <1>5 DEF Interrupt, reading
  <1>6. CASE UNCHANGED vars
    BY <1>0, <1>6 DEF vars, reading
  <1> QED BY <1>1, <1>2, <1>3, <1>4, <1>5, <1>6 DEF Next

\* A document that was deleted and is neither in the cache nor with a read on its
\* way there is never answered again: what remains of it is a matter of the reads
\* that began before, and of the TTL (delete_document, retrieve_with_sources).
THEOREM ForgottenForEver == Spec => [][\A u \in Uploads : Forgotten(u) => Forgotten(u)']_vars
  <1>1. ASSUME IInv, [Next]_vars, NEW u \in Uploads, Forgotten(u) PROVE Forgotten(u)'
    <2>1. PICK d \in Deletes : pc[d] = "deleted" /\ target[d] = u
      BY <1>1 DEF Forgotten
    <2>2. pc'[d] = "deleted" /\ target'[d] = u
      BY <1>1, <2>1, DeletionStays
    <2> QED BY <1>1, <2>2, NothingIsRemembered DEF Forgotten, CacheKeys, Key
  <1>2. IInv /\ [Next]_vars => IInv' /\ [\A u \in Uploads : Forgotten(u) => Forgotten(u)']_vars
    BY <1>1, NextIInv
  <1> QED BY <1>2, InitIInv, PTL DEF Spec
=============================================================================
