-------------------------- MODULE SearchGenerations --------------------------
(***************************************************************************)
(* Searches of one index version and the two indexes they build as they    *)
(* go: full-text generations (backend/app/persistence/                     *)
(* fts_generation_store.py) and vector generations with their points       *)
(* (backend/app/retrieval/sync_service.py, vector_store.py), both driven   *)
(* by RetrievalService.search (retrieval/retrieval_service.py).            *)
(*                                                                         *)
(* A search lists the documents its filter lets through, and syncs these.  *)
(* A generation is identified by its documents.  Searches run in threads   *)
(* of one service; every transaction, file or collection access is a step. *)
(* What the query text matches, how hits are ranked and what the graph     *)
(* adds are choices; how many hits of the vectors and of an answer are     *)
(* kept is not.  A name that IndexVersions has too begins with Search      *)
(* here: the two are proved about together.                                *)
(***************************************************************************)
EXTENDS Naturals, FiniteSets

CONSTANTS Searchers,
          Documents,   \* the chunks of the version
          Filters,     \* what the filters of the searches let through, maybe nothing
          DenseTopK,   \* dense_top_k
          FinalTopK,   \* the smaller of fusion_top_k and final_top_k
          MaxSearches, \* bound
          MaxFaults    \* bound: errors of embedder, store and FTS

ASSUME SearchAssumption ==
    /\ IsFiniteSet(Searchers) /\ IsFiniteSet(Documents)
    /\ Filters \subseteq SUBSET Documents
    /\ DenseTopK \in Nat /\ FinalTopK \in Nat
    /\ MaxSearches \in Nat /\ MaxFaults \in Nat

VARIABLES fts,       \* retrieval_fts_generations with their rows
          manifest,  \* vector manifests, by generation
          points,    \* of the version and profile, in the collection
          search,    \* of each searcher, and what the last one answered
          counts     \* so far: searches, faults

indexes == <<fts, manifest, points>>
searchVars == <<indexes, search, counts>>

NoGeneration == [status |-> "absent", rows |-> {}]
NoSearch == [pc |-> "idle", wanted |-> {}, vectors |-> FALSE, generation |-> {},
             hits |-> {}, full |-> FALSE]

SearchInit ==
    /\ fts = [g \in Filters |-> NoGeneration]
    /\ manifest = [g \in Filters |-> "absent"]
    /\ points = {}
    /\ search = [s \in Searchers |-> NoSearch]
    /\ counts = [searches |-> 0, faults |-> 0]

SearchAt(s, pc) == search[s].pc = pc
Wanted(s) == search[s].wanted
SearchBecomes(s, new) == search' = [search EXCEPT ![s] = new]
SearchGoes(s, pc) == SearchBecomes(s, [search[s] EXCEPT !.pc = pc])
Fault == counts.faults < MaxFaults /\ counts' = [counts EXCEPT !.faults = @ + 1]

Ready == {g \in Filters : fts[g].status = "ready"}

\* list_documents: versions do not change.
List(s, f) ==
    /\ search[s].pc \in {"idle", "answered"} /\ counts.searches < MaxSearches
    /\ counts' = [counts EXCEPT !.searches = @ + 1]
    /\ SearchBecomes(s, [NoSearch EXCEPT !.pc = "manifest", !.wanted = f])
    /\ UNCHANGED indexes

----------------------------------------------------------------------------
\* VectorSyncService.sync.  Whatever it raises, the search goes on without vectors.

\* Mutant: any manifest will do.
AnyManifest(s) == manifest[Wanted(s)] # "absent"

ManifestReady(s) == manifest[Wanted(s)] = "ready"

\* A ready manifest is taken as it is.
ReadManifest(s) ==
    /\ SearchAt(s, "manifest")
    /\ SearchBecomes(s, IF ManifestReady(s)
                         THEN [search[s] EXCEPT !.pc = "generation", !.vectors = TRUE]
                         ELSE [search[s] EXCEPT !.pc = "prepare"])
    /\ UNCHANGED <<indexes, counts>>

\* Once the collection is there; over whatever another search has written since.
WriteBuilding(s) ==
    /\ SearchAt(s, "prepare")
    /\ manifest' = [manifest EXCEPT ![Wanted(s)] = "building"]
    /\ SearchGoes(s, "upsert")
    /\ UNCHANGED <<fts, points, counts>>

\* Points are keyed by chunk; those of other generations stay.
Upsert(s) ==
    /\ SearchAt(s, "upsert")
    /\ points' = points \cup Wanted(s)
    /\ SearchGoes(s, "count")
    /\ UNCHANGED <<fts, manifest, counts>>

\* All points of the version are counted.
Counts(wanted) == Cardinality(points) = Cardinality(wanted)

Count(s) ==
    /\ SearchAt(s, "count")
    /\ SearchGoes(s, IF Counts(Wanted(s)) THEN "accept" ELSE "reject")
    /\ UNCHANGED <<indexes, counts>>

WriteManifest(s) ==
    /\ search[s].pc \in {"accept", "reject"}
    /\ manifest' = [manifest EXCEPT ![Wanted(s)] = IF SearchAt(s, "accept") THEN "ready" ELSE "failed"]
    /\ SearchBecomes(s, [search[s] EXCEPT !.pc = "generation", !.vectors = SearchAt(s, "accept")])
    /\ UNCHANGED <<fts, points, counts>>

\* The collection, the embedder, the store or a file raises: before the building manifest is
\* there, or while the failed one is written, nothing is left behind.
SyncRaises(s) ==
    /\ Fault
    /\ \/ search[s].pc \in {"manifest", "prepare", "reject"} /\ SearchGoes(s, "generation")
       \/ search[s].pc \in {"upsert", "count", "accept"} /\ SearchGoes(s, "reject")
    /\ UNCHANGED indexes

----------------------------------------------------------------------------
\* FTSGenerationStore.sync, when no generation of the version is ready.

FindReady(s) ==
    /\ SearchAt(s, "generation")
    /\ SearchGoes(s, IF Ready = {} THEN "check" ELSE "match")
    /\ UNCHANGED <<indexes, counts>>

\* Before the transaction.
CheckOwn(s) ==
    /\ SearchAt(s, "check")
    /\ SearchGoes(s, IF fts[Wanted(s)].status = "ready" THEN "match" ELSE "reset")
    /\ UNCHANGED <<indexes, counts>>

Reset(s) ==
    /\ SearchAt(s, "reset")
    /\ fts' = [fts EXCEPT ![Wanted(s)] = [status |-> "building", rows |-> {}]]
    /\ SearchGoes(s, "fill")
    /\ UNCHANGED <<manifest, points, counts>>

\* Mutant: the old generation is superseded and the new one is filled later.
FilledLater(g) ==
    [h \in Filters |->
        IF h = g THEN [status |-> "ready", rows |-> {}]
        ELSE IF h \in Ready THEN [fts[h] EXCEPT !.status = "superseded"] ELSE fts[h]]

\* The other ready generation is superseded; a generation is made ready if it is still building.
Filled(g) ==
    [h \in Filters |->
        IF h = g THEN [status |-> IF fts[g].status = "building" THEN "ready" ELSE fts[g].status, rows |-> g]
        ELSE IF h \in Ready THEN [fts[h] EXCEPT !.status = "superseded"] ELSE fts[h]]

\* One transaction; rows that are there already violate a key.
Fill(s) ==
    /\ SearchAt(s, "fill")
    /\ IF fts[Wanted(s)].rows \cap Wanted(s) # {}
       THEN UNCHANGED fts /\ SearchGoes(s, "clear")
       ELSE fts' = Filled(Wanted(s)) /\ SearchGoes(s, "match")
    /\ UNCHANGED <<manifest, points, counts>>

FillRaises(s) ==
    /\ SearchAt(s, "fill")
    /\ Fault
    /\ SearchGoes(s, "clear")
    /\ UNCHANGED indexes

\* The rows go and the generation has failed, whoever has filled it.  The error is the search's.
Clear(s) ==
    /\ SearchAt(s, "clear")
    /\ fts' = [fts EXCEPT ![Wanted(s)] = [status |-> "failed", rows |-> {}]]
    /\ SearchBecomes(s, NoSearch)
    /\ UNCHANGED <<manifest, points, counts>>

----------------------------------------------------------------------------
\* FTSGenerationStore.search, the dense search and the answer.

\* The generation in one transaction, its rows in the next.
Match(s) ==
    /\ SearchAt(s, "match")
    /\ IF Ready = {} THEN SearchBecomes(s, NoSearch)
       ELSE \E g \in Ready : SearchBecomes(s, [search[s] EXCEPT !.pc = "read", !.generation = g])
    /\ UNCHANGED <<indexes, counts>>

\* Any of the generation's rows the filter lets through; or, if the vectors have a sparse part, any
\* of their points instead.
Read(s) ==
    /\ SearchAt(s, "read")
    /\ LET rows == fts[search[s].generation].rows \cap Wanted(s)
       IN  \E hits \in (SUBSET rows) \cup (IF search[s].vectors THEN SUBSET points ELSE {}) :
              SearchBecomes(s, [search[s] EXCEPT !.pc = "dense", !.generation = {}, !.hits = hits])
    /\ UNCHANGED <<indexes, counts>>

\* The text search is switched off, or the query has no word to search for.
SkipText(s) ==
    /\ search[s].pc \in {"generation", "match"}
    /\ SearchGoes(s, "dense")
    /\ UNCHANGED <<indexes, counts>>

\* A ranked list of some of S, cut after the first n.
Best(n, S) == {B \in SUBSET S : IF Cardinality(S) <= n THEN B = S ELSE Cardinality(B) = n}

\* Over all points of the version, whatever the filter.
DenseSearch(s) ==
    /\ SearchAt(s, "dense") /\ search[s].vectors
    /\ \E hits \in Best(DenseTopK, points) :
          SearchBecomes(s, [search[s] EXCEPT !.pc   = "answer",
                                             !.hits = @ \cup hits,
                                             !.full = Cardinality(hits) = DenseTopK])
    /\ UNCHANGED <<indexes, counts>>

\* There are no vectors, or the dense search is switched off or raises.
NoDenseSearch(s) ==
    /\ SearchAt(s, "dense")
    /\ SearchBecomes(s, [search[s] EXCEPT !.pc = "answer", !.vectors = FALSE])
    /\ UNCHANGED <<indexes, counts>>

\* Hits of the vectors and of the graph are of the version, not of the filter; the documents that
\* were listed decide, after the cut.
Allowed(s, final) == final \cap Wanted(s)

\* The hits, with those the graph adds, are fused and cut.  The answer is full if it or the list of
\* the dense search has no room left.
Answer(s) ==
    /\ SearchAt(s, "answer")
    /\ \E graph \in SUBSET Documents : \E final \in Best(FinalTopK, search[s].hits \cup graph) :
          SearchBecomes(s, [search[s] EXCEPT !.pc   = "answered",
                                             !.hits = Allowed(s, final),
                                             !.full = @ \/ Cardinality(final) = FinalTopK])
    /\ UNCHANGED <<indexes, counts>>

\* The process dies with its searches.
SearchesDie ==
    /\ Fault
    /\ search' = [s \in Searchers |-> NoSearch]
    /\ UNCHANGED indexes

----------------------------------------------------------------------------
SearchStep(s) ==
    \/ ReadManifest(s) \/ WriteBuilding(s) \/ Upsert(s) \/ Count(s) \/ WriteManifest(s)
    \/ FindReady(s) \/ CheckOwn(s) \/ Reset(s) \/ Fill(s) \/ Clear(s)
    \/ Match(s) \/ Read(s) \/ SkipText(s) \/ DenseSearch(s) \/ NoDenseSearch(s) \/ Answer(s)

SearchNext ==
    \/ \E s \in Searchers, f \in Filters : List(s, f)
    \/ \E s \in Searchers : SearchStep(s) \/ SyncRaises(s) \/ FillRaises(s)
    \/ SearchesDie

SearchSpec == SearchInit /\ [][SearchNext]_searchVars

----------------------------------------------------------------------------
PCs == {"idle", "manifest", "prepare", "upsert", "count", "accept", "reject", "generation", "check",
        "reset", "fill", "clear", "match", "read", "dense", "answer", "answered"}

SearchTypeOK ==
    /\ fts \in [Filters -> [status : {"absent", "building", "ready", "failed", "superseded"}, rows : SUBSET Documents]]
    /\ manifest \in [Filters -> {"absent", "building", "ready", "failed"}]
    /\ points \in SUBSET Documents
    /\ search \in [Searchers -> [pc : PCs, wanted : SUBSET Documents, vectors : BOOLEAN,
                                 generation : SUBSET Documents, hits : SUBSET Documents,
                                 full : BOOLEAN]]
    /\ counts \in [searches : 0..MaxSearches, faults : 0..MaxFaults]

\* One generation at most is ready, and it has its rows: all of them, and no others.  A ready
\* manifest has its points.  Whatever searches sync the same documents at the same time.
ReadyIsSound ==
    /\ \A g, h \in Ready : g = h
    /\ \A g \in Ready : fts[g].rows = g
    /\ \A g \in Filters : manifest[g] = "ready" => g \subseteq points

\* The types, and both indexes.
IndexesAreSound == SearchTypeOK /\ ReadyIsSound

\* An answer holds nothing its filter shuts out, whichever index has found it.  One that had the
\* vectors misses a document of its filter only if a list had no room for it: no manifest is taken
\* for one whose points are all there when they are not, whoever builds, fails or reads it meanwhile.
AnswersAreRight ==
    \A s \in Searchers : SearchAt(s, "answered") =>
        /\ search[s].hits \subseteq Wanted(s)
        /\ search[s].vectors /\ ~search[s].full => Wanted(s) \subseteq search[s].hits

\* The plan of version 1.5 has one ready generation for a version and profile, of which partial rows
\* are never exposed.  A search with a filter is enough to make one ready that holds the filter's
\* documents only, and all later searches are answered from it.
ReadyIsFull == \A g \in Ready : fts[g].rows = Documents
=============================================================================
