------------------------------ MODULE Knowledge ------------------------------
(***************************************************************************)
(* One document of the knowledge base: its source file, its row and its    *)
(* parent texts in MySQL (app/services/knowledge_sync), its children in    *)
(* the vector index (agent_app/rag/qdrant), the rebuilding of both by      *)
(* operators' runs that may fail or die at any step, and a retriever that  *)
(* searches meanwhile through its versioned cache (agent_app/rag/          *)
(* retriever).  The directory also holds other documents, left out.        *)
(***************************************************************************)
EXTENDS Naturals, Sequences, FiniteSets, SequencesExt

CONSTANTS
    SyncRuns,       \* operators' runs of scripts/rebuild_knowledge.py
    MaxVersion,     \* the file's versions are 1..MaxVersion; 0 is no file
    RetiredVersions,\* versions that say of themselves they are abolished
    MaxSyncs,       \* bound: how often the index becomes ready
    MaxBreaks,      \* bound: calls of the index that fail, runs that die
    MaxCache        \* rag_retrieval_cache_size

ASSUME KnowledgeAssumption ==
    /\ MaxVersion \in Nat \ {0} /\ RetiredVersions \subseteq 1..MaxVersion
    /\ {MaxSyncs, MaxBreaks} \subseteq Nat /\ MaxCache \in Nat \ {0}

VARIABLES
    file,           \* version of the source file, 0 when it was removed
    document,       \* the knowledge_document row
    parents,        \* version of the knowledge_parent rows, 0 without
    index,          \* version of each child in the index, 0 without
    syncs,          \* what each run is doing
    readied,        \* how often the index became ready, which indexed_at tells
    breaks,         \* failures so far
    search,         \* the retriever's call
    lapsed,         \* see AnswerIsCurrent
    cached          \* its retrieval cache, least recently used entry first

knowledgeVars ==
    <<file, document, parents, index, syncs, readied, breaks, search, lapsed, cached>>

Versions == 1..MaxVersion
StatusOf(v) == IF v \in RetiredVersions THEN "RETIRED" ELSE "ACTIVE"

\* Children have stable ids, by the parent they are a part of and their place
\* in it.  Odd versions split into two children, even ones into one.
Places == {1, 2}
ChildrenOf(v) == [p \in Places |-> IF p = 1 \/ v % 2 = 1 THEN v ELSE 0]
NoChildren == [p \in Places |-> 0]

Documents == [exists : BOOLEAN, version : 0..MaxVersion,
    status : {"ACTIVE", "RETIRED"},
    index_status : {"PENDING", "INDEXING", "READY", "ERROR"}, indexed_at : 0..MaxSyncs]

\* A question about a rule gives its children, one about the whole gives the
\* text of the parent.  The model rewrites either into one and the same text.
Questions == {"rule", "whole"}
Queries == Questions \cup {"rewritten"}
Evidence == [place : Places, cited : Versions, text : Versions]
Keys == Queries \X SUBSET (Versions \X (0..MaxSyncs))

NoSync == [phase |-> "idle", version |-> 0]
NoSearch == [phase |-> "done", question |-> "rule", key |-> <<"rule", {}>>, hits |-> NoChildren,
             evidence |-> {}]

KnowledgeTypeOK ==
    /\ file \in 0..MaxVersion /\ parents \in 0..MaxVersion
    /\ document \in Documents
    /\ index \in [Places -> 0..MaxVersion]
    /\ syncs \in [SyncRuns -> [version : 0..MaxVersion,
         phase : {"idle", "checking", "saving", "deleting", "upserting",
                  "retiring", "clearing", "failing", "ready"}]]
    /\ readied \in 0..MaxSyncs /\ breaks \in 0..MaxBreaks
    /\ lapsed \in BOOLEAN
    /\ search.phase \in {"embedding", "querying", "ranking", "done"}
    /\ search.question \in Questions /\ search.key \in Keys
    /\ search.hits \in [Places -> 0..MaxVersion]
    /\ search.evidence \subseteq Evidence
    /\ \A i \in DOMAIN cached :
        cached[i].key \in Keys /\ cached[i].evidence \subseteq Evidence

KnowledgeInit ==
    /\ file = 1
    /\ document = [exists |-> FALSE, version |-> 0, status |-> "ACTIVE",
                   index_status |-> "PENDING", indexed_at |-> 0]
    /\ parents = 0 /\ index = NoChildren
    /\ syncs = [w \in SyncRuns |-> NoSync]
    /\ readied = 0 /\ breaks = 0
    /\ search = NoSearch /\ lapsed = FALSE /\ cached = <<>>

-----------------------------------------------------------------------------
(***************************************************************************)
(* Rebuilding.                                                             *)
(***************************************************************************)
Goes(w, phase) == syncs' = [syncs EXCEPT ![w].phase = phase]
Ends(w) == syncs' = [syncs EXCEPT ![w] = NoSync]

searching == <<search, lapsed, cached>>

EditFile ==
    /\ file' \in (0..MaxVersion) \ {file}
    /\ UNCHANGED <<document, parents, index, syncs, readied, breaks, searching>>

\* sync_document parses the file, at once for a forced run and for rebuild_all.
Parse(w) ==
    /\ syncs[w].phase = "idle" /\ file # 0 /\ readied < MaxSyncs
    /\ \E phase \in {"checking", "saving"} :
        syncs' = [syncs EXCEPT ![w] = [phase |-> phase, version |-> file]]
    /\ UNCHANGED <<file, document, parents, index, readied, breaks, searching>>

\* _is_current; the provider of the embeddings and the collection stay.
IsCurrent(v) ==
    /\ document.exists /\ document.version = v
    /\ document.index_status = "READY" /\ document.status = StatusOf(v)

CheckCurrent(w) ==
    /\ syncs[w].phase = "checking"
    /\ IF IsCurrent(syncs[w].version) THEN Ends(w) ELSE Goes(w, "saving")
    /\ UNCHANGED <<file, document, parents, index, readied, breaks, searching>>

\* The embeddings, of which any may fail or be incomplete: the run stops.
EmbeddingFails(w) ==
    /\ syncs[w].phase = "saving" /\ Ends(w)
    /\ UNCHANGED <<file, document, parents, index, readied, breaks, searching>>

\* The row and the parents in one transaction
SaveIndexingSnapshot(w) ==
    /\ syncs[w].phase = "saving"
    /\ document' = [document EXCEPT !.exists = TRUE,
            !.version = syncs[w].version, !.status = StatusOf(syncs[w].version),
            !.index_status = "INDEXING"]
    /\ parents' = syncs[w].version
    /\ Goes(w, "deleting")
    /\ UNCHANGED <<file, index, readied, breaks, searching>>

\* A call of the index that fails has had its effect or not.
IndexCall(w, effect, next) ==
    \/ /\ index' = effect /\ Goes(w, next) /\ UNCHANGED breaks
    \/ /\ breaks < MaxBreaks /\ breaks' = breaks + 1
       /\ index' \in {index, effect} /\ Goes(w, "failing")

\* Fault: the points of the new text replace those of the old.
DeleteNothing(w) ==
    /\ syncs[w].phase = "deleting" /\ Goes(w, "upserting")
    /\ UNCHANGED <<file, document, parents, index, readied, breaks, searching>>

DeleteChildren(w) ==
    /\ syncs[w].phase = "deleting"
    /\ IndexCall(w, NoChildren, "upserting")
    /\ UNCHANGED <<file, document, parents, readied, searching>>

\* One batch of points at a time, here of one.
Written(v, to) == [p \in Places |->
    IF p <= to /\ ChildrenOf(v)[p] # 0 THEN v ELSE index[p]]

UpsertChildren(w) ==
    /\ syncs[w].phase = "upserting"
    /\ LET v == syncs[w].version
           rest == {p \in Places : ChildrenOf(v)[p] = v /\ index[p] # v}
           to == IF rest = {} THEN 2 ELSE CHOOSE p \in rest : \A q \in rest : p <= q
       IN IndexCall(w, Written(v, to),
                IF Cardinality(rest) > 1 THEN "upserting" ELSE "ready")
    /\ UNCHANGED <<file, document, parents, readied, searching>>

\* _mark_index_error
MarkIndexError(w) ==
    /\ syncs[w].phase = "failing"
    /\ document' = [document EXCEPT !.index_status = "ERROR"]
    /\ Ends(w)
    /\ UNCHANGED <<file, parents, index, readied, breaks, searching>>

\* _mark_index_ready.  indexed_at has seconds: that no two runs become ready
\* within one is an assumption.
MarkIndexReady(w) ==
    /\ syncs[w].phase = "ready" /\ readied < MaxSyncs
    /\ readied' = readied + 1
    /\ document' = [document EXCEPT !.index_status = "READY", !.indexed_at = readied']
    /\ Ends(w)
    /\ UNCHANGED <<file, parents, index, breaks, searching>>

\* rebuild_all, of a directory without the document's file
Missing == document.exists /\ document.status # "RETIRED"

FindMissing(w) ==
    /\ syncs[w].phase = "idle" /\ file = 0 /\ readied < MaxSyncs
    /\ Missing /\ Goes(w, "retiring")
    /\ UNCHANGED <<file, document, parents, index, readied, breaks, searching>>

Retire(w) ==
    /\ syncs[w].phase = "retiring"
    /\ document' = [document EXCEPT !.status = "RETIRED", !.index_status = "INDEXING"]
    /\ parents' = 0
    /\ Goes(w, "clearing")
    /\ UNCHANGED <<file, index, readied, breaks, searching>>

ClearChildren(w) ==
    /\ syncs[w].phase = "clearing"
    /\ IndexCall(w, NoChildren, "ready")
    /\ UNCHANGED <<file, document, parents, readied, searching>>

RunDies(w) ==
    /\ syncs[w].phase # "idle" /\ breaks < MaxBreaks
    /\ breaks' = breaks + 1 /\ Ends(w)
    /\ UNCHANGED <<file, document, parents, index, readied, searching>>

-----------------------------------------------------------------------------
(***************************************************************************)
(* Searching.                                                              *)
(***************************************************************************)
rebuilding == <<file, document, parents, index, syncs, readied, breaks>>

\* Fault: the version says what the documents are, not when they were indexed.
KnowledgeVersionOfText ==
    IF document.exists /\ document.status = "ACTIVE" /\ document.index_status = "READY"
    THEN {<<document.version, 0>>} ELSE {}

\* get_ready_knowledge_version: of the documents that may be read.  Without this one
\* it is that of the others, here {}, whatever becomes of this one's children.
KnowledgeVersion ==
    IF document.exists /\ document.status = "ACTIVE" /\ document.index_status = "READY"
    THEN {<<document.version, document.indexed_at>>} ELSE {}

\* _rewrite: without a rewriter, for a plain question, and when the rewriter
\* fails, the question stays; retrieve also reads the version meanwhile.
AskQuestion ==
    /\ search.phase = "done"
    /\ \E question \in Questions : \E query \in {question, "rewritten"} :
        search' = [NoSearch EXCEPT !.phase = "embedding", !.question = question,
                    !.key = <<query, KnowledgeVersion>>]
    /\ UNCHANGED <<rebuilding, lapsed, cached>>

\* A key has one entry at most.
Hit == {i \in DOMAIN cached : cached[i].key = search.key}
Others == IF Hit = {} THEN cached ELSE RemoveAt(cached, CHOOSE i \in Hit : TRUE)

\* VersionedTTLCache.get: an entry that is found becomes the latest.  One that
\* has expired is not found, and goes.
LookUp ==
    /\ search.phase = "embedding"
    /\ \/ \E i \in Hit :
            /\ search' = [search EXCEPT !.phase = "done",
                            !.evidence = cached[i].evidence]
            /\ cached' = Append(Others, cached[i])
       \/ /\ search' = [search EXCEPT !.phase = "querying"]
          /\ cached' = Others
    /\ UNCHANGED <<rebuilding, lapsed>>

\* The document is not there, or was withdrawn and its rebuilding has ended.
Withdrawn ==
    \/ ~document.exists
    \/ document.status = "RETIRED" /\ document.index_status = "READY"

\* build_filter: the status is that of the child.  All of the document's
\* children are about the question and pass the reranker's threshold.
QueryHybrid ==
    /\ search.phase = "querying"
    /\ search' = [search EXCEPT !.phase = "ranking",
        !.hits = [p \in Places |->
            IF index[p] # 0 /\ StatusOf(index[p]) = "ACTIVE" THEN index[p] ELSE 0]]
    /\ lapsed' = (lapsed \/ (search.key[2] = {} /\ ~Withdrawn))
    /\ UNCHANGED <<rebuilding, cached>>

\* get_ready_parents_by_ids
ParentFound ==
    /\ parents # 0 /\ StatusOf(parents) = "ACTIVE"
    /\ document.status = "ACTIVE" /\ document.index_status = "READY"

\* BailianRerankProvider.rerank: the hits that pass, here all
Ranked(hits) == {p \in Places : hits[p] # 0}

\* _build_context, by the question as it was asked: the parent's text once, for its first child, or each child's
Context(question, hits) ==
    IF question = "whole" /\ ParentFound /\ Ranked(hits) # {}
    THEN LET p == CHOOSE p \in Ranked(hits) : \A q \in Ranked(hits) : p <= q
         IN {[place |-> p, cited |-> hits[p], text |-> parents]}
    ELSE {[place |-> p, cited |-> hits[p], text |-> hits[p]] : p \in Ranked(hits)}

\* VersionedTTLCache.put
Put(entry) ==
    LET all == Append(Others, entry)
    IN IF Len(all) > MaxCache THEN Tail(all) ELSE all

Rerank ==
    /\ search.phase = "ranking"
    /\ LET evidence == Context(search.question, search.hits)
       IN /\ search' = [search EXCEPT !.phase = "done", !.evidence = evidence,
                         !.hits = NoChildren]
          /\ cached' = Put([key |-> search.key, evidence |-> evidence])
    /\ UNCHANGED <<rebuilding, lapsed>>

\* The provider of the vectors or of the ranking, or the index, gives up after
\* its own retries: no answer, and nothing is kept.
SearchFails ==
    /\ search.phase # "done"
    /\ search' = NoSearch
    /\ UNCHANGED <<rebuilding, lapsed, cached>>

KnowledgeNext ==
    \/ EditFile \/ AskQuestion \/ LookUp \/ QueryHybrid \/ Rerank \/ SearchFails
    \/ \E w \in SyncRuns :
        \/ Parse(w) \/ CheckCurrent(w) \/ EmbeddingFails(w) \/ SaveIndexingSnapshot(w)
        \/ DeleteChildren(w) \/ UpsertChildren(w) \/ MarkIndexError(w)
        \/ MarkIndexReady(w) \/ FindMissing(w) \/ Retire(w) \/ ClearChildren(w)
        \/ RunDies(w)

KnowledgeSpec == KnowledgeInit /\ [][KnowledgeNext]_knowledgeVars

-----------------------------------------------------------------------------
(***************************************************************************)
(* Properties.                                                             *)
(***************************************************************************)

\* A document said to be ready has in the index all children of the text that
\* is saved, and no others: whatever runs failed or died before, at any step.
ReadyIsIndexed ==
    document.index_status = "READY" =>
        index = IF parents = 0 THEN NoChildren ELSE ChildrenOf(parents)

\* An answer given while the knowledge is what it was when the question came
\* has the evidence of that knowledge, from the cache too: nothing a search
\* found while a document was being rebuilt is served when it may be read again.
\* It may be the evidence of another question that was rewritten alike.  And of a
\* document that may not be read there is no evidence, with one exception: once a
\* search under the version of the others has asked the index while this document
\* was being rebuilt or could be read (lapsed), what it found is kept under that
\* version, and served after the document was withdrawn.
AnswerIsCurrent ==
    search.phase = "done" /\ search.key[2] = KnowledgeVersion =>
        IF KnowledgeVersion = {} THEN lapsed \/ search.evidence = {}
        ELSE \E question \in Questions :
            /\ search.key[1] \in {question, "rewritten"}
            /\ search.evidence = Context(question, ChildrenOf(document.version))
=============================================================================
