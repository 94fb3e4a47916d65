--------------------------- MODULE KnowledgeProofs ---------------------------
(***************************************************************************)
(* Theorems about Knowledge for any number of versions and questions, and  *)
(* any size of the cache, while one run of the sync goes on at a time.     *)
(***************************************************************************)
EXTENDS Knowledge, FiniteSetTheorems, TLAPS

\* The children of what is saved
TextChildren == IF parents = 0 THEN NoChildren ELSE ChildrenOf(parents)

Sync == [version : 0..MaxVersion,
         phase : {"idle", "checking", "saving", "deleting", "upserting",
                  "retiring", "clearing", "failing", "ready"}]

RebuildTypeOK ==
    /\ file \in 0..MaxVersion /\ parents \in 0..MaxVersion
    /\ document \in Documents
    /\ index \in [Places -> 0..MaxVersion]
    /\ syncs \in [SyncRuns -> Sync]
    /\ readied \in 0..MaxSyncs /\ breaks \in 0..MaxBreaks

\* What a run has done of its rebuilding, by its phase
SyncOK(r) ==
    /\ r.phase \in {"checking", "saving", "deleting", "upserting"} => r.version \in Versions
    /\ r.phase \in {"deleting", "upserting", "clearing", "failing"} =>
        document.index_status # "READY"
    /\ r.phase \in {"deleting", "upserting"} => parents = r.version
    /\ r.phase = "upserting" => \A p \in Places :
        index[p] = 0 \/ (index[p] = r.version /\ ChildrenOf(r.version)[p] = r.version)
    /\ r.phase = "clearing" => parents = 0
    /\ r.phase = "ready" => index = TextChildren

\* A document that may be read has its text saved.
ActiveIsSaved ==
    document.exists /\ document.status = "ACTIVE" =>
        /\ document.version \in Versions /\ parents = document.version
        /\ StatusOf(document.version) = "ACTIVE"

RebuildInv ==
    /\ RebuildTypeOK /\ ReadyIsIndexed /\ ActiveIsSaved
    /\ \A w \in SyncRuns : SyncOK(syncs[w])

\* One run at a time
OneRun == \A v, w \in SyncRuns : v = w

LEMMA ChildrenShape ==
    ASSUME NEW v \in Versions
    PROVE  /\ ChildrenOf(v) \in [Places -> {0, v}] /\ ChildrenOf(v)[1] = v
           /\ v \in Nat /\ v # 0 /\ v \in 0..MaxVersion
  BY KnowledgeAssumption DEF ChildrenOf, Versions, Places

LEMMA NoChildrenShape == NoChildren \in [Places -> {0}]
  BY DEF NoChildren

LEMMA TwoPlaces == \A p \in Places : p = 1 \/ p = 2
  BY DEF Places

LEMMA RunTypes ==
    ASSUME RebuildTypeOK, NEW w \in SyncRuns
    PROVE  syncs[w] \in Sync
  BY DEF RebuildTypeOK

LEMMA NoSyncOK == NoSync \in Sync /\ SyncOK(NoSync)
  BY KnowledgeAssumption DEF NoSync, Sync, SyncOK

\* What goes on: a run's record is replaced.
LEMMA GoesReplaces ==
    ASSUME RebuildTypeOK, NEW w \in SyncRuns,
           NEW next \in {"saving", "deleting", "upserting", "retiring", "clearing", "failing", "ready"},
           Goes(w, next)
    PROVE  \E r \in Sync : /\ syncs' = [syncs EXCEPT ![w] = r]
                           /\ r.phase = next /\ r.version = syncs[w].version
<1> DEFINE r == [syncs[w] EXCEPT !.phase = next]
<1>1. syncs[w] \in Sync /\ syncs \in [SyncRuns -> Sync]
  BY DEF RebuildTypeOK
<1>2. r \in Sync /\ r.phase = next /\ r.version = syncs[w].version
  BY <1>1 DEF Sync
<1>3. syncs' = [syncs EXCEPT ![w] = r]
  BY <1>1 DEF Goes
<1>4. QED
  BY <1>2, <1>3

\* With one run at a time, what it leaves behind is all there is.
LEMMA OneRunSteps ==
    ASSUME RebuildInv, OneRun, NEW w \in SyncRuns, NEW r \in Sync,
           syncs' = [syncs EXCEPT ![w] = r], SyncOK(r)',
           file' \in 0..MaxVersion, parents' \in 0..MaxVersion, document' \in Documents,
           index' \in [Places -> 0..MaxVersion],
           readied' \in 0..MaxSyncs, breaks' \in 0..MaxBreaks,
           ReadyIsIndexed', ActiveIsSaved'
    PROVE  RebuildInv'
<1>1. syncs \in [SyncRuns -> Sync] /\ \A v \in SyncRuns : v = w
  BY DEF RebuildInv, RebuildTypeOK, OneRun
<1>2. syncs' \in [SyncRuns -> Sync] /\ \A v \in SyncRuns : syncs'[v] = r
  BY <1>1
<1>3. \A v \in SyncRuns : SyncOK(syncs[v])'
  BY <1>2 DEF SyncOK
<1>4. RebuildTypeOK'
  BY <1>2 DEF RebuildTypeOK
<1>5. QED
  BY <1>3, <1>4 DEF RebuildInv

\* A run that leaves the rows and the points as they are
LEMMA OnlyTheRun ==
    ASSUME RebuildInv, OneRun, NEW w \in SyncRuns, NEW r \in Sync,
           syncs' = [syncs EXCEPT ![w] = r], SyncOK(r),
           breaks' \in 0..MaxBreaks, UNCHANGED <<file, document, parents, index, readied>>
    PROVE  RebuildInv'
<1>1. SyncOK(r)' /\ ReadyIsIndexed' /\ ActiveIsSaved'
  BY DEF SyncOK, ReadyIsIndexed, ActiveIsSaved, RebuildInv, TextChildren
<1>2. QED
  BY <1>1, OneRunSteps DEF RebuildInv, RebuildTypeOK

LEMMA RunsKeepInv ==
    ASSUME RebuildInv, OneRun, NEW w \in SyncRuns,
           \/ Parse(w) \/ CheckCurrent(w) \/ EmbeddingFails(w) \/ FindMissing(w) \/ RunDies(w)
    PROVE  RebuildInv'
<1>1. RebuildTypeOK /\ SyncOK(syncs[w]) /\ NoSync \in Sync /\ SyncOK(NoSync)
  BY NoSyncOK DEF RebuildInv
<1>2. breaks \in 0..MaxBreaks
  BY <1>1 DEF RebuildTypeOK
<1>3. CASE Parse(w)
  <2>1. PICK phase_ \in {"checking", "saving"} :
          syncs' = [syncs EXCEPT ![w] = [phase |-> phase_, version |-> file]]
    BY <1>3 DEF Parse
  <2> DEFINE r == [phase |-> phase_, version |-> file]
  <2>2. file \in Versions /\ file \in 0..MaxVersion
    BY <1>1, <1>3, KnowledgeAssumption DEF Parse, RebuildTypeOK, Versions
  <2>3. r \in Sync /\ SyncOK(r)
    BY <2>2 DEF Sync, SyncOK
  <2>4. UNCHANGED <<file, document, parents, index, readied, breaks>>
    BY <1>3 DEF Parse
  <2> HIDE DEF r
  <2>5. syncs' = [syncs EXCEPT ![w] = r]
    BY <2>1 DEF r
  <2>6. QED
    BY <1>2, <2>3, <2>4, <2>5, OnlyTheRun
<1>4. CASE CheckCurrent(w)
  <2>1. UNCHANGED <<file, document, parents, index, readied, breaks>>
    BY <1>4 DEF CheckCurrent
  <2>2. CASE Ends(w)
    BY <1>1, <1>2, <2>1, <2>2, OnlyTheRun DEF Ends
  <2>3. CASE Goes(w, "saving")
    <3>1. PICK r \in Sync : /\ syncs' = [syncs EXCEPT ![w] = r]
                            /\ r.phase = "saving" /\ r.version = syncs[w].version
      BY <1>1, <2>3, GoesReplaces
    <3>2. SyncOK(r)
      BY <1>1, <1>4, <3>1 DEF CheckCurrent, SyncOK
    <3>3. QED
      BY <1>2, <2>1, <3>1, <3>2, OnlyTheRun
  <2>4. QED
    BY <1>4, <2>2, <2>3 DEF CheckCurrent
<1>5. CASE EmbeddingFails(w)
  BY <1>1, <1>2, <1>5, OnlyTheRun DEF EmbeddingFails, Ends
<1>6. CASE FindMissing(w)
  <2>1. PICK r \in Sync : /\ syncs' = [syncs EXCEPT ![w] = r]
                          /\ r.phase = "retiring" /\ r.version = syncs[w].version
    BY <1>1, <1>6, GoesReplaces DEF FindMissing
  <2>2. SyncOK(r)
    BY <2>1 DEF SyncOK
  <2>3. QED
    BY <1>2, <1>6, <2>1, <2>2, OnlyTheRun DEF FindMissing
<1>7. CASE RunDies(w)
  <2>1. breaks' \in 0..MaxBreaks
    BY <1>2, <1>7, KnowledgeAssumption DEF RunDies
  <2>2. QED
    BY <1>1, <1>7, <2>1, OnlyTheRun DEF RunDies, Ends
<1>8. QED
  BY <1>3, <1>4, <1>5, <1>6, <1>7

\* Saving and retiring: the row says that the index is being made.
LEMMA SavingKeepsInv ==
    ASSUME RebuildInv, OneRun, NEW w \in SyncRuns, SaveIndexingSnapshot(w) \/ Retire(w)
    PROVE  RebuildInv'
<1>1. /\ RebuildTypeOK /\ SyncOK(syncs[w]) /\ syncs[w] \in Sync /\ document \in Documents
      /\ file \in 0..MaxVersion /\ index \in [Places -> 0..MaxVersion]
      /\ readied \in 0..MaxSyncs /\ breaks \in 0..MaxBreaks
  BY DEF RebuildInv, RebuildTypeOK
<1>2. CASE SaveIndexingSnapshot(w)
  <2> DEFINE v == syncs[w].version
  <2>1. v \in Versions /\ v \in 0..MaxVersion
    BY <1>1, <1>2, ChildrenShape DEF SaveIndexingSnapshot, SyncOK
  <2>2. /\ document' = [document EXCEPT !.exists = TRUE, !.version = v, !.status = StatusOf(v),
                            !.index_status = "INDEXING"]
        /\ parents' = v /\ Goes(w, "deleting") /\ UNCHANGED <<file, index, readied, breaks>>
    BY <1>2 DEF SaveIndexingSnapshot
  <2>3. StatusOf(v) \in {"ACTIVE", "RETIRED"}
    BY DEF StatusOf
  <2> HIDE DEF v
  <2>4. /\ document' \in Documents /\ document'.version = v /\ document'.status = StatusOf(v)
        /\ document'.index_status = "INDEXING"
    BY <1>1, <2>1, <2>2, <2>3 DEF Documents
  <2>5. PICK r \in Sync : /\ syncs' = [syncs EXCEPT ![w] = r]
                          /\ r.phase = "deleting" /\ r.version = v
    BY <1>1, <2>2, GoesReplaces DEF v
  <2>6. SyncOK(r)' /\ ReadyIsIndexed' /\ ActiveIsSaved'
    BY <2>1, <2>2, <2>4, <2>5 DEF SyncOK, ReadyIsIndexed, ActiveIsSaved
  <2>7. QED
    BY <1>1, <2>1, <2>2, <2>4, <2>5, <2>6, OneRunSteps
<1>3. CASE Retire(w)
  <2>1. /\ document' = [document EXCEPT !.status = "RETIRED", !.index_status = "INDEXING"]
        /\ parents' = 0 /\ Goes(w, "clearing") /\ UNCHANGED <<file, index, readied, breaks>>
    BY <1>3 DEF Retire
  <2>2. /\ document' \in Documents /\ document'.status = "RETIRED"
        /\ document'.index_status = "INDEXING"
    BY <1>1, <2>1 DEF Documents
  <2>3. PICK r \in Sync : /\ syncs' = [syncs EXCEPT ![w] = r]
                          /\ r.phase = "clearing" /\ r.version = syncs[w].version
    BY <1>1, <2>1, GoesReplaces
  <2>4. SyncOK(r)' /\ ReadyIsIndexed' /\ ActiveIsSaved'
    BY <2>1, <2>2, <2>3 DEF SyncOK, ReadyIsIndexed, ActiveIsSaved
  <2>5. parents' \in 0..MaxVersion
    BY <2>1, KnowledgeAssumption
  <2>6. QED
    BY <1>1, <2>1, <2>2, <2>3, <2>4, <2>5, OneRunSteps
<1>4. QED
  BY <1>2, <1>3

\* A call of the index, done or not, in a phase in which the row is not ready
LEMMA CallsKeepInv ==
    ASSUME RebuildInv, OneRun, NEW w \in SyncRuns, NEW effect \in [Places -> 0..MaxVersion],
           NEW next \in {"upserting", "ready"}, IndexCall(w, effect, next),
           syncs[w].phase \in {"deleting", "upserting", "clearing"},
           UNCHANGED <<file, document, parents, readied>>,
           next = "upserting" =>
               /\ syncs[w].version \in Versions /\ parents = syncs[w].version
               /\ \A p \in Places : effect[p] = 0 \/
                   (effect[p] = syncs[w].version
                    /\ ChildrenOf(syncs[w].version)[p] = syncs[w].version),
           next = "ready" => effect = TextChildren
    PROVE  RebuildInv'
<1>1. /\ RebuildTypeOK /\ SyncOK(syncs[w]) /\ document \in Documents
      /\ file \in 0..MaxVersion /\ parents \in 0..MaxVersion /\ index \in [Places -> 0..MaxVersion]
      /\ readied \in 0..MaxSyncs /\ breaks \in 0..MaxBreaks /\ ActiveIsSaved
  BY DEF RebuildInv, RebuildTypeOK
<1>2. document.index_status # "READY"
  BY <1>1 DEF SyncOK
<1>3. ReadyIsIndexed' /\ ActiveIsSaved'
  BY <1>1, <1>2 DEF ReadyIsIndexed, ActiveIsSaved
<1>4. CASE index' = effect /\ Goes(w, next) /\ UNCHANGED breaks
  <2>1. PICK r \in Sync : /\ syncs' = [syncs EXCEPT ![w] = r]
                          /\ r.phase = next /\ r.version = syncs[w].version
    BY <1>1, <1>4, GoesReplaces
  <2>2. CASE next = "upserting"
    <3>1. SyncOK(r)'
      BY <1>2, <1>4, <2>1, <2>2 DEF SyncOK
    <3>2. QED
      BY <1>1, <1>3, <1>4, <2>1, <3>1, OneRunSteps
  <2>3. CASE next = "ready"
    <3>1. TextChildren' = TextChildren
      BY DEF TextChildren
    <3>2. SyncOK(r)'
      BY <1>4, <2>1, <2>3, <3>1 DEF SyncOK
    <3>3. QED
      BY <1>1, <1>3, <1>4, <2>1, <3>2, OneRunSteps
  <2>4. QED
    BY <2>2, <2>3
<1>5. CASE breaks < MaxBreaks /\ breaks' = breaks + 1 /\ index' \in {index, effect}
           /\ Goes(w, "failing")
  <2>1. PICK r \in Sync : /\ syncs' = [syncs EXCEPT ![w] = r]
                          /\ r.phase = "failing" /\ r.version = syncs[w].version
    BY <1>1, <1>5, GoesReplaces
  <2>2. SyncOK(r)'
    BY <1>2, <2>1 DEF SyncOK
  <2>3. breaks' \in 0..MaxBreaks /\ index' \in [Places -> 0..MaxVersion]
    BY <1>1, <1>5, KnowledgeAssumption
  <2>4. QED
    BY <1>1, <1>3, <2>1, <2>2, <2>3, OneRunSteps
<1>6. QED
  BY <1>4, <1>5 DEF IndexCall

LEMMA DeletingKeepsInv ==
    ASSUME RebuildInv, OneRun, NEW w \in SyncRuns, DeleteChildren(w) \/ ClearChildren(w)
    PROVE  RebuildInv'
<1>1. SyncOK(syncs[w]) /\ NoChildren \in [Places -> 0..MaxVersion]
      /\ \A p \in Places : NoChildren[p] = 0
  BY KnowledgeAssumption DEF RebuildInv, NoChildren
<1>2. CASE DeleteChildren(w)
  BY <1>1, <1>2, CallsKeepInv DEF DeleteChildren, SyncOK
<1>3. CASE ClearChildren(w)
  <2>1. TextChildren = NoChildren
    BY <1>1, <1>3 DEF ClearChildren, SyncOK, TextChildren
  <2>2. QED
    BY <1>1, <1>3, <2>1, CallsKeepInv DEF ClearChildren
<1>4. QED
  BY <1>2, <1>3

\* A batch of points: when the last one is written, the index has them all.
LEMMA UpsertingKeepsInv ==
    ASSUME RebuildInv, OneRun, NEW w \in SyncRuns, UpsertChildren(w)
    PROVE  RebuildInv'
<1> DEFINE v == syncs[w].version
           rest == {p \in Places : ChildrenOf(v)[p] = v /\ index[p] # v}
           to == IF rest = {} THEN 2 ELSE CHOOSE p \in rest : \A q \in rest : p <= q
           effect == Written(v, to)
           next == IF Cardinality(rest) > 1 THEN "upserting" ELSE "ready"
<1>1. /\ syncs[w].phase = "upserting" /\ IndexCall(w, effect, next)
      /\ UNCHANGED <<file, document, parents, readied>>
  BY DEF UpsertChildren
<1>2. /\ v \in Versions /\ parents = v /\ index \in [Places -> 0..MaxVersion]
      /\ \A p \in Places : index[p] = 0 \/ (index[p] = v /\ ChildrenOf(v)[p] = v)
  BY <1>1 DEF RebuildInv, RebuildTypeOK, SyncOK
<1>3. /\ \A p \in Places : ChildrenOf(v)[p] \in {0, v}
      /\ ChildrenOf(v) \in [Places -> {0, v}] /\ v # 0 /\ v \in 0..MaxVersion
  BY <1>2, ChildrenShape
<1>4. effect = [p \in Places |-> IF p <= to /\ ChildrenOf(v)[p] # 0 THEN v ELSE index[p]]
  BY DEF Written
<1>5. effect \in [Places -> 0..MaxVersion]
  <2> HIDE DEF v, to
  <2>1. QED
    BY <1>2, <1>3, <1>4
<1>6. \A p \in Places : effect[p] = 0 \/ (effect[p] = v /\ ChildrenOf(v)[p] = v)
  <2> HIDE DEF v, to
  <2>1. QED
    BY <1>2, <1>3, <1>4
<1>7. TextChildren = ChildrenOf(v)
  BY <1>2, <1>3 DEF TextChildren
<1>8. ASSUME ~(Cardinality(rest) > 1) PROVE effect = ChildrenOf(v)
  <2>1. rest # {1, 2}
    <3>1. Cardinality({1, 2}) = 2
      <4>1. Cardinality({1}) = 1 /\ IsFiniteSet({1})
        BY FS_Singleton, Zenon
      <4>2. 2 \notin {1}
        OBVIOUS
      <4>3. Cardinality({1} \cup {2}) = Cardinality({1}) + 1
        BY <4>1, <4>2, FS_AddElement
      <4>4. {1} \cup {2} = {1, 2}
        OBVIOUS
      <4>5. QED
        BY <4>1, <4>3, <4>4
    <3>2. QED
      BY <1>8, <3>1
  <2>2. rest \subseteq {1, 2}
    BY TwoPlaces
  <2>3. rest = {} \/ rest = {1} \/ rest = {2}
    <3> HIDE DEF rest
    <3>1. QED
      BY <2>1, <2>2
  <2>4. \A p \in Places : p \in rest => p = to
    BY <2>3
  <2>5. to \in {1, 2} /\ (rest = {} => to = 2)
    BY <2>3
  <2>6. \A p \in Places : effect[p] = ChildrenOf(v)[p]
    <3> SUFFICES ASSUME NEW p \in Places PROVE effect[p] = ChildrenOf(v)[p]
      OBVIOUS
    <3>1. effect[p] = IF p <= to /\ ChildrenOf(v)[p] # 0 THEN v ELSE index[p]
      BY <1>4
    <3>2. p \notin rest => ChildrenOf(v)[p] # v \/ index[p] = v
      OBVIOUS
    <3>3. p \in rest => p <= to
      BY <2>4, TwoPlaces
    <3> HIDE DEF rest, to, v, effect
    <3>4. QED
      BY <1>2, <1>3, <3>1, <3>2, <3>3
  <2>7. DOMAIN effect = Places /\ DOMAIN ChildrenOf(v) = Places
    BY <1>3, <1>5
  <2> HIDE DEF effect, v
  <2>8. QED
    BY <1>3, <1>5, <2>6, <2>7
<1>9. next \in {"upserting", "ready"}
  OBVIOUS
<1>10. next = "ready" => effect = TextChildren
  BY <1>7, <1>8
<1> HIDE DEF effect, next, rest, to
<1>11. QED
  BY <1>1, <1>2, <1>5, <1>6, <1>9, <1>10, CallsKeepInv

LEMMA MarkingKeepsInv ==
    ASSUME RebuildInv, OneRun, NEW w \in SyncRuns, MarkIndexError(w) \/ MarkIndexReady(w)
    PROVE  RebuildInv'
<1>1. /\ RebuildTypeOK /\ SyncOK(syncs[w]) /\ document \in Documents
      /\ file \in 0..MaxVersion /\ parents \in 0..MaxVersion /\ index \in [Places -> 0..MaxVersion]
      /\ readied \in 0..MaxSyncs /\ breaks \in 0..MaxBreaks /\ ActiveIsSaved
      /\ NoSync \in Sync
  BY NoSyncOK DEF RebuildInv, RebuildTypeOK
<1>2. SyncOK(NoSync)'
  BY DEF SyncOK, NoSync
<1>3. CASE MarkIndexError(w)
  <2>1. document' = [document EXCEPT !.index_status = "ERROR"]
        /\ UNCHANGED <<file, parents, index, readied, breaks>>
    BY <1>3 DEF MarkIndexError
  <2>2. /\ document' \in Documents /\ document'.index_status = "ERROR"
        /\ document'.status = document.status /\ document'.version = document.version
        /\ document'.exists = document.exists
    BY <1>1, <2>1 DEF Documents
  <2>3. ReadyIsIndexed' /\ ActiveIsSaved'
    BY <1>1, <2>1, <2>2 DEF ReadyIsIndexed, ActiveIsSaved
  <2>4. QED
    BY <1>1, <1>2, <1>3, <2>1, <2>2, <2>3, OneRunSteps DEF MarkIndexError, Ends
<1>4. CASE MarkIndexReady(w)
  <2>1. /\ document' = [document EXCEPT !.index_status = "READY", !.indexed_at = readied']
        /\ readied' = readied + 1 /\ readied < MaxSyncs
        /\ UNCHANGED <<file, parents, index, breaks>> /\ index = TextChildren
    BY <1>1, <1>4 DEF MarkIndexReady, SyncOK
  <2>2. readied' \in 0..MaxSyncs
    BY <1>1, <2>1, KnowledgeAssumption
  <2>3. /\ document' \in Documents
        /\ document'.status = document.status /\ document'.version = document.version
        /\ document'.exists = document.exists
    BY <1>1, <2>1, <2>2 DEF Documents
  <2>4. ReadyIsIndexed' /\ ActiveIsSaved'
    BY <1>1, <2>1, <2>3 DEF ReadyIsIndexed, ActiveIsSaved, TextChildren
  <2>5. QED
    BY <1>1, <1>2, <1>4, <2>1, <2>2, <2>3, <2>4, OneRunSteps DEF MarkIndexReady, Ends
<1>5. QED
  BY <1>3, <1>4

LEMMA RebuildInvInit == KnowledgeInit => RebuildInv
<1> SUFFICES ASSUME KnowledgeInit PROVE RebuildInv
  OBVIOUS
<1>1. NoSync \in Sync /\ SyncOK(NoSync)
  BY NoSyncOK
<1>2. \A w \in SyncRuns : syncs[w] = NoSync
  BY DEF KnowledgeInit
<1>3. document \in Documents /\ document.index_status = "PENDING" /\ ~document.exists
  BY KnowledgeAssumption DEF KnowledgeInit, Documents
<1>4. RebuildTypeOK
  BY <1>1, <1>3, KnowledgeAssumption DEF KnowledgeInit, RebuildTypeOK, NoChildren
<1>5. ReadyIsIndexed /\ ActiveIsSaved
  BY <1>3 DEF ReadyIsIndexed, ActiveIsSaved
<1>6. QED
  BY <1>1, <1>2, <1>4, <1>5 DEF RebuildInv

\* The steps of a search, and an edit of the file, leave the rebuilding alone.
LEMMA OthersKeepRebuild ==
    RebuildInv /\ (EditFile \/ UNCHANGED rebuilding) => RebuildInv'
<1>1. ASSUME RebuildInv, EditFile PROVE RebuildInv'
  <2>1. file' \in 0..MaxVersion /\ UNCHANGED <<document, parents, index, syncs, readied, breaks>>
    BY <1>1 DEF EditFile
  <2>2. RebuildTypeOK'
    BY <1>1, <2>1 DEF RebuildInv, RebuildTypeOK
  <2>3. QED
    BY <1>1, <2>1, <2>2 DEF RebuildInv, ReadyIsIndexed, ActiveIsSaved, SyncOK, TextChildren
<1>2. ASSUME RebuildInv, UNCHANGED rebuilding PROVE RebuildInv'
  BY <1>2 DEF rebuilding, RebuildInv, RebuildTypeOK, ReadyIsIndexed, ActiveIsSaved, SyncOK,
              TextChildren
<1>3. QED
  BY <1>1, <1>2

LEMMA RebuildInvStep ==
    ASSUME OneRun
    PROVE  RebuildInv /\ [KnowledgeNext]_knowledgeVars => RebuildInv'
<1>1. ASSUME RebuildInv, KnowledgeNext PROVE RebuildInv'
  <2>1. CASE EditFile \/ AskQuestion \/ LookUp \/ QueryHybrid \/ Rerank \/ SearchFails
    <3>1. EditFile \/ UNCHANGED rebuilding
      BY <2>1 DEF AskQuestion, LookUp, QueryHybrid, Rerank, SearchFails, rebuilding
    <3>2. QED
      BY <1>1, <3>1, OthersKeepRebuild
  <2>2. ASSUME NEW w \in SyncRuns,
        \/ Parse(w) \/ CheckCurrent(w) \/ EmbeddingFails(w) \/ SaveIndexingSnapshot(w)
        \/ DeleteChildren(w) \/ UpsertChildren(w) \/ MarkIndexError(w)
        \/ MarkIndexReady(w) \/ FindMissing(w) \/ Retire(w) \/ ClearChildren(w)
        \/ RunDies(w)
        PROVE RebuildInv'
    BY <1>1, <2>2, RunsKeepInv, SavingKeepsInv, DeletingKeepsInv, UpsertingKeepsInv,
       MarkingKeepsInv
  <2>3. QED
    BY <1>1, <2>1, <2>2 DEF KnowledgeNext
<1>2. ASSUME RebuildInv, UNCHANGED knowledgeVars PROVE RebuildInv'
  BY <1>2, OthersKeepRebuild DEF knowledgeVars, rebuilding
<1>3. QED
  BY <1>1, <1>2

\* As long as operators run the rebuilding one at a time, a document said to be ready
\* has in the index all children of its text and no others, wherever runs fail or die.
THEOREM ReadyDocumentsAreIndexed ==
    ASSUME OneRun
    PROVE  KnowledgeSpec => []ReadyIsIndexed
<1>1. RebuildInv => ReadyIsIndexed
  BY DEF RebuildInv
<1>2. QED
  BY <1>1, RebuildInvInit, RebuildInvStep, PTL DEF KnowledgeSpec

\* An entry of the cache, and the retriever's call
CacheEntry == [key : Keys, evidence : SUBSET Evidence]
Search == [phase : {"embedding", "querying", "ranking", "done"}, question : Questions,
           key : Keys, hits : [Places -> 0..MaxVersion], evidence : SUBSET Evidence]

\* The key is one of the knowledge as it is, and as it is ready.
IsFresh(key) == key[2] = KnowledgeVersion /\ KnowledgeVersion # {}

\* A key tells when its documents became ready, which is not in the future.
IsPast(key) == \A text \in key[2] : text[2] <= readied

\* The evidence of a question that has this key
IsAnswer(key, evidence) ==
    \E question \in Questions :
        /\ key[1] \in {question, "rewritten"}
        /\ evidence = Context(question, ChildrenOf(document.version))

SearchTypeOK == search \in Search /\ cached \in Seq(CacheEntry)

\* What the call has found, and what the cache keeps, is of the knowledge its key names.
FoundIsFresh ==
    /\ document.indexed_at <= readied /\ IsPast(search.key)
    /\ search.key[1] \in {search.question, "rewritten"}
    /\ search.phase = "ranking" /\ IsFresh(search.key) =>
        search.hits = ChildrenOf(document.version)
    /\ search.phase = "done" /\ IsFresh(search.key) => IsAnswer(search.key, search.evidence)
    /\ \A i \in DOMAIN cached :
        /\ IsPast(cached[i].key)
        /\ IsFresh(cached[i].key) => IsAnswer(cached[i].key, cached[i].evidence)

SearchInv == RebuildInv /\ SearchTypeOK /\ FoundIsFresh

LEMMA KeyFields ==
    ASSUME NEW key \in Keys
    PROVE  /\ key[1] \in Queries
           /\ \A text \in key[2] : text[2] \in 0..MaxSyncs
  BY DEF Keys

\* What a rebuilding step does to the knowledge that is ready: it leaves it alone,
\* makes it be not ready, or makes it ready at a new time.
KnowledgeStays ==
    \/ KnowledgeVersion' = {}
    \/ document' = document /\ parents' = parents /\ readied' = readied
    \/ /\ readied' = readied + 1
       /\ KnowledgeVersion' = {<<document'.version, readied'>>}

LEMMA NewKnowledge ==
    ASSUME SearchInv, RebuildInv', KnowledgeStays, readied' \in {readied, readied + 1},
           document'.indexed_at \in {document.indexed_at, readied'}, UNCHANGED searching
    PROVE  SearchInv'
<1>1. readied \in Nat /\ readied' \in Nat /\ readied <= readied'
  BY KnowledgeAssumption DEF SearchInv, RebuildInv, RebuildTypeOK
<1>2. document.indexed_at \in Nat /\ document.indexed_at <= readied
  BY KnowledgeAssumption DEF SearchInv, RebuildInv, RebuildTypeOK, FoundIsFresh, Documents
<1>3. document'.indexed_at <= readied'
  BY <1>1, <1>2
<1>4. search' = search /\ cached' = cached /\ SearchTypeOK'
  BY DEF searching, SearchInv, SearchTypeOK
<1>5. \A key \in Keys : IsPast(key) => IsPast(key)'
  BY <1>1, KeyFields, KnowledgeAssumption DEF IsPast
<1>6. search.key \in Keys /\ \A i \in DOMAIN cached : cached[i].key \in Keys
  <2>1. \A i \in DOMAIN cached : cached[i] \in CacheEntry
    BY DEF SearchInv, SearchTypeOK
  <2>2. QED
    BY <2>1 DEF SearchInv, SearchTypeOK, Search, CacheEntry
<1>7. \A key \in Keys : IsPast(key) /\ IsFresh(key)' =>
        /\ IsFresh(key) /\ document' = document /\ parents' = parents
  <2> SUFFICES ASSUME NEW key \in Keys, IsPast(key),
                      key[2] = KnowledgeVersion', KnowledgeVersion' # {}
               PROVE  IsFresh(key) /\ document' = document /\ parents' = parents
    BY DEF IsFresh
  <2>1. CASE document' = document /\ parents' = parents /\ readied' = readied
    BY <2>1 DEF IsFresh, KnowledgeVersion
  <2>2. CASE readied' = readied + 1 /\ KnowledgeVersion' = {<<document'.version, readied'>>}
    <3>1. <<document'.version, readied'>> \in key[2]
      BY <2>2
    <3>2. readied' <= readied
      BY <3>1 DEF IsPast
    <3>3. QED
      BY <1>1, <2>2, <3>2
  <2>3. QED
    BY <2>1, <2>2 DEF KnowledgeStays
<1>8. \A key, evidence : document' = document /\ parents' = parents /\ IsAnswer(key, evidence) =>
        IsAnswer(key, evidence)'
  BY DEF IsAnswer, Context, ParentFound
<1>9. FoundIsFresh'
  <2>1. IsPast(search.key)' /\ \A i \in DOMAIN cached : IsPast(cached[i].key)'
    BY <1>4, <1>5, <1>6 DEF SearchInv, FoundIsFresh, IsPast
  <2>2. search.phase = "ranking" /\ IsFresh(search.key)' => search.hits = ChildrenOf(document'.version)
    BY <1>4, <1>6, <1>7 DEF SearchInv, FoundIsFresh, IsFresh
  <2>3. search.phase = "done" /\ IsFresh(search.key)' => IsAnswer(search.key, search.evidence)'
    BY <1>4, <1>6, <1>7, <1>8 DEF SearchInv, FoundIsFresh, IsFresh, IsAnswer
  <2>4. ASSUME NEW i \in DOMAIN cached, IsFresh(cached[i].key)'
        PROVE  IsAnswer(cached[i].key, cached[i].evidence)'
    <3>1. cached[i].key \in Keys /\ IsPast(cached[i].key)
      BY <1>6 DEF SearchInv, FoundIsFresh
    <3>2. IsFresh(cached[i].key) /\ document' = document /\ parents' = parents
      BY <1>4, <1>7, <2>4, <3>1 DEF IsFresh
    <3>3. IsAnswer(cached[i].key, cached[i].evidence)
      BY <3>2 DEF SearchInv, FoundIsFresh
    <3>4. QED
      BY <1>4, <1>8, <3>2, <3>3 DEF IsAnswer
  <2>5. search.key[1] \in {search.question, "rewritten"}
    BY DEF SearchInv, FoundIsFresh
  <2>6. QED
    BY <1>3, <1>4, <2>1, <2>2, <2>3, <2>4, <2>5 DEF FoundIsFresh, IsPast, IsFresh, IsAnswer
<1>10. QED
  BY <1>4, <1>9 DEF SearchInv

LEMMA RebuildingKeepsSearch ==
    ASSUME SearchInv, RebuildInv', NEW w \in SyncRuns,
        \/ Parse(w) \/ CheckCurrent(w) \/ EmbeddingFails(w) \/ SaveIndexingSnapshot(w)
        \/ DeleteChildren(w) \/ UpsertChildren(w) \/ MarkIndexError(w)
        \/ MarkIndexReady(w) \/ FindMissing(w) \/ Retire(w) \/ ClearChildren(w)
        \/ RunDies(w)
    PROVE  SearchInv'
<1>1. document \in Documents
  BY DEF SearchInv, RebuildInv, RebuildTypeOK
<1>2. CASE \/ Parse(w) \/ CheckCurrent(w) \/ EmbeddingFails(w) \/ DeleteChildren(w)
           \/ UpsertChildren(w) \/ FindMissing(w) \/ ClearChildren(w) \/ RunDies(w)
  <2>1. UNCHANGED <<document, parents, readied, searching>>
    BY <1>2 DEF Parse, CheckCurrent, EmbeddingFails, DeleteChildren, UpsertChildren,
                FindMissing, ClearChildren, RunDies
  <2>2. QED
    BY <2>1, NewKnowledge DEF KnowledgeStays
<1>3. CASE SaveIndexingSnapshot(w)
  <2>1. /\ document' = [document EXCEPT !.exists = TRUE, !.version = syncs[w].version,
                !.status = StatusOf(syncs[w].version), !.index_status = "INDEXING"]
        /\ UNCHANGED <<readied, searching>>
    BY <1>3 DEF SaveIndexingSnapshot
  <2>2. document'.index_status = "INDEXING" /\ document'.indexed_at = document.indexed_at
    BY <1>1, <2>1 DEF Documents
  <2>3. QED
    BY <2>1, <2>2, NewKnowledge DEF KnowledgeStays, KnowledgeVersion
<1>4. CASE Retire(w)
  <2>1. /\ document' = [document EXCEPT !.status = "RETIRED", !.index_status = "INDEXING"]
        /\ UNCHANGED <<readied, searching>>
    BY <1>4 DEF Retire
  <2>2. document'.index_status = "INDEXING" /\ document'.indexed_at = document.indexed_at
    BY <1>1, <2>1 DEF Documents
  <2>3. QED
    BY <2>1, <2>2, NewKnowledge DEF KnowledgeStays, KnowledgeVersion
<1>5. CASE MarkIndexError(w)
  <2>1. /\ document' = [document EXCEPT !.index_status = "ERROR"]
        /\ UNCHANGED <<readied, searching>>
    BY <1>5 DEF MarkIndexError
  <2>2. document'.index_status = "ERROR" /\ document'.indexed_at = document.indexed_at
    BY <1>1, <2>1 DEF Documents
  <2>3. QED
    BY <2>1, <2>2, NewKnowledge DEF KnowledgeStays, KnowledgeVersion
<1>6. CASE MarkIndexReady(w)
  <2>1. /\ document' = [document EXCEPT !.index_status = "READY", !.indexed_at = readied']
        /\ readied' = readied + 1 /\ UNCHANGED searching
    BY <1>6 DEF MarkIndexReady
  <2>2. document'.indexed_at = readied'
    BY <1>1, <2>1 DEF Documents
  <2>3. KnowledgeVersion' \in {{}, {<<document'.version, readied'>>}}
    BY <2>2 DEF KnowledgeVersion
  <2>4. QED
    BY <2>1, <2>2, <2>3, NewKnowledge DEF KnowledgeStays
<1>7. QED
  BY <1>2, <1>3, <1>4, <1>5, <1>6

\* Without an entry, the cache keeps the others.
LEMMA OthersAreCached ==
    SearchTypeOK =>
        /\ Others \in Seq(CacheEntry)
        /\ \A j \in DOMAIN Others : \E i \in DOMAIN cached : Others[j] = cached[i]
<1> SUFFICES ASSUME SearchTypeOK
             PROVE  /\ Others \in Seq(CacheEntry)
                    /\ \A j \in DOMAIN Others : \E i \in DOMAIN cached : Others[j] = cached[i]
  OBVIOUS
<1>1. cached \in Seq(CacheEntry)
  BY DEF SearchTypeOK
<1>2. CASE Hit = {}
  BY <1>1, <1>2 DEF Others
<1>3. CASE Hit # {}
  <2> DEFINE k == CHOOSE i \in Hit : TRUE
             n == Len(cached)
             front == SubSeq(cached, 1, k - 1)
             back == SubSeq(cached, k + 1, n)
  <2>1. k \in Hit /\ n \in Nat
    BY <1>1, <1>3
  <2>2. k \in 1..n
    BY <1>1, <2>1 DEF Hit
  <2>3. Others = front \o back
    BY <1>3 DEF Others, RemoveAt
  <2> HIDE DEF k, n
  <2>4. /\ front \in Seq(CacheEntry) /\ Len(front) = k - 1
        /\ \A j \in 1..(k - 1) : front[j] = cached[j]
    BY <1>1, <2>1, <2>2 DEF n
  <2>5. /\ back \in Seq(CacheEntry) /\ Len(back) = n - k
        /\ \A j \in 1..(n - k) : back[j] = cached[j + k]
    BY <1>1, <2>1, <2>2 DEF n
  <2> HIDE DEF front, back
  <2>6. Others \in Seq(CacheEntry) /\ Len(Others) = n - 1
    <3>1. front \o back \in Seq(CacheEntry)
      BY <2>4, <2>5
    <3>2. Len(front \o back) = Len(front) + Len(back)
      BY <2>4, <2>5
    <3>3. k - 1 + (n - k) = n - 1
      BY <2>1, <2>2
    <3>4. QED
      BY <2>3, <2>4, <2>5, <3>1, <3>2, <3>3
  <2>7. ASSUME NEW j \in 1..(n - 1) PROVE \E i \in 1..n : Others[j] = cached[i]
    <3>1. CASE j <= k - 1
      <4>1. j \in 1..(k - 1) /\ j \in 1..n
        BY <2>1, <2>2, <3>1
      <4>2. Others[j] = front[j]
        BY <2>3, <2>4, <2>5, <4>1
      <4>3. QED
        BY <2>4, <4>1, <4>2
    <3>2. CASE j > k - 1
      <4>1. /\ j - (k - 1) \in 1..(n - k) /\ j - (k - 1) + k = j + 1 /\ j + 1 \in 1..n
            /\ j \in 1..(Len(front) + Len(back))
        BY <2>1, <2>2, <2>4, <2>5, <3>2
      <4>2. Others[j] = back[j - (k - 1)]
        BY <2>2, <2>3, <2>4, <2>5, <3>2, <4>1
      <4>3. back[j - (k - 1)] = cached[j + 1]
        BY <2>5, <4>1
      <4>4. QED
        BY <4>1, <4>2, <4>3
    <3>3. QED
      BY <2>2, <3>1, <3>2
  <2>8. DOMAIN cached = 1..n /\ DOMAIN Others = 1..(n - 1)
    BY <1>1, <2>2, <2>6 DEF n
  <2>9. QED
    BY <2>6, <2>7, <2>8
<1>4. QED
  BY <1>2, <1>3

\* An entry is added, and the oldest one may have to go.
LEMMA PutAdds ==
    ASSUME SearchTypeOK, NEW entry_ \in CacheEntry
    PROVE  /\ Put(entry_) \in Seq(CacheEntry)
           /\ \A j \in DOMAIN Put(entry_) :
                \/ Put(entry_)[j] = entry_
                \/ \E i \in DOMAIN cached : Put(entry_)[j] = cached[i]
<1> DEFINE all == Append(Others, entry_)
           n == Len(Others)
<1>1. Others \in Seq(CacheEntry) /\ n \in Nat
  BY OthersAreCached
<1>2. /\ all \in Seq(CacheEntry) /\ Len(all) = n + 1 /\ all[n + 1] = entry_
      /\ \A j \in 1..n : all[j] = Others[j]
  BY <1>1
<1> HIDE DEF all, n
<1>3. ASSUME NEW j \in 1..(n + 1)
      PROVE  all[j] = entry_ \/ \E i \in DOMAIN cached : all[j] = cached[i]
  <2>1. CASE j = n + 1
    BY <1>2, <2>1
  <2>2. CASE j \in 1..n
    <3>1. j \in DOMAIN Others
      BY <1>1, <2>2 DEF n
    <3>2. QED
      BY <1>2, <2>2, <3>1, OthersAreCached
  <2>3. QED
    BY <1>1, <2>1, <2>2
<1>4. all # <<>> /\ DOMAIN all = 1..(n + 1)
  BY <1>1, <1>2
<1>5. /\ Tail(all) \in Seq(CacheEntry) /\ Len(Tail(all)) = n
      /\ \A j \in 1..n : Tail(all)[j] = all[j + 1]
  BY <1>1, <1>2, <1>4
<1>6. Put(entry_) = IF Len(all) > MaxCache THEN Tail(all) ELSE all
  BY DEF Put, all
<1>7. CASE Len(all) > MaxCache
  <2>1. DOMAIN Tail(all) = 1..n /\ \A j \in 1..n : j + 1 \in 1..(n + 1)
    BY <1>1, <1>5
  <2>2. QED
    BY <1>3, <1>5, <1>6, <1>7, <2>1
<1>8. CASE ~(Len(all) > MaxCache)
  BY <1>2, <1>3, <1>4, <1>6, <1>8
<1>9. QED
  BY <1>7, <1>8

\* Evidence is a child and a text.
LEMMA ContextIsEvidence ==
    ASSUME RebuildTypeOK, NEW question \in Questions, NEW hits \in [Places -> 0..MaxVersion]
    PROVE  Context(question, hits) \subseteq Evidence
<1>1. \A p \in Ranked(hits) : p \in Places /\ hits[p] \in Versions
  BY KnowledgeAssumption DEF Ranked, Versions
<1>2. ParentFound => parents \in Versions
  BY KnowledgeAssumption DEF ParentFound, RebuildTypeOK, Versions
<1>3. Ranked(hits) # {} => \E p \in Ranked(hits) : \A q \in Ranked(hits) : p <= q
  <2>1. \A p \in Ranked(hits) : p = 1 \/ p = 2
    BY <1>1, TwoPlaces
  <2>2. CASE 1 \in Ranked(hits)
    BY <2>1, <2>2
  <2>3. CASE 1 \notin Ranked(hits)
    BY <2>1, <2>3
  <2>4. QED
    BY <2>2, <2>3
<1>4. CASE question = "whole" /\ ParentFound /\ Ranked(hits) # {}
  <2>1. PICK p \in Ranked(hits) :
          Context(question, hits) = {[place |-> p, cited |-> hits[p], text |-> parents]}
    BY <1>3, <1>4 DEF Context
  <2>2. QED
    BY <1>1, <1>2, <1>4, <2>1 DEF Evidence
<1>5. CASE ~(question = "whole" /\ ParentFound /\ Ranked(hits) # {})
  BY <1>1, <1>5 DEF Context, Evidence
<1>6. QED
  BY <1>4, <1>5

LEMMA VersionIsKey ==
    RebuildInv => /\ KnowledgeVersion \subseteq Versions \X (0..MaxSyncs)
                  /\ \A question \in Queries : <<question, KnowledgeVersion>> \in Keys
<1> SUFFICES ASSUME RebuildInv
             PROVE  /\ KnowledgeVersion \subseteq Versions \X (0..MaxSyncs)
                    /\ \A question \in Queries : <<question, KnowledgeVersion>> \in Keys
  OBVIOUS
<1>1. document \in Documents
  BY DEF RebuildInv, RebuildTypeOK
<1>2. KnowledgeVersion \subseteq Versions \X (0..MaxSyncs)
  BY <1>1 DEF KnowledgeVersion, RebuildInv, ActiveIsSaved, Documents
<1>3. QED
  BY <1>2 DEF Keys

LEMMA NoSearchFields ==
    /\ NoSearch \in Search /\ NoSearch.phase = "done" /\ NoSearch.question = "rule"
    /\ NoSearch.key = <<"rule", {}>> /\ NoSearch.key[2] = {}
<1>1. <<"rule", {}>> \in Keys
  BY DEF Keys, Queries, Questions
<1>2. NoChildren \in [Places -> 0..MaxVersion]
  BY KnowledgeAssumption DEF NoChildren
<1>3. QED
  BY <1>1, <1>2 DEF NoSearch, Search, Questions

LEMMA SearchFields ==
    SearchTypeOK =>
        /\ search \in Search /\ search.key \in Keys /\ search.question \in Questions
        /\ search.hits \in [Places -> 0..MaxVersion] /\ cached \in Seq(CacheEntry)
        /\ \A i \in DOMAIN cached : cached[i] \in CacheEntry /\ cached[i].key \in Keys
                                    /\ cached[i].evidence \in SUBSET Evidence
<1> SUFFICES ASSUME SearchTypeOK
             PROVE  /\ search \in Search /\ search.key \in Keys /\ search.question \in Questions
                    /\ search.hits \in [Places -> 0..MaxVersion] /\ cached \in Seq(CacheEntry)
                    /\ \A i \in DOMAIN cached : cached[i] \in CacheEntry /\ cached[i].key \in Keys
                                                /\ cached[i].evidence \in SUBSET Evidence
  OBVIOUS
<1>1. \A i \in DOMAIN cached : cached[i] \in CacheEntry
  BY DEF SearchTypeOK
<1>2. \A e \in CacheEntry : e.key \in Keys /\ e.evidence \in SUBSET Evidence
  BY DEF CacheEntry
<1>3. QED
  BY <1>1, <1>2 DEF SearchTypeOK, Search

\* A step of the search: it has a good record, and the cache has entries it had, or
\* the one that was found.
LEMMA SearchMoves ==
    ASSUME SearchInv, UNCHANGED rebuilding, search' \in Search, cached' \in Seq(CacheEntry),
           IsPast(search'.key), search'.key[1] \in {search'.question, "rewritten"},
           search'.phase = "ranking" /\ IsFresh(search'.key) =>
               search'.hits = ChildrenOf(document.version),
           search'.phase = "done" /\ IsFresh(search'.key) =>
               IsAnswer(search'.key, search'.evidence),
           \A j \in DOMAIN cached' :
               \/ \E i \in DOMAIN cached : cached'[j] = cached[i]
               \/ /\ IsPast(cached'[j].key)
                  /\ IsFresh(cached'[j].key) => IsAnswer(cached'[j].key, cached'[j].evidence)
    PROVE  SearchInv'
<1>1. UNCHANGED <<file, document, parents, index, syncs, readied, breaks>>
  BY DEF rebuilding
<1>2. RebuildInv'
  BY OthersKeepRebuild DEF SearchInv
<1>3. SearchTypeOK'
  BY DEF SearchTypeOK
<1>4. \A j \in DOMAIN cached' :
        /\ IsPast(cached'[j].key)
        /\ IsFresh(cached'[j].key) => IsAnswer(cached'[j].key, cached'[j].evidence)
  BY DEF SearchInv, FoundIsFresh
<1>5. document.indexed_at <= readied
  BY DEF SearchInv, FoundIsFresh
<1>6. FoundIsFresh'
  <2>1. KnowledgeVersion' = KnowledgeVersion
    BY <1>1 DEF KnowledgeVersion
  <2>2. \A question, hits : Context(question, hits)' = Context(question, hits)
    BY <1>1 DEF Context, ParentFound
  <2>3. /\ \A key : IsPast(key)' <=> IsPast(key)
        /\ \A key : IsFresh(key)' <=> IsFresh(key)
    BY <1>1, <2>1 DEF IsPast, IsFresh
  <2>4. \A key, evidence : IsAnswer(key, evidence)' <=> IsAnswer(key, evidence)
    BY <1>1, <2>2 DEF IsAnswer
  <2>5. (document.indexed_at <= readied)' /\ IsPast(search.key)'
        /\ search'.key[1] \in {search'.question, "rewritten"}
    BY <1>1, <1>5 DEF IsPast
  <2>6. search'.phase = "ranking" /\ IsFresh(search.key)' => search'.hits = ChildrenOf(document'.version)
    BY <1>1, <2>1 DEF IsFresh
  <2>7. search'.phase = "done" /\ IsFresh(search.key)' => IsAnswer(search.key, search.evidence)'
    BY <1>1, <2>1, <2>2 DEF IsFresh, IsAnswer
  <2>8. ASSUME NEW j \in DOMAIN cached'
        PROVE  /\ IsPast(cached[j].key)'
               /\ IsFresh(cached[j].key)' => IsAnswer(cached[j].key, cached[j].evidence)'
    BY <1>1, <1>4, <2>1, <2>2 DEF IsPast, IsFresh, IsAnswer
  <2>9. QED
    BY <2>5, <2>6, <2>7, <2>8 DEF FoundIsFresh
<1>7. QED
  BY <1>2, <1>3, <1>6 DEF SearchInv

LEMMA AskKeepsInv == SearchInv /\ AskQuestion => SearchInv'
<1> SUFFICES ASSUME SearchInv, AskQuestion PROVE SearchInv'
  OBVIOUS
<1>1. PICK question \in Questions, query \in Queries :
        /\ query \in {question, "rewritten"}
        /\ search' = [NoSearch EXCEPT !.phase = "embedding", !.question = question,
                        !.key = <<query, KnowledgeVersion>>]
  BY DEF AskQuestion, Queries
<1> DEFINE key == <<query, KnowledgeVersion>>
<1>2. key \in Keys /\ RebuildInv
  BY VersionIsKey DEF SearchInv
<1>3. key[1] = query /\ key[2] = KnowledgeVersion
  OBVIOUS
<1> HIDE DEF key
<1>4. search' = [NoSearch EXCEPT !.phase = "embedding", !.question = question, !.key = key]
  BY <1>1 DEF key
<1>5. /\ search' \in Search /\ search'.phase = "embedding" /\ search'.question = question
      /\ search'.key = key
  BY <1>2, <1>4, NoSearchFields DEF Search
<1>6. IsPast(key)
  BY <1>3 DEF IsPast, KnowledgeVersion, SearchInv, FoundIsFresh
<1>7. UNCHANGED rebuilding /\ cached' = cached
  BY DEF AskQuestion
<1>8. cached' \in Seq(CacheEntry)
  BY <1>7, SearchFields DEF SearchInv
<1>9. QED
  BY <1>1, <1>3, <1>5, <1>6, <1>7, <1>8, SearchMoves

LEMMA LookUpKeepsInv == SearchInv /\ LookUp => SearchInv'
<1> SUFFICES ASSUME SearchInv, LookUp PROVE SearchInv'
  OBVIOUS
<1>1. SearchTypeOK /\ search \in Search /\ cached \in Seq(CacheEntry)
  BY SearchFields DEF SearchInv
<1>2. /\ Others \in Seq(CacheEntry)
      /\ \A j \in DOMAIN Others : \E i \in DOMAIN cached : Others[j] = cached[i]
  BY <1>1, OthersAreCached
<1>3. UNCHANGED rebuilding /\ IsPast(search.key) /\ search.key[1] \in {search.question, "rewritten"}
  BY DEF LookUp, SearchInv, FoundIsFresh
<1>4. CASE search' = [search EXCEPT !.phase = "querying"] /\ cached' = Others
  <2>1. /\ search' \in Search /\ search'.phase = "querying" /\ search'.key = search.key
        /\ search'.question = search.question
    BY <1>1, <1>4 DEF Search
  <2>2. QED
    BY <1>2, <1>3, <1>4, <2>1, SearchMoves
<1>5. ASSUME NEW i \in Hit,
             search' = [search EXCEPT !.phase = "done", !.evidence = cached[i].evidence],
             cached' = Append(Others, cached[i])
      PROVE  SearchInv'
  <2>1. i \in DOMAIN cached /\ cached[i].key = search.key /\ cached[i] \in CacheEntry
        /\ cached[i].evidence \in SUBSET Evidence
    BY <1>1, SearchFields DEF Hit
  <2>2. /\ search' \in Search /\ search'.phase = "done" /\ search'.key = search.key
        /\ search'.question = search.question /\ search'.evidence = cached[i].evidence
    BY <1>1, <1>5, <2>1 DEF Search
  <2>3. IsFresh(search.key) => IsAnswer(search.key, cached[i].evidence)
    BY <2>1 DEF SearchInv, FoundIsFresh
  <2>4. cached' \in Seq(CacheEntry)
    BY <1>2, <1>5, <2>1
  <2>5. \A j \in DOMAIN cached' : \E k \in DOMAIN cached : cached'[j] = cached[k]
    <3> DEFINE n == Len(Others)
    <3>1. n \in Nat /\ DOMAIN Others = 1..n
      BY <1>2
    <3>2. /\ DOMAIN cached' = 1..(n + 1) /\ cached'[n + 1] = cached[i]
          /\ \A j \in 1..n : cached'[j] = Others[j]
      <4>1. Len(cached') = n + 1
        BY <1>2, <1>5, <2>1
      <4>2. DOMAIN cached' = 1..(n + 1)
        BY <2>4, <4>1
      <4>3. QED
        BY <1>2, <1>5, <2>1, <4>2
    <3>3. \A j \in 1..(n + 1) : j = n + 1 \/ j \in 1..n
      BY <3>1
    <3> HIDE DEF n
    <3>4. QED
      BY <1>2, <2>1, <3>1, <3>2, <3>3
  <2>6. QED
    BY <1>3, <2>2, <2>3, <2>4, <2>5, SearchMoves
<1>6. QED
  BY <1>4, <1>5 DEF LookUp

\* The index of a ready document gives the children of its text.
LEMMA QueryKeepsInv == SearchInv /\ QueryHybrid => SearchInv'
<1> SUFFICES ASSUME SearchInv, QueryHybrid PROVE SearchInv'
  OBVIOUS
<1> DEFINE hits == [p \in Places |->
            IF index[p] # 0 /\ StatusOf(index[p]) = "ACTIVE" THEN index[p] ELSE 0]
<1>1. search \in Search /\ cached \in Seq(CacheEntry) /\ index \in [Places -> 0..MaxVersion]
  BY SearchFields DEF SearchInv, RebuildInv, RebuildTypeOK
<1>2. hits \in [Places -> 0..MaxVersion]
  BY <1>1, KnowledgeAssumption
<1>3. KnowledgeVersion # {} => hits = ChildrenOf(document.version)
  <2> SUFFICES ASSUME KnowledgeVersion # {} PROVE hits = ChildrenOf(document.version)
    OBVIOUS
  <2> DEFINE v == document.version
  <2>1. document.exists /\ document.status = "ACTIVE" /\ document.index_status = "READY"
    BY DEF KnowledgeVersion
  <2>2. v \in Versions /\ parents = v /\ StatusOf(v) = "ACTIVE"
    BY <2>1 DEF SearchInv, RebuildInv, ActiveIsSaved
  <2>3. ChildrenOf(v) \in [Places -> {0, v}] /\ v # 0
    BY <2>2, ChildrenShape
  <2>4. index = ChildrenOf(v)
    BY <2>1, <2>2, <2>3 DEF SearchInv, RebuildInv, ReadyIsIndexed
  <2> HIDE DEF v
  <2>5. \A p \in Places : hits[p] = ChildrenOf(v)[p]
    BY <2>2, <2>3, <2>4
  <2>6. QED
    BY <1>2, <2>3, <2>5 DEF v
<1> HIDE DEF hits
<1>4. search' = [search EXCEPT !.phase = "ranking", !.hits = hits] /\ cached' = cached
      /\ UNCHANGED rebuilding
  BY DEF QueryHybrid, hits
<1>5. /\ search' \in Search /\ search'.phase = "ranking" /\ search'.key = search.key
      /\ search'.question = search.question /\ search'.hits = hits
  BY <1>1, <1>2, <1>4 DEF Search
<1>6. IsPast(search.key) /\ search.key[1] \in {search.question, "rewritten"}
  BY DEF SearchInv, FoundIsFresh
<1>7. IsFresh(search.key) => hits = ChildrenOf(document.version)
  BY <1>3 DEF IsFresh
<1>8. cached' \in Seq(CacheEntry)
  BY <1>1, <1>4
<1>9. QED
  BY <1>4, <1>5, <1>6, <1>7, <1>8, SearchMoves

LEMMA RerankKeepsInv == SearchInv /\ Rerank => SearchInv'
<1> SUFFICES ASSUME SearchInv, Rerank PROVE SearchInv'
  OBVIOUS
<1> DEFINE evidence == Context(search.question, search.hits)
           e == [key |-> search.key, evidence |-> evidence]
<1>1. /\ SearchTypeOK /\ search \in Search /\ cached \in Seq(CacheEntry) /\ search.key \in Keys
      /\ search.question \in Questions /\ search.hits \in [Places -> 0..MaxVersion]
      /\ RebuildTypeOK
  BY SearchFields DEF SearchInv, RebuildInv
<1>2. evidence \in SUBSET Evidence
  BY <1>1, ContextIsEvidence
<1>3. IsFresh(search.key) => IsAnswer(search.key, evidence)
  <2>1. search.key[1] \in {search.question, "rewritten"} /\ search.phase = "ranking"
    BY DEF SearchInv, FoundIsFresh, Rerank
  <2>2. IsFresh(search.key) => search.hits = ChildrenOf(document.version)
    BY <2>1 DEF SearchInv, FoundIsFresh
  <2>3. QED
    BY <1>1, <2>1, <2>2 DEF IsAnswer
<1>4. /\ search' = [search EXCEPT !.phase = "done", !.evidence = evidence, !.hits = NoChildren]
      /\ cached' = Put(e) /\ UNCHANGED rebuilding
  BY DEF Rerank
<1>5. NoChildren \in [Places -> 0..MaxVersion]
  BY KnowledgeAssumption DEF NoChildren
<1> HIDE DEF evidence
<1>6. /\ search' \in Search /\ search'.phase = "done" /\ search'.key = search.key
      /\ search'.question = search.question /\ search'.evidence = evidence
  BY <1>1, <1>2, <1>4, <1>5 DEF Search
<1>7. e \in CacheEntry /\ e.key = search.key /\ e.evidence = evidence
  BY <1>1, <1>2 DEF CacheEntry
<1> HIDE DEF e
<1>8. /\ cached' \in Seq(CacheEntry)
      /\ \A j \in DOMAIN cached' : cached'[j] = e \/ \E i \in DOMAIN cached : cached'[j] = cached[i]
  BY <1>1, <1>4, <1>7, PutAdds
<1>9. IsPast(search.key) /\ search.key[1] \in {search.question, "rewritten"}
  BY DEF SearchInv, FoundIsFresh
<1>10. \A j \in DOMAIN cached' :
               \/ \E i \in DOMAIN cached : cached'[j] = cached[i]
               \/ /\ IsPast(cached'[j].key)
                  /\ IsFresh(cached'[j].key) => IsAnswer(cached'[j].key, cached'[j].evidence)
  BY <1>3, <1>7, <1>8, <1>9
<1>11. QED
  BY <1>3, <1>4, <1>6, <1>8, <1>9, <1>10, SearchMoves

LEMMA SearchFailsKeepsInv == SearchInv /\ SearchFails => SearchInv'
<1> SUFFICES ASSUME SearchInv, SearchFails PROVE SearchInv'
  OBVIOUS
<1>1. search' = NoSearch /\ cached' = cached /\ UNCHANGED rebuilding
  BY DEF SearchFails
<1>2. cached' \in Seq(CacheEntry)
  BY <1>1, SearchFields DEF SearchInv
<1>3. IsPast(NoSearch.key) /\ ~IsFresh(NoSearch.key) /\ NoSearch.key[1] = "rule"
  BY NoSearchFields DEF IsPast, IsFresh
<1>4. QED
  BY <1>1, <1>2, <1>3, NoSearchFields, SearchMoves

LEMMA SearchInvInit == KnowledgeInit => SearchInv
<1> SUFFICES ASSUME KnowledgeInit PROVE SearchInv
  OBVIOUS
<1>1. search = NoSearch /\ DOMAIN cached = {} /\ cached \in Seq(CacheEntry)
  BY DEF KnowledgeInit
<1>2. document.indexed_at <= readied
  BY DEF KnowledgeInit
<1>3. FoundIsFresh
  BY <1>1, <1>2, NoSearchFields DEF FoundIsFresh, IsPast, IsFresh
<1>4. QED
  BY <1>1, <1>3, NoSearchFields, RebuildInvInit DEF SearchInv, SearchTypeOK

LEMMA SearchInvStep ==
    ASSUME OneRun
    PROVE  SearchInv /\ [KnowledgeNext]_knowledgeVars => SearchInv'
<1>1. ASSUME SearchInv, KnowledgeNext PROVE SearchInv'
  <2>1. CASE AskQuestion \/ LookUp \/ QueryHybrid \/ Rerank \/ SearchFails
    BY <1>1, <2>1, AskKeepsInv, LookUpKeepsInv, QueryKeepsInv, RerankKeepsInv, SearchFailsKeepsInv
  <2>2. RebuildInv'
    BY <1>1, RebuildInvStep DEF SearchInv
  <2>3. CASE EditFile
    <3>1. UNCHANGED <<document, parents, readied, searching>>
      BY <2>3 DEF EditFile
    <3>2. QED
      BY <1>1, <2>2, <3>1, NewKnowledge DEF KnowledgeStays
  <2>4. ASSUME NEW w \in SyncRuns,
        \/ Parse(w) \/ CheckCurrent(w) \/ EmbeddingFails(w) \/ SaveIndexingSnapshot(w)
        \/ DeleteChildren(w) \/ UpsertChildren(w) \/ MarkIndexError(w)
        \/ MarkIndexReady(w) \/ FindMissing(w) \/ Retire(w) \/ ClearChildren(w)
        \/ RunDies(w)
        PROVE SearchInv'
    BY <1>1, <2>2, <2>4, RebuildingKeepsSearch
  <2>5. QED
    BY <1>1, <2>1, <2>3, <2>4 DEF KnowledgeNext
<1>2. ASSUME SearchInv, UNCHANGED knowledgeVars PROVE SearchInv'
  <2>1. RebuildInv'
    BY <1>2, RebuildInvStep DEF SearchInv
  <2>2. UNCHANGED <<document, parents, readied, searching>>
    BY <1>2 DEF knowledgeVars, searching
  <2>3. QED
    BY <1>2, <2>1, <2>2, NewKnowledge DEF KnowledgeStays
<1>3. QED
  BY <1>1, <1>2

\* A document that may not be read has no text that may be, and none in the index
\* before it is first saved.
TextIsWithdrawn ==
    /\ document.exists /\ document.status = "RETIRED" =>
        parents = 0 \/ StatusOf(parents) = "RETIRED"
    /\ ~document.exists => index = NoChildren
    /\ \A w \in SyncRuns :
        syncs[w].phase \notin {"idle", "checking", "saving"} => document.exists

\* Unless a search has lapsed, nothing is found or kept under the empty version.
NothingFound ==
    lapsed \/
        /\ search.key[2] = {} /\ search.phase = "ranking" => Ranked(search.hits) = {}
        /\ search.key[2] = {} /\ search.phase = "done" => search.evidence = {}
        /\ \A i \in DOMAIN cached : cached[i].key[2] = {} => cached[i].evidence = {}

\* A step that leaves the row's status and the text alone
LEMMA TextStays ==
    ASSUME RebuildInv, TextIsWithdrawn, NEW w \in SyncRuns, NEW r \in Sync,
           syncs' = [syncs EXCEPT ![w] = r],
           r.phase \notin {"idle", "checking", "saving"} => document.exists,
           UNCHANGED parents, document'.exists = document.exists,
           document'.status = document.status, document.exists \/ UNCHANGED index
    PROVE  TextIsWithdrawn'
<1>1. syncs \in [SyncRuns -> Sync]
  BY DEF RebuildInv, RebuildTypeOK
<1>2. \A v \in SyncRuns : syncs'[v] = IF v = w THEN r ELSE syncs[v]
  BY <1>1
<1>3. QED
  BY <1>2 DEF TextIsWithdrawn

LEMMA RunsKeepWithdrawn ==
    ASSUME RebuildInv, TextIsWithdrawn, NEW w \in SyncRuns,
        \/ Parse(w) \/ CheckCurrent(w) \/ EmbeddingFails(w) \/ SaveIndexingSnapshot(w)
        \/ DeleteChildren(w) \/ UpsertChildren(w) \/ MarkIndexError(w)
        \/ MarkIndexReady(w) \/ FindMissing(w) \/ Retire(w) \/ ClearChildren(w)
        \/ RunDies(w)
    PROVE  TextIsWithdrawn'
<1>1. /\ RebuildTypeOK /\ document \in Documents /\ syncs \in [SyncRuns -> Sync]
      /\ NoSync \in Sync /\ NoSync.phase = "idle"
      /\ syncs[w].phase \notin {"idle", "checking", "saving"} => document.exists
  BY NoSyncOK DEF RebuildInv, RebuildTypeOK, NoSync, TextIsWithdrawn
<1>2. CASE Parse(w)
  <2>1. PICK phase_ \in {"checking", "saving"} :
          syncs' = [syncs EXCEPT ![w] = [phase |-> phase_, version |-> file]]
    BY <1>2 DEF Parse
  <2>2. [phase |-> phase_, version |-> file] \in Sync
    BY <1>1 DEF RebuildTypeOK, Sync
  <2>3. QED
    BY <1>1, <1>2, <2>1, <2>2, TextStays DEF Parse
<1>3. CASE EmbeddingFails(w) \/ RunDies(w)
  BY <1>1, <1>3, TextStays DEF EmbeddingFails, RunDies, Ends
<1>4. CASE CheckCurrent(w)
  <2>1. CASE Ends(w)
    BY <1>1, <1>4, <2>1, TextStays DEF CheckCurrent, Ends
  <2>2. CASE Goes(w, "saving")
    <3>1. PICK r \in Sync : syncs' = [syncs EXCEPT ![w] = r] /\ r.phase = "saving"
      BY <1>1, <2>2, GoesReplaces
    <3>2. QED
      BY <1>1, <1>4, <3>1, TextStays DEF CheckCurrent
  <2>3. QED
    BY <1>4, <2>1, <2>2 DEF CheckCurrent
<1>5. CASE FindMissing(w)
  <2>1. PICK r \in Sync : syncs' = [syncs EXCEPT ![w] = r] /\ r.phase = "retiring"
    BY <1>1, <1>5, GoesReplaces DEF FindMissing
  <2>2. QED
    BY <1>1, <1>5, <2>1, TextStays DEF FindMissing, Missing
<1>6. CASE DeleteChildren(w) \/ UpsertChildren(w) \/ ClearChildren(w)
  <2>1. document.exists /\ UNCHANGED <<document, parents>>
    BY <1>1, <1>6 DEF DeleteChildren, UpsertChildren, ClearChildren
  <2>2. \E next \in {"upserting", "ready", "failing"} : Goes(w, next)
    BY <1>6 DEF DeleteChildren, UpsertChildren, ClearChildren, IndexCall
  <2>3. PICK r \in Sync : syncs' = [syncs EXCEPT ![w] = r]
    BY <1>1, <2>2, GoesReplaces
  <2>4. QED
    BY <1>1, <2>1, <2>3, TextStays
<1>7. CASE MarkIndexError(w) \/ MarkIndexReady(w)
  <2>1. /\ document'.exists = document.exists /\ document'.status = document.status
        /\ Ends(w) /\ UNCHANGED <<parents, index>>
    BY <1>1, <1>7 DEF MarkIndexError, MarkIndexReady, Documents
  <2>2. QED
    BY <1>1, <2>1, TextStays DEF Ends
<1>8. CASE SaveIndexingSnapshot(w)
  <2>1. /\ document'.exists /\ document'.status = StatusOf(syncs[w].version)
        /\ parents' = syncs[w].version
    BY <1>1, <1>8 DEF SaveIndexingSnapshot, Documents
  <2>2. QED
    BY <2>1 DEF TextIsWithdrawn
<1>9. CASE Retire(w)
  <2>1. document'.exists /\ parents' = 0
    BY <1>1, <1>9 DEF Retire, Documents
  <2>2. QED
    BY <2>1 DEF TextIsWithdrawn
<1>10. QED
  BY <1>2, <1>3, <1>4, <1>5, <1>6, <1>7, <1>8, <1>9

\* Of a withdrawn document the index gives nothing.
LEMMA WithdrawnHasNoHits ==
    ASSUME RebuildInv, TextIsWithdrawn, Withdrawn, NEW p \in Places
    PROVE  index[p] = 0 \/ StatusOf(index[p]) = "RETIRED"
<1>1. CASE ~document.exists
  BY <1>1 DEF TextIsWithdrawn, NoChildren
<1>2. CASE document.exists
  <2>1. /\ index = IF parents = 0 THEN NoChildren ELSE ChildrenOf(parents)
        /\ parents = 0 \/ StatusOf(parents) = "RETIRED"
    BY <1>2 DEF Withdrawn, TextIsWithdrawn, RebuildInv, ReadyIsIndexed
  <2>2. index[p] = 0 \/ index[p] = parents
    BY <2>1 DEF NoChildren, ChildrenOf
  <2>3. index[p] = 0 \/ parents # 0
    BY <2>1 DEF NoChildren
  <2>4. QED
    BY <2>1, <2>2, <2>3
<1>3. QED
  BY <1>1, <1>2

LEMMA SearchesFindNothing ==
    ASSUME SearchInv, TextIsWithdrawn, NothingFound,
           AskQuestion \/ LookUp \/ QueryHybrid \/ Rerank \/ SearchFails
    PROVE  NothingFound'
<1>1. /\ SearchTypeOK /\ search \in Search /\ cached \in Seq(CacheEntry)
      /\ search.key \in Keys /\ search.question \in Questions
      /\ search.hits \in [Places -> 0..MaxVersion] /\ RebuildInv /\ RebuildTypeOK
  BY SearchFields DEF SearchInv, RebuildInv
<1>2. lapsed => lapsed'
  BY DEF AskQuestion, LookUp, QueryHybrid, Rerank, SearchFails
<1>3. SUFFICES ASSUME ~lapsed, ~lapsed' PROVE NothingFound'
  BY <1>2 DEF NothingFound
<1>4. /\ search.key[2] = {} /\ search.phase = "ranking" => Ranked(search.hits) = {}
      /\ search.key[2] = {} /\ search.phase = "done" => search.evidence = {}
      /\ \A i \in DOMAIN cached : cached[i].key[2] = {} => cached[i].evidence = {}
  BY <1>3 DEF NothingFound
<1>5. /\ Others \in Seq(CacheEntry)
      /\ \A j \in DOMAIN Others : Others[j].key[2] = {} => Others[j].evidence = {}
  BY <1>1, <1>4, OthersAreCached
<1>6. CASE AskQuestion
  <2>1. search'.phase = "embedding" /\ cached' = cached
    BY <1>6, NoSearchFields DEF AskQuestion, Search
  <2>2. QED
    BY <1>4, <2>1 DEF NothingFound
<1>7. CASE SearchFails
  <2>1. search' = NoSearch /\ cached' = cached /\ NoSearch.evidence = {}
    BY <1>7 DEF SearchFails, NoSearch
  <2>2. QED
    BY <1>4, <2>1, NoSearchFields DEF NothingFound
<1>8. CASE LookUp
  <2>1. CASE search' = [search EXCEPT !.phase = "querying"] /\ cached' = Others
    <3>1. search'.phase = "querying"
      BY <1>1, <2>1 DEF Search
    <3>2. QED
      BY <1>5, <2>1, <3>1 DEF NothingFound
  <2>2. ASSUME NEW i \in Hit,
               search' = [search EXCEPT !.phase = "done", !.evidence = cached[i].evidence],
               cached' = Append(Others, cached[i])
        PROVE  NothingFound'
    <3>1. i \in DOMAIN cached /\ cached[i].key = search.key /\ cached[i] \in CacheEntry
      BY <1>1, SearchFields DEF Hit
    <3>2. /\ search'.phase = "done" /\ search'.key = search.key
          /\ search'.evidence = cached[i].evidence
      BY <1>1, <2>2 DEF Search
    <3>3. search.key[2] = {} => cached[i].evidence = {}
      BY <1>4, <3>1
    <3> DEFINE n == Len(Others)
    <3>4. n \in Nat /\ DOMAIN Others = 1..n
      BY <1>5
    <3>5. /\ DOMAIN cached' = 1..(n + 1) /\ cached'[n + 1] = cached[i]
          /\ \A j \in 1..n : cached'[j] = Others[j]
      <4>1. Len(cached') = n + 1 /\ cached' \in Seq(CacheEntry)
        BY <1>5, <2>2, <3>1
      <4>2. DOMAIN cached' = 1..(n + 1)
        BY <4>1
      <4>3. QED
        BY <1>5, <2>2, <3>1, <4>2
    <3>6. \A j \in 1..(n + 1) : j = n + 1 \/ j \in 1..n
      BY <3>4
    <3> HIDE DEF n
    <3>7. \A j \in DOMAIN cached' : cached'[j].key[2] = {} => cached'[j].evidence = {}
      BY <1>5, <3>1, <3>3, <3>4, <3>5, <3>6
    <3>8. QED
      BY <3>2, <3>3, <3>7 DEF NothingFound
  <2>3. QED
    BY <1>8, <2>1, <2>2 DEF LookUp
<1>9. CASE QueryHybrid
  <2> DEFINE hits == [p \in Places |->
            IF index[p] # 0 /\ StatusOf(index[p]) = "ACTIVE" THEN index[p] ELSE 0]
  <2>1. search.key[2] = {} => Withdrawn
    BY <1>3, <1>9 DEF QueryHybrid
  <2>2. search.key[2] = {} => Ranked(hits) = {}
    <3> SUFFICES ASSUME search.key[2] = {}, NEW p \in Places PROVE hits[p] = 0
      BY DEF Ranked
    <3>1. index[p] = 0 \/ StatusOf(index[p]) = "RETIRED"
      BY <1>1, <2>1, WithdrawnHasNoHits
    <3>2. QED
      BY <3>1
  <2> HIDE DEF hits
  <2>3. search' = [search EXCEPT !.phase = "ranking", !.hits = hits] /\ cached' = cached
    BY <1>9 DEF QueryHybrid, hits
  <2>4. search'.phase = "ranking" /\ search'.key = search.key /\ search'.hits = hits
    BY <1>1, <2>3 DEF Search
  <2>5. Ranked(search.hits)' = Ranked(hits)
    BY <2>4 DEF Ranked
  <2>6. QED
    BY <1>4, <2>2, <2>3, <2>4, <2>5 DEF NothingFound
<1>10. CASE Rerank
  <2> DEFINE evidence == Context(search.question, search.hits)
             e == [key |-> search.key, evidence |-> evidence]
  <2>1. search.key[2] = {} => evidence = {}
    BY <1>4, <1>10 DEF Rerank, Context
  <2>2. /\ search' = [search EXCEPT !.phase = "done", !.evidence = evidence, !.hits = NoChildren]
        /\ cached' = Put(e)
    BY <1>10 DEF Rerank
  <2>3. evidence \in SUBSET Evidence
    BY <1>1, ContextIsEvidence
  <2> HIDE DEF evidence
  <2>4. search'.phase = "done" /\ search'.key = search.key /\ search'.evidence = evidence
    BY <1>1, <2>2 DEF Search
  <2>5. e \in CacheEntry /\ e.key = search.key /\ e.evidence = evidence
    BY <1>1, <2>3 DEF CacheEntry
  <2> HIDE DEF e
  <2>6. \A j \in DOMAIN cached' :
            cached'[j] = e \/ \E i \in DOMAIN cached : cached'[j] = cached[i]
    BY <1>1, <2>2, <2>5, PutAdds
  <2>7. \A j \in DOMAIN cached' : cached'[j].key[2] = {} => cached'[j].evidence = {}
    BY <1>4, <2>1, <2>5, <2>6
  <2>8. QED
    BY <2>1, <2>4, <2>7 DEF NothingFound
<1>11. QED
  BY <1>6, <1>7, <1>8, <1>9, <1>10

AnswerInv == SearchInv /\ TextIsWithdrawn /\ NothingFound

LEMMA AnswerInvInit == KnowledgeInit => AnswerInv
<1> SUFFICES ASSUME KnowledgeInit PROVE AnswerInv
  OBVIOUS
<1>1. TextIsWithdrawn
  BY DEF KnowledgeInit, TextIsWithdrawn, NoSync
<1>2. search = NoSearch /\ NoSearch.evidence = {} /\ DOMAIN cached = {}
  BY DEF KnowledgeInit, NoSearch
<1>3. NothingFound
  BY <1>2, NoSearchFields DEF NothingFound
<1>4. QED
  BY <1>1, <1>3, SearchInvInit DEF AnswerInv

LEMMA AnswerInvStep ==
    ASSUME OneRun
    PROVE  AnswerInv /\ [KnowledgeNext]_knowledgeVars => AnswerInv'
<1> SUFFICES ASSUME AnswerInv, [KnowledgeNext]_knowledgeVars PROVE AnswerInv'
  OBVIOUS
<1>1. SearchInv' /\ RebuildInv
  BY SearchInvStep DEF AnswerInv, SearchInv
<1>2. ASSUME UNCHANGED searching PROVE NothingFound'
  BY <1>2 DEF searching, AnswerInv, NothingFound
<1>3. ASSUME UNCHANGED <<document, parents, index, syncs>> PROVE TextIsWithdrawn'
  BY <1>3 DEF AnswerInv, TextIsWithdrawn
<1>4. CASE UNCHANGED knowledgeVars
  BY <1>1, <1>2, <1>3, <1>4 DEF knowledgeVars, searching, AnswerInv
<1>5. CASE EditFile
  BY <1>1, <1>2, <1>3, <1>5 DEF EditFile, AnswerInv
<1>6. CASE AskQuestion \/ LookUp \/ QueryHybrid \/ Rerank \/ SearchFails
  <2>1. NothingFound'
    BY <1>6, SearchesFindNothing DEF AnswerInv
  <2>2. UNCHANGED rebuilding
    BY <1>6 DEF AskQuestion, LookUp, QueryHybrid, Rerank, SearchFails
  <2>3. QED
    BY <1>1, <1>3, <2>1, <2>2 DEF rebuilding, AnswerInv
<1>7. ASSUME NEW w \in SyncRuns,
        \/ Parse(w) \/ CheckCurrent(w) \/ EmbeddingFails(w) \/ SaveIndexingSnapshot(w)
        \/ DeleteChildren(w) \/ UpsertChildren(w) \/ MarkIndexError(w)
        \/ MarkIndexReady(w) \/ FindMissing(w) \/ Retire(w) \/ ClearChildren(w)
        \/ RunDies(w)
      PROVE  AnswerInv'
  <2>1. TextIsWithdrawn'
    BY <1>1, <1>7, RunsKeepWithdrawn DEF AnswerInv
  <2>2. UNCHANGED searching
    BY <1>7 DEF Parse, CheckCurrent, EmbeddingFails, SaveIndexingSnapshot, DeleteChildren,
                UpsertChildren, MarkIndexError, MarkIndexReady, FindMissing, Retire,
                ClearChildren, RunDies
  <2>3. QED
    BY <1>1, <1>2, <2>1, <2>2 DEF AnswerInv
<1>8. QED
  BY <1>4, <1>5, <1>6, <1>7 DEF KnowledgeNext

\* As long as operators run the rebuilding one at a time: while the knowledge is what
\* it was when a question came, its answer has the evidence of that knowledge, also
\* from a cache of any size, whatever was rebuilt while it or an earlier one searched;
\* and it has none of a document that may not be read, until a search that began
\* without the document has found it in the index.
THEOREM AnswersAreCurrent ==
    ASSUME OneRun
    PROVE  KnowledgeSpec => []AnswerIsCurrent
<1>1. AnswerInv => AnswerIsCurrent
  BY DEF AnswerInv, SearchInv, FoundIsFresh, IsFresh, IsAnswer, AnswerIsCurrent, NothingFound
<1>2. QED
  BY <1>1, AnswerInvInit, AnswerInvStep, PTL DEF KnowledgeSpec

-----------------------------------------------------------------------------
(***************************************************************************)
(* Types, for any number of runs at once.                                  *)
(***************************************************************************)
\* A version that is saved, or will be, is one of a file.
TypesInv ==
    /\ RebuildTypeOK /\ SearchTypeOK /\ lapsed \in BOOLEAN
    /\ document.exists => document.version \in Versions
    /\ \A w \in SyncRuns :
        syncs[w].phase \in {"checking", "saving"} => syncs[w].version \in Versions

\* A step of a run
LEMMA RunKeepsTypes ==
    ASSUME TypesInv, UNCHANGED searching, NEW w \in SyncRuns, NEW r \in Sync,
           syncs' = [syncs EXCEPT ![w] = r],
           r.phase \in {"checking", "saving"} => r.version \in Versions,
           file' = file, parents' \in 0..MaxVersion, document' \in Documents,
           document'.exists => document'.version \in Versions,
           index' \in [Places -> 0..MaxVersion],
           readied' \in 0..MaxSyncs, breaks' \in 0..MaxBreaks
    PROVE  TypesInv'
<1>1. syncs' \in [SyncRuns -> Sync]
  BY DEF TypesInv, RebuildTypeOK
<1>2. RebuildTypeOK'
  BY <1>1 DEF TypesInv, RebuildTypeOK
<1>3. SearchTypeOK'
  BY DEF TypesInv, SearchTypeOK, searching
<1>4. ASSUME NEW v \in SyncRuns, syncs'[v].phase \in {"checking", "saving"}
      PROVE  syncs'[v].version \in Versions
  BY <1>4 DEF TypesInv, RebuildTypeOK
<1>5. lapsed' \in BOOLEAN
  BY DEF TypesInv, searching
<1>6. QED
  BY <1>2, <1>3, <1>4, <1>5 DEF TypesInv

\* A step that leaves the stored document alone
LEMMA RunGoesOn ==
    ASSUME TypesInv, NEW w \in SyncRuns, NEW next \in {"saving", "upserting", "retiring",
                                                        "failing", "ready"},
           Goes(w, next), next = "saving" => syncs[w].phase = "checking",
           UNCHANGED <<file, document, parents, readied, searching>>,
           index' \in [Places -> 0..MaxVersion], breaks' \in 0..MaxBreaks
    PROVE  TypesInv'
<1>1. RebuildTypeOK
  BY DEF TypesInv
<1>2. PICK r \in Sync : /\ syncs' = [syncs EXCEPT ![w] = r]
                        /\ r.phase = next /\ r.version = syncs[w].version
  BY <1>1, GoesReplaces
<1>3. r.phase \in {"checking", "saving"} => r.version \in Versions
  BY <1>2 DEF TypesInv
<1>4. /\ parents' \in 0..MaxVersion /\ document' \in Documents /\ readied' \in 0..MaxSyncs
      /\ document'.exists => document'.version \in Versions
  BY <1>1 DEF RebuildTypeOK, TypesInv
<1>5. QED
  BY <1>2, <1>3, <1>4, RunKeepsTypes

LEMMA RunEnds ==
    ASSUME TypesInv, NEW w \in SyncRuns, Ends(w), UNCHANGED <<file, parents, index, searching>>,
           document' \in Documents, document'.exists => document'.version \in Versions,
           readied' \in 0..MaxSyncs, breaks' \in 0..MaxBreaks
    PROVE  TypesInv'
<1>1. NoSync \in Sync /\ NoSync.phase = "idle" /\ syncs' = [syncs EXCEPT ![w] = NoSync]
  BY NoSyncOK DEF Ends, NoSync
<1>2. parents' \in 0..MaxVersion /\ index' \in [Places -> 0..MaxVersion]
  BY DEF TypesInv, RebuildTypeOK
<1>3. QED
  BY <1>1, <1>2, RunKeepsTypes

\* A call of the index, and what comes after it
LEMMA CallKeepsTypes ==
    ASSUME TypesInv, NEW w \in SyncRuns, NEW effect \in [Places -> 0..MaxVersion],
           NEW next \in {"upserting", "ready"}, IndexCall(w, effect, next),
           UNCHANGED <<file, document, parents, readied, searching>>
    PROVE  TypesInv'
<1>1. index \in [Places -> 0..MaxVersion] /\ breaks \in 0..MaxBreaks /\ MaxBreaks \in Nat
  BY KnowledgeAssumption DEF TypesInv, RebuildTypeOK
<1>2. /\ index' \in [Places -> 0..MaxVersion] /\ breaks' \in 0..MaxBreaks
      /\ Goes(w, next) \/ Goes(w, "failing")
  BY <1>1 DEF IndexCall
<1>3. QED
  BY <1>2, RunGoesOn

LEMMA RebuildingKeepsTypes ==
    ASSUME TypesInv, NEW w \in SyncRuns,
           \/ Parse(w) \/ CheckCurrent(w) \/ EmbeddingFails(w) \/ SaveIndexingSnapshot(w)
           \/ DeleteChildren(w) \/ UpsertChildren(w) \/ MarkIndexError(w)
           \/ MarkIndexReady(w) \/ FindMissing(w) \/ Retire(w) \/ ClearChildren(w)
           \/ RunDies(w)
    PROVE  TypesInv'
<1>1. /\ file \in 0..MaxVersion /\ parents \in 0..MaxVersion /\ document \in Documents
      /\ index \in [Places -> 0..MaxVersion] /\ readied \in 0..MaxSyncs
      /\ breaks \in 0..MaxBreaks /\ syncs[w] \in Sync /\ RebuildTypeOK
      /\ document.exists => document.version \in Versions
  BY DEF TypesInv, RebuildTypeOK
<1>2. MaxSyncs \in Nat /\ MaxBreaks \in Nat /\ MaxVersion \in Nat
  BY KnowledgeAssumption
<1>3. CASE Parse(w)
  <2>1. PICK phase \in {"checking", "saving"} :
            syncs' = [syncs EXCEPT ![w] = [phase |-> phase, version |-> file]]
    BY <1>3 DEF Parse
  <2>2. file \in Versions
    BY <1>1, <1>2, <1>3 DEF Parse, Versions
  <2>3. [phase |-> phase, version |-> file] \in Sync
    BY <1>1 DEF Sync
  <2>4. UNCHANGED <<file, document, parents, index, readied, breaks, searching>>
    BY <1>3 DEF Parse
  <2>5. QED
    BY <1>1, <2>1, <2>2, <2>3, <2>4, RunKeepsTypes
<1>4. CASE CheckCurrent(w)
  <2>1. /\ UNCHANGED <<file, document, parents, index, readied, breaks, searching>>
        /\ syncs[w].phase = "checking" /\ (Ends(w) \/ Goes(w, "saving"))
    BY <1>4 DEF CheckCurrent
  <2>2. CASE Ends(w)
    BY <1>1, <2>1, <2>2, RunEnds
  <2>3. CASE Goes(w, "saving")
    BY <1>1, <1>4, <2>1, <2>3, RunGoesOn DEF CheckCurrent
  <2>4. QED
    BY <2>1, <2>2, <2>3, <1>4 DEF CheckCurrent
<1>5. CASE EmbeddingFails(w)
  BY <1>1, <1>5, RunEnds DEF EmbeddingFails
<1>6. CASE SaveIndexingSnapshot(w)
  <2>1. syncs[w].version \in Versions /\ syncs[w].version \in 0..MaxVersion
    BY <1>1, <1>6 DEF TypesInv, SaveIndexingSnapshot, Sync
  <2>2. PICK r \in Sync : /\ syncs' = [syncs EXCEPT ![w] = r] /\ r.phase = "deleting"
    BY <1>1, <1>6, GoesReplaces DEF SaveIndexingSnapshot
  <2>3. StatusOf(syncs[w].version) \in {"ACTIVE", "RETIRED"}
    BY DEF StatusOf
  <2>4. /\ document' = [document EXCEPT !.exists = TRUE, !.version = syncs[w].version,
                           !.status = StatusOf(syncs[w].version), !.index_status = "INDEXING"]
        /\ parents' = syncs[w].version
        /\ UNCHANGED <<file, index, readied, breaks, searching>>
    BY <1>6 DEF SaveIndexingSnapshot
  <2>5. document' \in Documents /\ document'.version = syncs[w].version
    BY <1>1, <2>1, <2>3, <2>4 DEF Documents
  <2>6. QED
    BY <1>1, <2>1, <2>2, <2>4, <2>5, RunKeepsTypes
<1>7. CASE DeleteChildren(w) \/ ClearChildren(w)
  <2>1. NoChildren \in [Places -> 0..MaxVersion]
    BY <1>2 DEF NoChildren
  <2>2. QED
    BY <1>7, <2>1, CallKeepsTypes DEF DeleteChildren, ClearChildren
<1>8. CASE UpsertChildren(w)
  <2>1. \E to : \/ IndexCall(w, Written(syncs[w].version, to), "upserting")
                \/ IndexCall(w, Written(syncs[w].version, to), "ready")
    BY <1>8 DEF UpsertChildren
  <2>2. ASSUME NEW to PROVE Written(syncs[w].version, to) \in [Places -> 0..MaxVersion]
    <3>1. syncs[w].version \in 0..MaxVersion
      BY <1>1 DEF Sync
    <3>2. QED
      BY <1>1, <3>1 DEF Written
  <2>3. QED
    BY <1>8, <2>1, <2>2, CallKeepsTypes DEF UpsertChildren
<1>9. CASE MarkIndexError(w)
  <2>1. document' = [document EXCEPT !.index_status = "ERROR"]
    BY <1>9 DEF MarkIndexError
  <2>2. document' \in Documents /\ (document'.exists => document'.version \in Versions)
    BY <1>1, <2>1 DEF Documents
  <2>3. QED
    BY <1>1, <1>9, <2>2, RunEnds DEF MarkIndexError
<1>10. CASE MarkIndexReady(w)
  <2>1. readied' \in 0..MaxSyncs
    BY <1>1, <1>2, <1>10 DEF MarkIndexReady
  <2>2. document' = [document EXCEPT !.index_status = "READY", !.indexed_at = readied']
    BY <1>10 DEF MarkIndexReady
  <2>3. document' \in Documents /\ (document'.exists => document'.version \in Versions)
    BY <1>1, <2>1, <2>2 DEF Documents
  <2>4. QED
    BY <1>1, <1>10, <2>1, <2>3, RunEnds DEF MarkIndexReady
<1>11. CASE FindMissing(w)
  BY <1>1, <1>11, RunGoesOn DEF FindMissing
<1>12. CASE Retire(w)
  <2>1. PICK r \in Sync : /\ syncs' = [syncs EXCEPT ![w] = r] /\ r.phase = "clearing"
    BY <1>1, <1>12, GoesReplaces DEF Retire
  <2>2. document' = [document EXCEPT !.status = "RETIRED", !.index_status = "INDEXING"]
    BY <1>12 DEF Retire
  <2>3. document' \in Documents /\ (document'.exists => document'.version \in Versions)
    BY <1>1, <2>2 DEF Documents
  <2>4. parents' \in 0..MaxVersion /\ UNCHANGED <<file, index, readied, breaks, searching>>
    BY <1>2, <1>12 DEF Retire
  <2>5. QED
    BY <1>1, <2>1, <2>3, <2>4, RunKeepsTypes
<1>13. CASE RunDies(w)
  <2>1. breaks' \in 0..MaxBreaks
    BY <1>1, <1>2, <1>13 DEF RunDies
  <2>2. QED
    BY <1>1, <1>13, <2>1, RunEnds DEF RunDies
<1>14. QED
  BY <1>3, <1>4, <1>5, <1>6, <1>7, <1>8, <1>9, <1>10, <1>11, <1>12, <1>13

LEMMA SearchingKeepsTypes ==
    ASSUME TypesInv, AskQuestion \/ LookUp \/ QueryHybrid \/ Rerank \/ SearchFails
    PROVE  TypesInv'
<1>1. /\ search \in Search /\ search.key \in Keys /\ search.question \in Questions
      /\ search.hits \in [Places -> 0..MaxVersion] /\ cached \in Seq(CacheEntry)
      /\ \A i \in DOMAIN cached : cached[i] \in CacheEntry /\ cached[i].evidence \in SUBSET Evidence
      /\ SearchTypeOK /\ RebuildTypeOK
  BY SearchFields DEF TypesInv
<1>2. UNCHANGED <<file, document, parents, index, syncs, readied, breaks>>
  BY DEF AskQuestion, LookUp, QueryHybrid, Rerank, SearchFails, rebuilding
<1>3. NoChildren \in [Places -> 0..MaxVersion]
  BY KnowledgeAssumption DEF NoChildren
<1>4. Others \in Seq(CacheEntry)
  BY <1>1, OthersAreCached
<1>5. ASSUME AskQuestion PROVE SearchTypeOK'
  <2>1. PICK question \in Questions, query \in Queries :
          search' = [NoSearch EXCEPT !.phase = "embedding", !.question = question,
                        !.key = <<query, KnowledgeVersion>>]
    BY <1>5 DEF AskQuestion, Queries
  <2>2. KnowledgeVersion \subseteq Versions \X (0..MaxSyncs)
    BY <1>1 DEF KnowledgeVersion, TypesInv, RebuildTypeOK, Documents
  <2> PICK key : key = <<query, KnowledgeVersion>>
    OBVIOUS
  <2>3. key \in Keys
    BY <2>2 DEF Keys
  <2>4. search' \in Search
    BY <2>1, <2>3, NoSearchFields DEF Search
  <2>5. QED
    BY <1>1, <1>5, <2>4 DEF AskQuestion, SearchTypeOK
<1>6. ASSUME LookUp PROVE SearchTypeOK'
  <2>1. CASE search' = [search EXCEPT !.phase = "querying"] /\ cached' = Others
    <3>1. search' \in Search
      BY <1>1, <2>1 DEF Search
    <3>2. QED
      BY <1>4, <2>1, <3>1 DEF SearchTypeOK
  <2>2. ASSUME NEW i \in Hit,
               search' = [search EXCEPT !.phase = "done", !.evidence = cached[i].evidence],
               cached' = Append(Others, cached[i])
        PROVE  SearchTypeOK'
    <3>1. cached[i] \in CacheEntry /\ cached[i].evidence \in SUBSET Evidence
      BY <1>1 DEF Hit
    <3>2. search' \in Search
      BY <1>1, <2>2, <3>1 DEF Search
    <3>3. cached' \in Seq(CacheEntry)
      BY <1>4, <2>2, <3>1
    <3>4. QED
      BY <3>2, <3>3 DEF SearchTypeOK
  <2>3. QED
    BY <1>6, <2>1, <2>2 DEF LookUp
<1>7. ASSUME QueryHybrid PROVE SearchTypeOK'
  <2> PICK hits \in [Places -> 0..MaxVersion] :
          search' = [search EXCEPT !.phase = "ranking", !.hits = hits]
    <3> PICK hits : hits = [p \in Places |->
            IF index[p] # 0 /\ StatusOf(index[p]) = "ACTIVE" THEN index[p] ELSE 0]
      OBVIOUS
    <3>1. hits \in [Places -> 0..MaxVersion]
      BY <1>1, KnowledgeAssumption DEF RebuildTypeOK
    <3>2. search' = [search EXCEPT !.phase = "ranking", !.hits = hits]
      BY <1>7 DEF QueryHybrid
    <3>3. QED
      BY <3>1, <3>2
  <2>1. search' \in Search
    BY <1>1 DEF Search
  <2>2. QED
    BY <1>1, <1>7, <2>1 DEF QueryHybrid, SearchTypeOK
<1>8. ASSUME Rerank PROVE SearchTypeOK'
  <2> PICK evidence \in SUBSET Evidence : evidence = Context(search.question, search.hits)
    BY <1>1, ContextIsEvidence
  <2> PICK entry_ : entry_ = [key |-> search.key, evidence |-> evidence]
    OBVIOUS
  <2>1. entry_ \in CacheEntry
    BY <1>1 DEF CacheEntry
  <2>2. /\ search' = [search EXCEPT !.phase = "done", !.evidence = evidence, !.hits = NoChildren]
        /\ cached' = Put(entry_)
    BY <1>8 DEF Rerank
  <2>3. search' \in Search
    BY <1>1, <1>3, <2>2 DEF Search
  <2>4. cached' \in Seq(CacheEntry)
    BY <1>1, <2>1, <2>2, PutAdds
  <2>5. QED
    BY <2>3, <2>4 DEF SearchTypeOK
<1>9. ASSUME SearchFails PROVE SearchTypeOK'
  BY <1>1, <1>9, NoSearchFields DEF SearchFails, SearchTypeOK
<1>10. SearchTypeOK'
  BY <1>5, <1>6, <1>7, <1>8, <1>9
<1>11. lapsed' \in BOOLEAN
  BY DEF TypesInv, AskQuestion, LookUp, QueryHybrid, Rerank, SearchFails
<1>12. QED
  BY <1>2, <1>10, <1>11 DEF TypesInv, RebuildTypeOK

LEMMA TypesInvInit == KnowledgeInit => TypesInv
<1> SUFFICES ASSUME KnowledgeInit PROVE TypesInv
  OBVIOUS
<1>1. RebuildTypeOK /\ SearchTypeOK
  BY RebuildInvInit, SearchInvInit DEF RebuildInv, SearchInv
<1>2. ~ document.exists
  BY DEF KnowledgeInit
<1>3. \A w \in SyncRuns : syncs[w].phase = "idle"
  BY DEF KnowledgeInit, NoSync
<1>4. lapsed \in BOOLEAN
  BY DEF KnowledgeInit
<1>5. QED
  BY <1>1, <1>2, <1>3, <1>4 DEF TypesInv

LEMMA TypesInvStep == TypesInv /\ [KnowledgeNext]_knowledgeVars => TypesInv'
<1>1. ASSUME TypesInv, UNCHANGED knowledgeVars PROVE TypesInv'
  BY <1>1 DEF knowledgeVars, TypesInv, RebuildTypeOK, SearchTypeOK
<1>2. ASSUME TypesInv, EditFile PROVE TypesInv'
  BY <1>2 DEF EditFile, searching, TypesInv, RebuildTypeOK, SearchTypeOK
<1>3. QED
  BY <1>1, <1>2, RebuildingKeepsTypes, SearchingKeepsTypes DEF KnowledgeNext

LEMMA TypesInvTypes == TypesInv => KnowledgeTypeOK
<1> SUFFICES ASSUME TypesInv PROVE KnowledgeTypeOK
  OBVIOUS
<1>1. /\ search \in Search
      /\ \A i \in DOMAIN cached : cached[i].key \in Keys /\ cached[i].evidence \in SUBSET Evidence
  BY SearchFields DEF TypesInv
<1>2. QED
  BY <1>1 DEF TypesInv, RebuildTypeOK, Sync, Search, KnowledgeTypeOK

\* The rows, the index, the runs and the cache stay of their types, with any number of
\* runs at once.
THEOREM KnowledgeTypeCorrect == KnowledgeSpec => []KnowledgeTypeOK
<1>1. QED
  BY TypesInvInit, TypesInvStep, TypesInvTypes, PTL DEF KnowledgeSpec
=============================================================================
