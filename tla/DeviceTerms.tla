----------------------------- MODULE DeviceTerms -----------------------------
(***************************************************************************)
(* The index of the device names of the history (agent_app/device_terms):  *)
(* a script reads the names from MySQL, merges their spellings, empties    *)
(* the collection and fills it again, and may fail or die at any step;     *)
(* recommendations look their device's name up meanwhile, by its spelling  *)
(* and then by its meaning.  One script runs at a time.                    *)
(***************************************************************************)
EXTENDS Naturals, FiniteSets, FiniteSetsExt

CONSTANTS
    TopK,           \* device_term_top_k
    MaxRebuilds     \* bound: runs of the script

ASSUME DeviceTermsAssumption == TopK \in Nat \ {0} /\ MaxRebuilds \in Nat

VARIABLES
    collection,     \* the collection of the vector store, and its points
    rebuild,        \* the script's run
    rebuilds,       \* runs begun
    indexed,        \* not in the code: the names last indexed from first to last
    lookup          \* a recommendation's lookup; quiet: no script ran during it

termVars == <<collection, rebuild, rebuilds, indexed, lookup>>

\* Names as they are written; 1 and 2 are spellings of one name.
Spellings == 1..3

\* normalize_device_name: width, case and blanks do not count.
Normalized(spelling) == IF spelling = 3 THEN "n2" ELSE "n1"

\* One of the names is known in both professions.
Terms == [profession : {"UPS"}, name : Spellings] \cup [profession : {"RACK"}, name : {1}]

\* A point's id is made of these, so that there is one for each.
Key(t) == <<t.profession, Normalized(t.name)>>
SameKey(t, S) == {u \in S : Key(u) = Key(t)}

\* _deduplicate: the name is spelled as the first of its sources is.
Deduplicated(S) == {t \in S : \A u \in SameKey(t, S) : t.name <= u.name}

NoRebuild == [phase |-> "idle", sources |-> {}, left |-> {}]
NoLookup == [phase |-> "none", quiet |-> FALSE, status |-> "NONE", names |-> {},
             asked |-> [profession |-> "UPS", name |-> 1]]

DeviceTermsTypeOK ==
    /\ collection \in [exists : BOOLEAN, points : SUBSET Terms]
    /\ rebuild.phase \in {"idle", "embedding", "deleting", "creating", "upserting"}
    /\ rebuild.left \subseteq rebuild.sources /\ rebuild.sources \subseteq Terms
    /\ rebuilds \in 0..MaxRebuilds
    /\ indexed.names \subseteq Terms /\ indexed.whole \in BOOLEAN
    /\ lookup.phase \in {"none", "exact", "semantic", "done"} /\ lookup.quiet \in BOOLEAN
    /\ lookup.status \in {"NONE", "EXACT", "SEMANTIC", "NO_MATCH", "FALLBACK"}
    /\ lookup.asked \in Terms /\ lookup.names \subseteq Spellings

DeviceTermsInit ==
    /\ collection = [exists |-> FALSE, points |-> {}]
    /\ rebuild = NoRebuild /\ rebuilds = 0
    /\ indexed = [names |-> {}, whole |-> FALSE]
    /\ lookup = NoLookup

-----------------------------------------------------------------------------
(***************************************************************************)
(* The script.                                                             *)
(***************************************************************************)
\* list_distinct: the names of the requests there are now
ReadSources ==
    /\ rebuild.phase = "idle" /\ rebuilds < MaxRebuilds
    /\ rebuilds' = rebuilds + 1
    /\ \E S \in SUBSET Terms : rebuild' = [phase |-> "embedding", sources |-> S, left |-> {}]
    /\ lookup' = [lookup EXCEPT !.quiet = FALSE]
    /\ UNCHANGED <<collection, indexed>>

\* All vectors are made before anything is deleted.
EncodeTerms ==
    /\ rebuild.phase = "embedding"
    /\ rebuild' = [rebuild EXCEPT !.phase = "deleting", !.left = Deduplicated(rebuild.sources)]
    /\ UNCHANGED <<collection, rebuilds, indexed, lookup>>

\* Fault: a collection that exists is kept.
RecreateKeepsPoints ==
    /\ rebuild.phase = "deleting"
    /\ rebuild' = [rebuild EXCEPT !.phase = "creating"]
    /\ indexed' = [indexed EXCEPT !.whole = FALSE]
    /\ UNCHANGED <<collection, rebuilds, lookup>>

\* recreate_collection, its first part
DeleteCollection ==
    /\ rebuild.phase = "deleting"
    /\ collection' = [exists |-> FALSE, points |-> {}]
    /\ rebuild' = [rebuild EXCEPT !.phase = "creating"]
    /\ indexed' = [indexed EXCEPT !.whole = FALSE]
    /\ UNCHANGED <<rebuilds, lookup>>

RebuildDone(left) ==
    /\ rebuild' = IF left = {} THEN NoRebuild
                  ELSE [rebuild EXCEPT !.phase = "upserting", !.left = left]
    /\ indexed' = IF left = {} THEN [names |-> rebuild.sources, whole |-> TRUE] ELSE indexed

\* Without a name in the history, nothing is inserted.
CreateCollection ==
    /\ rebuild.phase = "creating"
    /\ collection' = [collection EXCEPT !.exists = TRUE]
    /\ RebuildDone(rebuild.left)
    /\ UNCHANGED <<rebuilds, lookup>>

\* upsert_terms: a batch of points, here of any one
UpsertTerms ==
    /\ rebuild.phase = "upserting"
    /\ \E t \in rebuild.left :
        /\ collection' = [collection EXCEPT
                !.points = (@ \ SameKey(t, @)) \cup {t}]
        /\ RebuildDone(rebuild.left \ {t})
    /\ UNCHANGED <<rebuilds, lookup>>

\* A call fails, before its effect or after it, or the script dies: the
\* collection stays as it is, until someone runs the script again.
RebuildFails ==
    /\ rebuild.phase # "idle"
    /\ rebuild' = NoRebuild
    /\ UNCHANGED <<collection, rebuilds, indexed, lookup>>

-----------------------------------------------------------------------------
(***************************************************************************)
(* A lookup.                                                               *)
(***************************************************************************)
\* _query_context, of a device whose name and profession are known
AskName ==
    /\ lookup.phase = "none"
    /\ \E t \in Terms : lookup' = [NoLookup EXCEPT !.phase = "exact", !.asked = t,
                                    !.quiet = rebuild.phase = "idle"]
    /\ UNCHANGED <<collection, rebuild, rebuilds, indexed>>

Found(status, names) ==
    lookup' = [lookup EXCEPT !.phase = "done", !.status = status, !.names = names]

\* The collection is missing, or the store or the provider of the vectors fails:
\* the name is used as it was asked.
LookupFails ==
    /\ lookup.phase \in {"exact", "semantic"}
    /\ Found("FALLBACK", {lookup.asked.name})
    /\ UNCHANGED <<collection, rebuild, rebuilds, indexed>>

FindExact ==
    /\ lookup.phase = "exact" /\ collection.exists
    /\ LET alike == SameKey(lookup.asked, collection.points)
       IN IF alike = {} THEN lookup' = [lookup EXCEPT !.phase = "semantic"]
          ELSE \E t \in alike : Found("EXACT", {t.name})
    /\ UNCHANGED <<collection, rebuild, rebuilds, indexed>>

\* Points of the same profession only
OfProfession == {t \in collection.points : t.profession = lookup.asked.profession}

\* search: the nearest points, however far they are.  Without any, the name is
\* used as it was asked.
SearchSimilar ==
    /\ lookup.phase = "semantic" /\ collection.exists
    /\ LET n == Min({TopK, Cardinality(OfProfession)})
       IN IF n = 0 THEN Found("NO_MATCH", {lookup.asked.name})
          ELSE \E S \in SUBSET OfProfession :
            Cardinality(S) = n /\ Found("SEMANTIC", {t.name : t \in S})
    /\ UNCHANGED <<collection, rebuild, rebuilds, indexed>>

\* The recommendation goes on to its searches.
UseNames ==
    /\ lookup.phase = "done"
    /\ lookup' = NoLookup
    /\ UNCHANGED <<collection, rebuild, rebuilds, indexed>>

DeviceTermsNext ==
    \/ ReadSources \/ EncodeTerms \/ DeleteCollection \/ CreateCollection
    \/ UpsertTerms \/ RebuildFails
    \/ AskName \/ LookupFails \/ FindExact \/ SearchSimilar \/ UseNames

DeviceTermsSpec == DeviceTermsInit /\ [][DeviceTermsNext]_termVars

-----------------------------------------------------------------------------
(***************************************************************************)
(* Property.                                                               *)
(***************************************************************************)

\* A recommendation always has a name to search for, and while the collection
\* holds a whole history and no script runs, it is the right one, whatever runs
\* failed before: a spelling of the history for every name of it, and for any
\* other name the names of its own profession.
NamesOfTheHistory ==
    lookup.phase = "done" =>
        /\ lookup.names # {}
        /\ indexed.whole /\ lookup.quiet =>
            LET own == {t \in indexed.names : t.profession = lookup.asked.profession}
                alike == {t.name : t \in SameKey(lookup.asked, own)}
            IN  \/ lookup.status = "FALLBACK" /\ lookup.names = {lookup.asked.name}
                \/ alike # {} /\ lookup.names \subseteq alike
                \/ alike = {} /\ own # {} /\ lookup.names \subseteq {t.name : t \in own}
                \/ own = {} /\ lookup.names = {lookup.asked.name}
=============================================================================
