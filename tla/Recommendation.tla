---------------------------- MODULE Recommendation ----------------------------
(***************************************************************************)
(* A recommendation from the history (agent_app/skills and the back end's  *)
(* evidence searches, app/services/recommendations.py): the profile of the *)
(* user, its search stages from the most specific one on until there is    *)
(* enough evidence, and the candidates made of it.                         *)
(***************************************************************************)
EXTENDS Naturals, Sequences, FiniteSets, SequencesExt

CONSTANTS
    HistorySize,    \* the history's rows are 1..HistorySize, newest first
    EvidenceLimit,  \* evidence_limit
    CandidateLimit  \* candidate_limit

ASSUME RecommendationAssumption ==
    /\ HistorySize \in Nat /\ EvidenceLimit \in Nat \ {0}
    /\ CandidateLimit \in Nat \ {0}

VARIABLES
    advice      \* the recommendation being made, and the history it searches

Rows == 1..HistorySize

-----------------------------------------------------------------------------
(***************************************************************************)
(* Who may ask for what.                                                   *)
(***************************************************************************)

Profiles == {"BRAND_MODEL", "SUPPLIER", "PURCHASER_CONTRACT", "WAREHOUSE"}

RequiredRole == [BRAND_MODEL |-> "APPLICANT", SUPPLIER |-> "BUILDING_MANAGER",
    PURCHASER_CONTRACT |-> "PURCHASER", WAREHOUSE |-> "WAREHOUSE_MANAGER"]

UserRoles == {RequiredRole[p] : p \in Profiles} \cup {"ADMIN"}

\* _profile_for_status, with "NONE" for no request and any other status
ProfileOfStatus == [DRAFT |-> "BRAND_MODEL", REJECTED |-> "BRAND_MODEL",
    PENDING_REVIEW |-> "SUPPLIER", PENDING_PURCHASE |-> "PURCHASER_CONTRACT",
    PURCHASING |-> "PURCHASER_CONTRACT", PENDING_WAREHOUSE |-> "WAREHOUSE",
    NONE |-> "NONE"]

Applicable(roles) == {p \in Profiles : RequiredRole[p] \in roles}

\* The profile, "NONE" when the user is told to choose or is not permitted: what
\* the message names, the only one of the user's roles, or the one of the status.
Resolve(roles, explicit, status) ==
    IF explicit # "NONE"
    THEN IF RequiredRole[explicit] \in roles \/ "ADMIN" \in roles THEN explicit ELSE "NONE"
    ELSE IF Cardinality(Applicable(roles)) = 1
    THEN CHOOSE p \in Profiles : p \in Applicable(roles)
    ELSE IF ProfileOfStatus[status] \in Applicable(roles) THEN ProfileOfStatus[status]
    ELSE "NONE"

\* require_any_role of the evidence search a profile's tool calls
Permitted(profile) ==
    CASE profile = "BRAND_MODEL" -> {"APPLICANT", "BUILDING_MANAGER", "PURCHASER", "ADMIN"}
      [] profile = "SUPPLIER" -> {"BUILDING_MANAGER", "ADMIN"}
      [] profile = "PURCHASER_CONTRACT" -> {"PURCHASER", "ADMIN"}
      [] OTHER -> {"WAREHOUSE_MANAGER", "ADMIN"}

-----------------------------------------------------------------------------
(***************************************************************************)
(* What is searched.                                                       *)
(***************************************************************************)

\* "names" are the device names, or the terms looked up for one.
DeviceFields == {"profession", "names", "brand", "model"}
SupplierFields == {"supplier_id", "supplier_name"}

\* retrieval_stages
Stages(profile) ==
    CASE profile = "SUPPLIER" ->
        <<{"names", "brand", "model"}, {"names", "brand"}, {"names"}, {"profession"}>>
      [] profile = "PURCHASER_CONTRACT" -> <<{"supplier_id"}, {"supplier_name"}, {}>>
      [] OTHER -> <<{"profession", "names"}, {"names"}, {"profession"}>>

\* Two suppliers have one name; no supplier has the name "UNKNOWN".
Sellers == {"S1", "S2", "S3"}
NameOf == [S1 |-> "N1", S2 |-> "N1", S3 |-> "N2"]
SellersNamed(name) == {s \in Sellers : NameOf[s] = name}

\* _query_context: the fields of the message, the draft or the request.  The
\* purchase of the request has both fields of a supplier, a message the name.
QueryFields(profile) ==
    CASE profile = "SUPPLIER" -> SUBSET DeviceFields
      [] profile = "PURCHASER_CONTRACT" -> {{}, {"supplier_name"}, SupplierFields}
      [] OTHER -> SUBSET {"profession", "names"}

\* _missing_query_message
LacksDevice(profile, query) ==
    profile # "PURCHASER_CONTRACT" /\ query \cap {"profession", "names"} = {}

Quiet == [phase |-> "ASKED", profile |-> "NONE", permitted |-> FALSE, query |-> {}, seller |-> "NONE",
    name |-> "NONE", agrees |-> [r \in Rows |-> {}], sold |-> [r \in Rows |-> "S1"],
    stage |-> 1, asked |-> {}, evidence |-> <<>>, candidates |-> <<>>]

RecommendationTypeOK ==
    /\ DOMAIN advice = DOMAIN Quiet
    /\ advice.profile \in Profiles \cup {"NONE"}
    /\ advice.phase \in {"ASKED", "RESOLVED", "SEARCH", "CLARIFY", "ANSWERED", "FAILED"}
    /\ advice.permitted \in BOOLEAN /\ advice.asked \subseteq SUBSET (DeviceFields \cup SupplierFields)
    /\ \A i \in DOMAIN advice.evidence :
        advice.evidence[i].row \in Rows /\ advice.evidence[i].stage \in 1..4

RecommendationInit == advice = Quiet

\* execute: the request is read and the profile resolved.
ResolveProfile ==
    /\ advice.phase = "ASKED"
    /\ \E roles \in SUBSET UserRoles, status \in DOMAIN ProfileOfStatus,
          explicit \in Profiles \cup {"NONE"} :
        LET profile == Resolve(roles, explicit, status)
        IN  advice' = [Quiet EXCEPT !.profile = profile,
                !.phase = IF profile = "NONE" THEN "CLARIFY" ELSE "RESOLVED",
                !.permitted = profile # "NONE" /\ roles \cap Permitted(profile) # {}]

\* The query is made; from here on the rows that the search can see matter by the
\* query's fields they agree with.
StartsSearch(query, seller, name, agrees, sold) ==
    advice' = [advice EXCEPT !.query = query, !.seller = seller,
        !.name = name, !.agrees = agrees, !.sold = sold,
        !.phase = IF LacksDevice(advice.profile, query) THEN "CLARIFY" ELSE "SEARCH"]

QueryDevices ==
    /\ advice.phase = "RESOLVED" /\ advice.profile # "PURCHASER_CONTRACT"
    /\ \E query \in QueryFields(advice.profile) : \E agrees \in [Rows -> SUBSET query] :
        StartsSearch(query, "NONE", "NONE", agrees, Quiet.sold)

QueryContracts ==
    /\ advice.phase = "RESOLVED" /\ advice.profile = "PURCHASER_CONTRACT"
    /\ \E query \in QueryFields(advice.profile), sold \in [Rows -> Sellers] :
       \E seller \in IF "supplier_id" \in query THEN Sellers ELSE {"NONE"} :
       \E name \in IF seller # "NONE" THEN {NameOf[seller]}
                   ELSE IF query = {} THEN {"NONE"} ELSE {"N1", "N2", "UNKNOWN"} :
        StartsSearch(query, seller, name, Quiet.agrees, sold)

Arguments(stage) == Stages(advice.profile)[stage] \cap advice.query

Unscoped(stage) == advice.profile = "PURCHASER_CONTRACT" /\ stage = 3

\* A stage that would repeat a search, or search for nothing, is left out.
Skips(stage) ==
    \/ Unscoped(stage) /\ advice.query # {}
    \/ Arguments(stage) \in advice.asked
    \/ ~Unscoped(stage) /\ Arguments(stage) \ {"brand", "model"} = {}

\* matching_suppliers: the suppliers a search for contracts is about.  More
\* than one of a name is an error.
TooMany(stage) ==
    Arguments(stage) = {"supplier_name"} /\ Cardinality(SellersNamed(advice.name)) > 1

\* The rows the back end finds for a stage's arguments
Matches(stage) == {r \in Rows :
    CASE Arguments(stage) = {"supplier_id"} -> advice.sold[r] = advice.seller
      [] Arguments(stage) = {"supplier_name"} -> NameOf[advice.sold[r]] = advice.name
      [] OTHER -> Arguments(stage) \subseteq advice.agrees[r]}

\* Fault: the search is cut before it is ordered.
FirstRows(S, n) == {r \in S : Cardinality({q \in S : q > r}) < n}

\* ORDER BY ... DESC LIMIT
NewestRows(S, n) == {r \in S : Cardinality({q \in S : q < r}) < n}

\* The elements of a set in the order that is given by "before"
Sorted(S, before(_, _)) == {s \in [1..Cardinality(S) -> S] :
    \A i, j \in 1..Cardinality(S) : i < j => before(s[i], s[j])}

HasRow(evidence, row) == \E i \in DOMAIN evidence : evidence[i].row = row

\* The loop over the stages ends when there is enough.
Searching ==
    /\ advice.phase = "SEARCH" /\ advice.stage <= Len(Stages(advice.profile))
    /\ Len(advice.evidence) < EvidenceLimit

\* The search of a stage: the limit is what is missing in the evidence, and is also
\* used up by rows that are evidence already.
SearchStage ==
    /\ Searching /\ ~Skips(advice.stage)
    /\ LET stage == advice.stage
           found == NewestRows(Matches(stage), EvidenceLimit - Len(advice.evidence))
           new == {r \in found : ~HasRow(advice.evidence, r)}
       IN  IF TooMany(stage) THEN advice' = [advice EXCEPT !.phase = "CLARIFY"]
           ELSE \E rows \in Sorted(new, <) :
            advice' = [advice EXCEPT !.stage = @ + 1, !.asked = @ \cup {Arguments(stage)},
                !.evidence = @ \o [i \in DOMAIN rows |-> [row |-> rows[i], stage |-> stage]]]

SkipStage ==
    /\ Searching /\ Skips(advice.stage)
    /\ advice' = [advice EXCEPT !.stage = @ + 1]

\* A tool that answers with a failure ends the search with a warning; what was
\* found is used.
CallFails ==
    /\ Searching /\ ~Skips(advice.stage)
    /\ advice' = [advice EXCEPT !.stage = 5]

\* Without an answer of the tool, from the connection on, _call and execute let
\* MCPClientError pass, and what was found is lost.
SkillFails ==
    /\ advice.phase = "ASKED" \/ (Searching /\ ~Skips(advice.stage))
    /\ advice' = [Quiet EXCEPT !.phase = "FAILED"]

-----------------------------------------------------------------------------
(***************************************************************************)
(* What is recommended.                                                    *)
(***************************************************************************)

\* _candidate: of one key's evidence, the newest row is the one that is shown.
Candidate(items) ==
    [refs |-> {e.row : e \in items}, shown |-> Min({e.row : e \in items}),
     best |-> Min({e.stage : e \in items})]

\* _aggregate: the order of the candidates
Precedes(c, d) ==
    \/ c.best < d.best
    \/ c.best = d.best /\ Cardinality(c.refs) > Cardinality(d.refs)
    \/ c.best = d.best /\ Cardinality(c.refs) = Cardinality(d.refs) /\ c.shown < d.shown

\* Rows with one key (brand and model, supplier, terms of the contract, location)
\* are one candidate; key is of no interest before.
Recommend ==
    /\ advice.phase = "SEARCH" /\ ~Searching
    /\ \E key \in [Rows -> {"K1", "K2"}] :
        LET of(k) == {e \in ToSet(advice.evidence) : key[e.row] = k}
            all == {Candidate(of(k)) : k \in {key[e.row] : e \in ToSet(advice.evidence)}}
        IN  \E ranked \in Sorted(all, Precedes) :
            advice' = [advice EXCEPT !.phase = "ANSWERED",
                !.candidates = SubSeq(ranked, 1, Min({CandidateLimit, Len(ranked)}))]

RecommendationNext ==
    \/ ResolveProfile \/ QueryDevices \/ QueryContracts
    \/ SearchStage \/ SkipStage \/ CallFails \/ SkillFails \/ Recommend

RecommendationSpec == RecommendationInit /\ [][RecommendationNext]_advice

-----------------------------------------------------------------------------
(***************************************************************************)
(* Properties.                                                             *)
(***************************************************************************)

\* A profile the agent resolves for a user is one whose search the back end
\* permits to that user, whatever the message names and the request's status is.
ResolvedIsPermitted == advice.phase = "RESOLVED" => advice.permitted

\* A recommendation of contract terms that was asked for one supplier never shows,
\* or counts, the terms of another one that has the same name.
OneSupplier ==
    advice.query # {} /\ advice.profile = "PURCHASER_CONTRACT" =>
        \A i, j \in DOMAIN advice.evidence :
            advice.sold[advice.evidence[i].row] = advice.sold[advice.evidence[j].row]

\* What a candidate shows is the newest of its rows, and no row that matches as well
\* as a row of the evidence and is newer was left out for it, whatever the stages
\* before it found and used of the limit.
NewestIsKept ==
    advice.phase = "ANSWERED" =>
        /\ \A i \in DOMAIN advice.candidates : LET c == advice.candidates[i] IN
            \A r \in c.refs : c.shown <= r
        /\ \A i \in DOMAIN advice.evidence : LET e == advice.evidence[i] IN
            \A r \in Matches(e.stage) : r < e.row => HasRow(advice.evidence, r)
=============================================================================
