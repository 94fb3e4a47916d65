------------------------------ MODULE ReadModels ------------------------------
(***************************************************************************)
(* What readers get to see: the requests, records, statistics and risks of *)
(* the back end (app/services/records, analytics, risk_analysis, handlers) *)
(* select rows by conditions of their own, and the evidence of             *)
(* recommendations (app/services/recommendations) by roles for the most    *)
(* part.  They keep no state: a reading is one reader's look at one        *)
(* request, or one query of some rows.                                     *)
(***************************************************************************)
EXTENDS Integers, FiniteSets

VARIABLES
    reading     \* the reading, and what was shown

ReaderRoles == {"APPLICANT", "BUILDING_MANAGER", "PURCHASER", "WAREHOUSE_MANAGER", "ADMIN"}

\* A reader, as related to one request: "building" tells whether the request's
\* building is one of theirs, "operator" whether they are in its log.
Readers == [roles : SUBSET ReaderRoles, building : BOOLEAN,
            applicant : BOOLEAN, handler : BOOLEAN, operator : BOOLEAN]

\* can_view_request: the detail, the timeline and its contacts, linked sessions
CanView(u) ==
    \/ "ADMIN" \in u.roles
    \/ u.applicant \/ u.handler \/ u.operator
    \/ "BUILDING_MANAGER" \in u.roles /\ u.building

\* list_requirements and list_statement
Views == {"CREATED_BY_ME", "PENDING_FOR_ME", "BUILDING_SCOPE", "ADMIN_SCOPE", "HANDLED_BY_ME"}

\* Fault: the view of a building asks for no role.
ListsOfAnyone(u, view) ==
    CASE view = "CREATED_BY_ME" -> u.applicant
      [] view = "PENDING_FOR_ME" -> u.handler
      [] view = "BUILDING_SCOPE" -> u.building
      [] view = "ADMIN_SCOPE" -> "ADMIN" \in u.roles
      [] OTHER -> u.applicant \/ u.operator

Lists(u, view) ==
    CASE view = "CREATED_BY_ME" -> u.applicant
      [] view = "PENDING_FOR_ME" -> u.handler
      [] view = "BUILDING_SCOPE" -> u.building /\ u.roles \cap {"BUILDING_MANAGER", "ADMIN"} # {}
      [] view = "ADMIN_SCOPE" -> "ADMIN" \in u.roles
      [] OTHER -> u.applicant \/ u.operator

\* PurchaseRecordRepository._visibility_condition.  A manager's records are those
\* of the building, also when they applied for something elsewhere.
IsRecordOf(u) ==
    IF "ADMIN" \in u.roles THEN TRUE
    ELSE IF "BUILDING_MANAGER" \in u.roles THEN u.building
    ELSE u.applicant \/ u.handler \/ u.operator

\* AnalyticsRepository.visibility_condition: what statistics, risks, similar cases
\* and a supplier's performance are made of
IsAnalysedFor(u) ==
    IF "ADMIN" \in u.roles THEN TRUE
    ELSE IF "BUILDING_MANAGER" \in u.roles THEN u.building
    ELSE u.applicant \/ u.handler \/ u.operator

\* list_building_risks: entries whose source is a request of the building
BlacklistedIn(u) ==
    \/ "ADMIN" \in u.roles
    \/ "BUILDING_MANAGER" \in u.roles /\ u.building

\* HandlerService.list_candidates
MayChooseHandler(u) ==
    \/ "ADMIN" \in u.roles \/ u.applicant \/ u.handler
    \/ "BUILDING_MANAGER" \in u.roles /\ u.building

\* supplier_evidence is the one search for evidence that is limited to buildings.
SupplierEvidenceFor(u) ==
    \/ "ADMIN" \in u.roles
    \/ "BUILDING_MANAGER" \in u.roles /\ u.building

\* purchase_history (of a request the reader may open, here another one),
\* supplier_contract_evidence, product_evidence and warehouse_evidence: completed
\* requests of every building, by a role.
Evidences == {"history", "contract", "product", "warehouse"}

\* Fault: the roles of the products, for all of it.
EvidenceRolesOfProducts(kind) == {"APPLICANT", "BUILDING_MANAGER", "PURCHASER", "ADMIN"}

EvidenceRoles(kind) ==
    CASE kind = "history" -> {"BUILDING_MANAGER", "PURCHASER", "ADMIN"}
      [] kind = "contract" -> {"PURCHASER", "ADMIN"}
      [] kind = "product" -> {"APPLICANT", "BUILDING_MANAGER", "PURCHASER", "ADMIN"}
      [] OTHER -> {"WAREHOUSE_MANAGER", "ADMIN"}

\* What tells who sold the goods, at which price or terms
Commercial == {"history", "contract"}

-----------------------------------------------------------------------------
(***************************************************************************)
(* Rows of the history, on the day 0.                                      *)
(***************************************************************************)
Days == -1..1
NoDay == 9
NoSupplier == "NONE"

\* AnalysisRow: the purchase's supplier, the proposed one of the last review, the
\* dates the goods were expected and received.  What is received was purchased.
HistoryRows == {r \in [executed : {"A", "B", NoSupplier}, proposed : {"A", NoSupplier},
                       expected : Days \cup {NoDay}, received : {-1, 0, NoDay}] :
    r.received # NoDay => r.executed # NoSupplier}

\* AnalysisRow.supplier_id
SupplierOf(r) == IF r.executed # NoSupplier THEN r.executed ELSE r.proposed

\* is_delayed and _is_delayed
IsDelayed(r) ==
    /\ r.expected # NoDay
    /\ IF r.received # NoDay THEN r.received > r.expected
       ELSE r.executed # NoSupplier /\ r.expected < 0

\* _apply_exclusions, of a query that asks for both
WithoutExcluded(S, blacklisted) ==
    LET kept == {r \in S : SupplierOf(r) \notin blacklisted}
        delayed == {SupplierOf(r) : r \in {q \in kept :
                        SupplierOf(q) # NoSupplier /\ IsDelayed(q)}}
    IN  {r \in kept : SupplierOf(r) \notin delayed}

\* supplier_performance: the purchases of one supplier, and the delayed ones of
\* those that were expected at a date
Purchases(S, supplier) == {r \in S : r.executed = supplier}
DelayRatio(S, supplier) ==
    LET eligible == {r \in Purchases(S, supplier) : r.expected # NoDay}
    IN  <<Cardinality({r \in eligible : IsDelayed(r)}), Cardinality(eligible)>>

\* supplier_history: a profession's suppliers, here four, in the order of their
\* purchases, of which three times the limit, here one, are looked at
TopSuppliers == 1..4
Recommended(blacklisted) ==
    LET good == (1..3) \ blacklisted
    IN  {s \in good : \A t \in good : s <= t}

-----------------------------------------------------------------------------
ReadModelsTypeOK ==
    \/ reading.kind \in {"none", "request"}
    \/ reading.kind = "evidence" /\ reading.of \in Evidences
    \/ reading.kind = "suppliers" /\ reading.shown \subseteq TopSuppliers
    \/ /\ reading.kind = "query" /\ reading.blacklisted \subseteq {"A", "B"}
       /\ reading.rows \subseteq HistoryRows /\ reading.shown \subseteq HistoryRows

ReadModelsInit == reading = [kind |-> "none"]

\* A reader comes upon the request.
Finds(u) ==
    /\ reading.kind = "none"
    /\ reading' = [kind |-> "request", reader |-> u]

ListRequests == \E u \in Readers : (\E view \in Views : Lists(u, view)) /\ Finds(u)

ReadRecord == \E u \in Readers : IsRecordOf(u) /\ Finds(u)

\* As a row of statistics, a similar case, or what a risk is compared with
AnalyseRequest == \E u \in Readers : IsAnalysedFor(u) /\ Finds(u)

\* As the source of a blacklist entry
ListBuildingRisks == \E u \in Readers : BlacklistedIn(u) /\ Finds(u)

ChooseHandler == \E u \in Readers : MayChooseHandler(u) /\ Finds(u)

ShowSupplierEvidence == \E u \in Readers : SupplierEvidenceFor(u) /\ Finds(u)

\* As evidence of a recommendation, by the request's number
ShowEvidence ==
    /\ reading.kind = "none"
    /\ \E u \in Readers, kind \in Evidences :
        /\ u.roles \cap EvidenceRoles(kind) # {}
        /\ reading' = [kind |-> "evidence", of |-> kind, reader |-> u]

QueryRows ==
    /\ reading.kind = "none"
    /\ \E q, r \in HistoryRows, blacklisted \in SUBSET {"A", "B"} :
        reading' = [kind |-> "query", rows |-> {q, r}, blacklisted |-> blacklisted,
                    shown |-> WithoutExcluded({q, r}, blacklisted)]

\* suppliers_for_request
RecommendSuppliers ==
    /\ reading.kind = "none"
    /\ \E blacklisted \in SUBSET TopSuppliers :
        reading' = [kind |-> "suppliers", blacklisted |-> blacklisted,
                    shown |-> Recommended(blacklisted)]

ReadModelsNext ==
    \/ ListRequests \/ ReadRecord \/ AnalyseRequest \/ ListBuildingRisks \/ ChooseHandler
    \/ ShowSupplierEvidence \/ ShowEvidence \/ QueryRows \/ RecommendSuppliers

-----------------------------------------------------------------------------
(***************************************************************************)
(* Properties.                                                             *)
(***************************************************************************)

\* docs/baseline/analytics-backend-interface-v0.2.md:25, statistics do not get
\* around the rights to a row: whatever a list, a record, an analysis, a choice of
\* handlers or a manager's supplier evidence shows a reader of a request, its detail
\* is open to them too.  The other evidence does get around them; of a request its
\* readers may not open it shows supplier, price and terms to building managers and
\* purchasers only, and nothing at all to an employee without a role.
ListedMayBeOpened ==
    /\ reading.kind = "request" => CanView(reading.reader)
    /\ reading.kind = "evidence" /\ ~CanView(reading.reader) =>
        /\ reading.reader.roles # {}
        /\ reading.of \in Commercial =>
            reading.reader.roles \cap {"BUILDING_MANAGER", "PURCHASER"} # {}

\* A query without delayed and blacklisted suppliers returns no delayed purchase
\* and none of such a supplier: also of a supplier who is only proposed, and of
\* one whose delay is in another row.  A recommendation leaves out the blacklisted
\* suppliers too, and no other one with more purchases than one it shows.
ExclusionsHold ==
    /\ reading.kind = "suppliers" =>
        /\ reading.shown \cap reading.blacklisted = {}
        /\ \A s \in reading.shown : (1..s) \ reading.blacklisted \subseteq reading.shown
    /\ reading.kind = "query" =>
        \A row \in reading.shown :
            /\ ~IsDelayed(row) /\ SupplierOf(row) \notin reading.blacklisted
            /\ DelayRatio(reading.rows, SupplierOf(row))[1] = 0
=============================================================================
