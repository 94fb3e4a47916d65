------------------------------ MODULE Requests ------------------------------
(***************************************************************************)
(* A purchase request and what one HTTP handler of the back end reads from *)
(* it and writes to it: the rows of app/models/procurement.py that share a *)
(* request_id, the transition table of app/domain/workflow.py and the      *)
(* checks of app/services/procurement.py and app/services/workflow.py.     *)
(*                                                                         *)
(* The module has no variables.  "a" is always the request as the handler  *)
(* read it, "x" the row the handler finds when it writes: Procurement      *)
(* passes a snapshot for "a" and the stored row for "x", ProcurementSerial *)
(* passes the stored row for both.                                         *)
(***************************************************************************)
EXTENDS Integers, Sequences

CONSTANTS
    Employees,      \* rows of the employees table
    Buildings,      \* rows of the buildings table
    Quantities,     \* the quantities a client may send
    Prices,         \* the unit prices a client may send, in cents
    Nobody,         \* NULL in an employee column
    Missing         \* NULL in a quantity or price column

ASSUME RequestsAssumption ==
    /\ Nobody \notin Employees
    /\ Quantities \subseteq Nat \ {0}   \* ApplicantFields.quantity: gt=0
    /\ Prices \subseteq Nat             \* ReviewFields.estimated_unit_price: ge=0
    /\ Missing \notin Nat

Roles == {"APPLICANT", "BUILDING_MANAGER", "PURCHASER", "WAREHOUSE_MANAGER", "ADMIN"}

\* PurchaseStatus; "ABSENT" is a request_id no row has yet.
Statuses == {"ABSENT", "DRAFT", "PENDING_REVIEW", "REJECTED", "PENDING_PURCHASE",
             "PURCHASING", "PENDING_WAREHOUSE", "COMPLETED"}

\* The statuses after the manager's approval.
Bought == {"PENDING_PURCHASE", "PURCHASING", "PENDING_WAREHOUSE", "COMPLETED"}

\* WorkflowOperation.
Operations == {"SUBMIT_REVIEW", "REJECT", "RESUBMIT_REVIEW", "SUBMIT_PURCHASER",
               "START_PURCHASE", "SUBMIT_WAREHOUSE", "COMPLETE"}

-----------------------------------------------------------------------------
(***************************************************************************)
(* Employees: active stands for the employee's status together with that   *)
(* of the external identity, which the code switches off together.         *)
(***************************************************************************)
StaffRecord == [active : BOOLEAN, roles : SUBSET Roles, buildings : SUBSET Buildings]

Staffing == [Employees -> StaffRecord]

Holds(staff, u, role) == staff[u].active /\ role \in staff[u].roles

BelongsTo(staff, u, b) == "ADMIN" \in staff[u].roles \/ b \in staff[u].buildings

IsValidHandler(staff, h, role, b) ==
    /\ Holds(staff, h, role)
    /\ role = "BUILDING_MANAGER" => b \in staff[h].buildings

-----------------------------------------------------------------------------
(***************************************************************************)
(* The rows of one request.  "described" is TRUE when the required         *)
(* applicant fields other than the quantity are filled, "filled" when the  *)
(* required review fields other than the unit price are, the proposed      *)
(* supplier and a needed contract type included.  A review's round is its  *)
(* position in reviews.                                                    *)
(***************************************************************************)
ReviewRecord ==
    [reviewer : Employees, status : {"DRAFT", "COMPLETED"},
     result : {"NONE", "APPROVED", "REJECTED"},
     price : Prices \cup {Missing}, total : Nat \cup {Missing}, filled : BOOLEAN]

NewReview(u) ==
    [reviewer |-> u, status |-> "DRAFT", result |-> "NONE",
     price |-> Missing, total |-> Missing, filled |-> FALSE]

ExecutionRecord ==
    [purchaser : Employees \cup {Nobody},
     price : Prices \cup {Missing}, total : Nat \cup {Missing}]

NoExecution == [purchaser |-> Nobody, price |-> Missing, total |-> Missing]

ReceiptRecord ==
    [keeper : Employees \cup {Nobody},
     received : Quantities \cup {Missing}, remark : BOOLEAN]

NoReceipt == [keeper |-> Nobody, received |-> Missing, remark |-> FALSE]

\* A row of purchase_operation_logs; token 0 is NULL, the draft's own row.
LogRecord ==
    [op : Operations \cup {"CREATE_DRAFT"},
     by : Employees, assigned : Employees \cup {Nobody},
     from : Statuses, to : Statuses, token : Nat]

\* A row of the same table that moves no request: the operations on a completed
\* one.  Its two statuses and its assignee, NULL, are left out.
LateOperations == {"RESEND_NOTIFICATION", "ADD_SUPPLIER_BLACKLIST",
                   "RELEASE_SUPPLIER_BLACKLIST"}

LateRecord(ids) ==
    [request : ids, op : LateOperations, by : Employees, token : Nat]

RequestRecord ==
    [building : Buildings \cup {Nobody}, applicant : Employees \cup {Nobody},
     status : Statuses, handler : Employees \cup {Nobody},
     version : Nat \cup {-1}, qty : Quantities \cup {Missing}, described : BOOLEAN,
     reviews : Seq(ReviewRecord), execution : ExecutionRecord,
     receipt : ReceiptRecord, log : Seq(LogRecord), notified : SUBSET Employees]

Absent ==
    [building |-> Nobody, applicant |-> Nobody, status |-> "ABSENT",
     handler |-> Nobody, version |-> -1, qty |-> Missing, described |-> FALSE,
     reviews |-> << >>, execution |-> NoExecution, receipt |-> NoReceipt,
     log |-> << >>, notified |-> {}]

Draft(u, b) ==
    [Absent EXCEPT
        !.building = b, !.applicant = u, !.status = "DRAFT", !.handler = u,
        !.version = 0,
        !.log = << [op |-> "CREATE_DRAFT", by |-> u, assigned |-> u,
                    from |-> "ABSENT", to |-> "DRAFT", token |-> 0] >>]

-----------------------------------------------------------------------------
(***************************************************************************)
(* The workflow: TRANSITION_RULES and WorkflowService.transition.          *)
(***************************************************************************)
NextIsApplicant == "assign_to_applicant"
NextIsUnchanged == "target_role is None"
NextIsCleared == "clear_handler"

TransitionRule(from, to, role, next) ==
    [from |-> from, to |-> to, role |-> role, next |-> next]

Rules ==
    [SUBMIT_REVIEW    |-> TransitionRule("DRAFT", "PENDING_REVIEW",
                                         "APPLICANT", "BUILDING_MANAGER"),
     REJECT           |-> TransitionRule("PENDING_REVIEW", "REJECTED",
                                         "BUILDING_MANAGER", NextIsApplicant),
     RESUBMIT_REVIEW  |-> TransitionRule("REJECTED", "PENDING_REVIEW",
                                         "APPLICANT", "BUILDING_MANAGER"),
     SUBMIT_PURCHASER |-> TransitionRule("PENDING_REVIEW", "PENDING_PURCHASE",
                                         "BUILDING_MANAGER", "PURCHASER"),
     START_PURCHASE   |-> TransitionRule("PENDING_PURCHASE", "PURCHASING",
                                         "PURCHASER", NextIsUnchanged),
     SUBMIT_WAREHOUSE |-> TransitionRule("PURCHASING", "PENDING_WAREHOUSE",
                                         "PURCHASER", "WAREHOUSE_MANAGER"),
     COMPLETE         |-> TransitionRule("PENDING_WAREHOUSE", "COMPLETED",
                                         "WAREHOUSE_MANAGER", NextIsCleared)]

\* _validate_actor
IsActor(staff, u, a, rule) ==
    /\ Holds(staff, u, rule.role)
    /\ u = IF rule.role = "APPLICANT" THEN a.applicant ELSE a.handler
    /\ rule.role = "BUILDING_MANAGER" => BelongsTo(staff, u, a.building)

\* Fault: any employee may be named as the next handler.
NextHandlersAnyone(staff, a, rule) ==
    CASE rule.next = NextIsCleared   -> {Nobody}
      [] rule.next = NextIsApplicant -> {a.applicant}
      [] rule.next = NextIsUnchanged -> {a.handler}
      [] OTHER -> {h \in Employees : staff[h].active}

\* _resolve_next_handler: the handlers the transition may assign.
NextHandlers(staff, a, rule) ==
    CASE rule.next = NextIsCleared   -> {Nobody}
      [] rule.next = NextIsApplicant -> {a.applicant}
      [] rule.next = NextIsUnchanged -> {a.handler}
      [] OTHER -> {h \in Employees : IsValidHandler(staff, h, rule.next, a.building)}

\* The checks of transition() on what it has read, before its UPDATE.
MayTransition(staff, u, a, op, h) ==
    /\ a.status = Rules[op].from
    /\ IsActor(staff, u, a, Rules[op])
    /\ h \in NextHandlers(staff, a, Rules[op])

\* Fault: the log row names the handler the request leaves.
AdvancedLogsOldHandler(x, op, u, h, tok) ==
    [x EXCEPT
        !.status = Rules[op].to, !.handler = h, !.version = @ + 1,
        !.log = Append(@, [op |-> op, by |-> u, assigned |-> x.handler,
                           from |-> Rules[op].from, to |-> Rules[op].to,
                           token |-> tok])]

\* The row after advance_request and add_operation_log.
Advanced(x, op, u, h, tok) ==
    [x EXCEPT
        !.status = Rules[op].to, !.handler = h, !.version = @ + 1,
        !.log = Append(@, [op |-> op, by |-> u, assigned |-> h,
                           from |-> Rules[op].from, to |-> Rules[op].to,
                           token |-> tok])]

-----------------------------------------------------------------------------
(***************************************************************************)
(* The fields of each stage: app/services/procurement.py.                  *)
(***************************************************************************)
\* applicant_missing_fields is empty.
ApplicantComplete(a) == a.qty # Missing /\ a.described

\* Who may edit the applicant's fields, and in which statuses of the row.
ApplicantEdit(staff, u, a) ==
    /\ Holds(staff, u, "APPLICANT")
    /\ a.applicant = u
    /\ a.status \in {"DRAFT", "REJECTED"}

ManagerEdit(staff, u, a) ==
    /\ Holds(staff, u, "BUILDING_MANAGER")
    /\ a.handler = u
    /\ a.status = "PENDING_REVIEW"
    /\ a.building \in staff[u].buildings

EditableStatuses(staff, u, a) ==
    IF ManagerEdit(staff, u, a) THEN {"PENDING_REVIEW"} ELSE {"DRAFT", "REJECTED"}

\* Fault: saving the applicant's fields forgets bump_version.
WithApplicantFieldsUnversioned(x, q, described) ==
    [x EXCEPT !.qty = q, !.described = described]

WithApplicantFields(x, q, described) ==
    [x EXCEPT !.qty = q, !.described = described, !.version = @ + 1]

\* _require_current_handler
IsCurrentHandler(staff, u, a, role) ==
    /\ Holds(staff, u, role)
    /\ a.handler = u
    /\ role = "BUILDING_MANAGER" => BelongsTo(staff, u, a.building)

\* The rounds still in DRAFT; get_active_review takes the latest of them.
OpenRounds(a) == {i \in DOMAIN a.reviews : a.reviews[i].status = "DRAFT"}

IsActiveRound(a, i) == i \in OpenRounds(a) /\ \A j \in OpenRounds(a) : j <= i

\* _get_or_create_review works on round i of x: the active one of a, or the
\* next one, which the unique key on (request_id, review_round) must not hold.
IsReviewRound(a, x, i) ==
    \/ IsActiveRound(a, i) /\ i \in DOMAIN x.reviews
    \/ OpenRounds(a) = {} /\ i = Len(a.reviews) + 1 /\ i = Len(x.reviews) + 1

ReviewsWith(x, i, u) ==
    IF i \in DOMAIN x.reviews THEN x.reviews ELSE Append(x.reviews, NewReview(u))

\* review_missing_fields is empty.
ReviewComplete(v) == v.price # Missing /\ v.filled

\* Saving the price computes the total from the quantity of the moment.
Estimated(v, qty, p, filled) ==
    [v EXCEPT !.price = p, !.filled = filled,
              !.total = IF p = Missing THEN @ ELSE qty * p]

WithReviewFields(a, x, i, u, p, filled) ==
    [x EXCEPT
        !.reviews = [ReviewsWith(x, i, u) EXCEPT ![i] = Estimated(@, a.qty, p, filled)],
        !.version = @ + 1]

\* Fault: the verdict leaves the round open.
JudgedStillOpen(x, i, u, result) ==
    [x EXCEPT !.reviews = [ReviewsWith(x, i, u) EXCEPT ![i] = [@ EXCEPT !.result = result]]]

\* The verdict reject() and submit_purchaser() leave in round i.
Judged(x, i, u, result) ==
    [x EXCEPT !.reviews = [ReviewsWith(x, i, u) EXCEPT
                              ![i] = [@ EXCEPT !.status = "COMPLETED", !.result = result]]]

WithExecution(a, x, u, p) ==
    [x EXCEPT
        !.execution = [purchaser |-> IF x.execution = NoExecution THEN u
                                     ELSE x.execution.purchaser,
                       price |-> p, total |-> a.qty * p],
        !.version = @ + 1]

WithReceipt(x, u, received, remark) ==
    [x EXCEPT
        !.receipt = [keeper |-> IF x.receipt = NoReceipt THEN u ELSE x.receipt.keeper,
                     received |-> received, remark |-> remark],
        !.version = @ + 1]

\* Fault: the reviewer told is the one of the first round.
ReceiversFirstRound(staff, a) ==
    LET reviewer == IF a.reviews = << >> THEN {} ELSE {a.reviews[1].reviewer}
    IN  {e \in {a.applicant, a.execution.purchaser} \cup reviewer :
            e \in Employees /\ staff[e].active}

\* The outbox rows of _create_completion_notifications, by receiver.
Receivers(staff, a) ==
    LET reviewer == IF a.reviews = << >> THEN {}
                    ELSE {a.reviews[Len(a.reviews)].reviewer}
    IN  {e \in {a.applicant, a.execution.purchaser} \cup reviewer :
            e \in Employees /\ staff[e].active}

WithNotifications(x, receivers) == [x EXCEPT !.notified = receivers]
=============================================================================
