---------------------------- MODULE Procurement ----------------------------
(***************************************************************************)
(* The procurement back end as concurrent HTTP requests on one MySQL       *)
(* database.  get_db_session opens one transaction per request; its first  *)
(* statement, get_current_user's lookup, fixes the REPEATABLE READ         *)
(* snapshot every later plain SELECT sees.  The handler's UPDATEs and      *)
(* INSERTs meet the rows as they are when it writes, hold their locks      *)
(* until the commit, and any exception rolls everything back.              *)
(*                                                                         *)
(* So a request is two steps.  Begin takes the snapshot; one action per    *)
(* service operation then reads the snapshot, writes the stored rows and   *)
(* commits.  Who calls and with which body is chosen by the second step:   *)
(* nothing between the two depends on it.  A request whose checks fail     *)
(* leaves by Rollback.                                                     *)
(***************************************************************************)
EXTENDS Requests

CONSTANTS
    Ids,            \* request_id values
    Sessions,       \* database sessions that can be open at the same time
    InitialStaff,   \* employees, roles and buildings before the first request
    StaffChanges,   \* records an administrator may give an employee
    MaxVersion,     \* bound: no write beyond this version
    MaxTokens,      \* bound: action tokens in use
    MaxAdminOps     \* bound: writes to the employee tables

ASSUME ProcurementAssumption ==
    /\ InitialStaff \in Staffing
    /\ StaffChanges \subseteq StaffRecord
    /\ MaxVersion \in Nat /\ MaxTokens \in Nat /\ MaxAdminOps \in Nat

VARIABLES
    req,        \* the stored rows of each request
    lateLog,    \* log rows written without moving their request
    staff,      \* the stored employee rows
    adminLog,   \* rows of admin_operation_logs
    open,       \* sessions inside a transaction
    snap        \* the snapshot each open session reads

vars == <<req, lateLog, staff, adminLog, open, snap>>

Snapshot ==
    [req : [Ids -> RequestRecord], lateLog : Seq(LateRecord(Ids)), staff : Staffing]

EmptyDatabase ==
    [req |-> [r \in Ids |-> Absent], lateLog |-> << >>, staff |-> InitialStaff]

TypeOK ==
    /\ req \in [Ids -> RequestRecord]
    /\ lateLog \in Seq(LateRecord(Ids))
    /\ staff \in Staffing
    /\ adminLog \in Seq([by : Employees, target : Employees])
    /\ open \subseteq Sessions
    /\ snap \in [Sessions -> Snapshot]

Init ==
    /\ req = EmptyDatabase.req
    /\ lateLog = EmptyDatabase.lateLog
    /\ staff = EmptyDatabase.staff
    /\ adminLog = << >>
    /\ open = {}
    /\ snap = [s \in Sessions |-> EmptyDatabase]

-----------------------------------------------------------------------------
(***************************************************************************)
(* Transactions.                                                           *)
(***************************************************************************)
Begin(s) ==
    /\ s \notin open
    /\ open' = open \cup {s}
    /\ snap' = [snap EXCEPT ![s] = [req |-> req, lateLog |-> lateLog, staff |-> staff]]
    /\ UNCHANGED <<req, lateLog, staff, adminLog>>

End(s) ==
    /\ s \in open
    /\ open' = open \ {s}
    /\ snap' = [snap EXCEPT ![s] = EmptyDatabase]

Rollback(s) == End(s) /\ UNCHANGED <<req, lateLog, staff, adminLog>>

\* Commit the one row y written for request r.
Commit(s, r, y) ==
    /\ End(s)
    /\ req' = [req EXCEPT ![r] = y]
    /\ UNCHANGED <<lateLog, staff, adminLog>>

\* What session s reads.
Read(s, r) == snap[s].req[r]
Staff(s) == snap[s].staff

\* Faults: an UPDATE by primary key alone, and one that compares the status only.
RowMatchesAlways(s, r, statuses) == req[r].version < MaxVersion

RowMatchesByStatus(s, r, statuses) ==
    req[r].status \in statuses /\ req[r].version < MaxVersion

\* The WHERE clause of advance_request and bump_version, on the stored row.
\* The client's expected_version is the version read: any other is refused.
RowMatches(s, r, statuses) ==
    /\ req[r].version = Read(s, r).version
    /\ req[r].status \in statuses
    /\ req[r].version < MaxVersion

\* Tokens are client-made UUIDs, numbered here in the order of first use.
TokensIn(q, late) ==
    (UNION {{q[r].log[i].token : i \in DOMAIN q[r].log} : r \in Ids})
        \cup {late[i].token : i \in DOMAIN late}

UsedTokens == TokensIn(req, lateLog)

\* A command carries the next token or one in use; action_token_exists refuses
\* those its session reads, before anything is written.
TokenChoices(s) ==
    LET used == UsedTokens
    IN  {t \in 1..MaxTokens : \A k \in 1..(t - 1) : k \in used}
            \ TokensIn(snap[s].req, snap[s].lateLog)

\* Fault: purchase_operation_logs.action_token is not unique.
TransitionTokenReadOnly(s, r, op, y, u, h, tok) ==
    /\ MayTransition(Staff(s), u, Read(s, r), op, h)
    /\ RowMatches(s, r, {Rules[op].from})
    /\ Commit(s, r, Advanced(y, op, u, h, tok))

\* WorkflowService.transition; y is row r after the handler's other writes.
Transition(s, r, op, y, u, h, tok) ==
    /\ MayTransition(Staff(s), u, Read(s, r), op, h)
    /\ RowMatches(s, r, {Rules[op].from})
    /\ tok \notin UsedTokens                        \* unique action_token
    /\ Commit(s, r, Advanced(y, op, u, h, tok))

\* A log row that moves nothing, and whose writer touches no version.
AddLogRow(s, r, op, u, tok) ==
    /\ tok \notin UsedTokens
    /\ End(s)
    /\ lateLog' = Append(lateLog, [request |-> r, op |-> op, by |-> u, token |-> tok])
    /\ UNCHANGED <<req, staff, adminLog>>

-----------------------------------------------------------------------------
(***************************************************************************)
(* The operations of ProcurementService.                                   *)
(***************************************************************************)
CreateDraft(s, r, u, b) ==
    /\ req[r] = Absent
    /\ Holds(Staff(s), u, "APPLICANT")
    /\ BelongsTo(Staff(s), u, b)
    /\ Commit(s, r, Draft(u, b))

SaveApplicantFields(s, r, u, q, described) ==
    LET a == Read(s, r)
    IN  /\ ApplicantEdit(Staff(s), u, a) \/ ManagerEdit(Staff(s), u, a)
        /\ RowMatches(s, r, EditableStatuses(Staff(s), u, a))
        /\ Commit(s, r, WithApplicantFields(req[r], q, described))

SubmitReview(s, r, u, h, tok) ==
    /\ ApplicantComplete(Read(s, r))
    /\ \E op \in {"SUBMIT_REVIEW", "RESUBMIT_REVIEW"} :
          Transition(s, r, op, req[r], u, h, tok)

Reject(s, r, u, h, tok) ==
    /\ IsCurrentHandler(Staff(s), u, Read(s, r), "BUILDING_MANAGER")
    /\ \E i \in 1..(Len(req[r].reviews) + 1) :
          /\ IsReviewRound(Read(s, r), req[r], i)
          /\ Transition(s, r, "REJECT", Judged(req[r], i, u, "REJECTED"), u, h, tok)

SaveReviewFields(s, r, u, p, filled) ==
    LET a == Read(s, r)
    IN  /\ IsCurrentHandler(Staff(s), u, a, "BUILDING_MANAGER")
        /\ a.status = "PENDING_REVIEW"
        /\ p # Missing => a.qty # Missing       \* quantity * unit_price
        /\ RowMatches(s, r, {"PENDING_REVIEW"})
        /\ \E i \in 1..(Len(req[r].reviews) + 1) :
              /\ IsReviewRound(a, req[r], i)
              /\ Commit(s, r, WithReviewFields(a, req[r], i, u, p, filled))

SubmitPurchaser(s, r, u, h, tok) ==
    \E i \in DOMAIN req[r].reviews :
        /\ IsActiveRound(Read(s, r), i)
        /\ ReviewComplete(Read(s, r).reviews[i])
        /\ Transition(s, r, "SUBMIT_PURCHASER",
                      Judged(req[r], i, u, "APPROVED"), u, h, tok)

StartPurchase(s, r, u, h, tok) == Transition(s, r, "START_PURCHASE", req[r], u, h, tok)

SavePurchaseFields(s, r, u, p) ==
    LET a == Read(s, r)
    IN  /\ IsCurrentHandler(Staff(s), u, a, "PURCHASER")
        /\ a.status = "PURCHASING"
        /\ a.qty # Missing                      \* quantity * actual_unit_price
        /\ a.execution = NoExecution <=> req[r].execution = NoExecution
        /\ RowMatches(s, r, {"PURCHASING"})
        /\ Commit(s, r, WithExecution(a, req[r], u, p))

SubmitWarehouse(s, r, u, h, tok) ==
    /\ Read(s, r).execution # NoExecution
    /\ Transition(s, r, "SUBMIT_WAREHOUSE", req[r], u, h, tok)

\* Fault: a shortfall needs no remark.
SaveWarehouseFieldsUnexplained(s, r, u, received, remark) ==
    LET a == Read(s, r)
    IN  /\ IsCurrentHandler(Staff(s), u, a, "WAREHOUSE_MANAGER")
        /\ a.status = "PENDING_WAREHOUSE"
        /\ RowMatches(s, r, {"PENDING_WAREHOUSE"})
        /\ Commit(s, r, WithReceipt(req[r], u, received, remark))

SaveWarehouseFields(s, r, u, received, remark) ==
    LET a == Read(s, r)
    IN  /\ IsCurrentHandler(Staff(s), u, a, "WAREHOUSE_MANAGER")
        /\ a.status = "PENDING_WAREHOUSE"
        /\ a.qty # Missing                      \* received_quantity < quantity
        /\ received < a.qty => remark
        /\ a.receipt = NoReceipt <=> req[r].receipt = NoReceipt
        /\ RowMatches(s, r, {"PENDING_WAREHOUSE"})
        /\ Commit(s, r, WithReceipt(req[r], u, received, remark))

Complete(s, r, u, h, tok) ==
    LET a == Read(s, r)
    IN  /\ a.receipt # NoReceipt
        /\ Transition(s, r, "COMPLETE",
                      WithNotifications(req[r], Receivers(Staff(s), a)), u, h, tok)

-----------------------------------------------------------------------------
(***************************************************************************)
(* The operations that log under a request without writing its rows.       *)
(* Which notice failed is Notifications' state, which blacklist entry is   *)
(* active Suppliers'; the notice and the entry are read under their locks, *)
(* as stored, the request from the snapshot.                               *)
(***************************************************************************)
\* NotificationService.resend
ResendNotification(s, r, u, tok) ==
    /\ Holds(Staff(s), u, "ADMIN")
    /\ req[r].notified # {}
    /\ Read(s, r) # Absent
    /\ AddLogRow(s, r, "RESEND_NOTIFICATION", u, tok)

\* Fault: a blacklist entry is taken under a request in any stage.
CreateBlacklistAnytime(s, r, u, tok) ==
    /\ Holds(Staff(s), u, "BUILDING_MANAGER")
    /\ Read(s, r).execution # NoExecution
    /\ BelongsTo(Staff(s), u, Read(s, r).building)
    /\ AddLogRow(s, r, "ADD_SUPPLIER_BLACKLIST", u, tok)

\* SupplierService.create_blacklist
CreateBlacklist(s, r, u, tok) ==
    /\ Holds(Staff(s), u, "BUILDING_MANAGER")
    /\ Read(s, r).status = "COMPLETED"
    /\ BelongsTo(Staff(s), u, Read(s, r).building)
    /\ AddLogRow(s, r, "ADD_SUPPLIER_BLACKLIST", u, tok)

\* SupplierService.release_blacklist, of an entry some row of r put in.
ReleaseBlacklist(s, r, u, tok) ==
    \E i \in DOMAIN lateLog :
        /\ lateLog[i].request = r /\ lateLog[i].op = "ADD_SUPPLIER_BLACKLIST"
        /\ \/ Holds(Staff(s), u, "ADMIN")
           \/ Holds(Staff(s), u, "BUILDING_MANAGER") /\ lateLog[i].by = u
        /\ AddLogRow(s, r, "RELEASE_SUPPLIER_BLACKLIST", u, tok)

-----------------------------------------------------------------------------
(***************************************************************************)
(* AdminService: the employee tables carry no version, the last writer     *)
(* wins, and no pending request is looked at.                              *)
(***************************************************************************)
SetStaff(s, u, e, record) ==
    /\ Holds(Staff(s), u, "ADMIN")
    /\ Len(adminLog) < MaxAdminOps
    /\ End(s)
    /\ staff' = [staff EXCEPT ![e] = record]
    /\ adminLog' = Append(adminLog, [by |-> u, target |-> e])
    /\ UNCHANGED <<req, lateLog>>

\* The session writes a status only if it differs from the one it read.
ActiveAfter(s, e, active) ==
    IF Staff(s)[e].active = active THEN staff[e].active ELSE active

UpdateEmployee(s, u, e, record) ==
    SetStaff(s, u, e, [record EXCEPT !.active = ActiveAfter(s, e, record.active)])

DeactivateEmployee(s, u, e) ==
    /\ e # u
    /\ SetStaff(s, u, e, [staff[e] EXCEPT !.active = ActiveAfter(s, e, FALSE)])

-----------------------------------------------------------------------------
Saves(s, r, u) ==
    \/ \E q \in Quantities \cup {Missing}, described \in BOOLEAN :
          SaveApplicantFields(s, r, u, q, described)
    \/ \E p \in Prices \cup {Missing}, filled \in BOOLEAN :
          SaveReviewFields(s, r, u, p, filled)
    \/ \E p \in Prices : SavePurchaseFields(s, r, u, p)
    \/ \E received \in Quantities, remark \in BOOLEAN :
          SaveWarehouseFields(s, r, u, received, remark)

Transitions(s, r, u, h, tok) ==
    \/ SubmitReview(s, r, u, h, tok)
    \/ Reject(s, r, u, h, tok)
    \/ SubmitPurchaser(s, r, u, h, tok)
    \/ StartPurchase(s, r, u, h, tok)
    \/ SubmitWarehouse(s, r, u, h, tok)
    \/ Complete(s, r, u, h, tok)

Annotations(s, r, u, tok) ==
    \/ ResendNotification(s, r, u, tok)
    \/ CreateBlacklist(s, r, u, tok)
    \/ ReleaseBlacklist(s, r, u, tok)

Administration(s, u, e) ==
    \/ \E record \in StaffChanges : UpdateEmployee(s, u, e, record)
    \/ DeactivateEmployee(s, u, e)

Handle(s, u, r) ==
    \/ \E b \in Buildings : CreateDraft(s, r, u, b)
    \/ Saves(s, r, u)
    \/ /\ u \in {Read(s, r).applicant, Read(s, r).handler}     \* as every rule asks
       /\ \E tok \in TokenChoices(s), h \in Employees \cup {Nobody} :
             Transitions(s, r, u, h, tok)

Next ==
    \/ \E s \in Sessions : Begin(s) \/ Rollback(s)
    \/ \E s \in open, u \in Employees :
          \/ \E r \in Ids : Handle(s, u, r)
          \/ \E tok \in TokenChoices(s), r \in Ids : Annotations(s, r, u, tok)
          \/ \E e \in Employees : Administration(s, u, e)

Spec == Init /\ [][Next]_vars
-----------------------------------------------------------------------------
(***************************************************************************)
(* Properties.                                                             *)
(***************************************************************************)

\* The version stands for the whole request: a session that has read the
\* version now stored has read everything now stored under it, reviews,
\* execution, receipt and the log of its moves included.  This is what makes
\* comparing the version in advance_request and bump_version enough, although
\* those UPDATEs look at one row and the handlers read five tables.  The rows
\* of lateLog are under no version: nothing that compares one reads them.
VersionGuardsRequest ==
    \A s \in open, r \in Ids :
        Read(s, r).version = req[r].version => Read(s, r) = req[r]

\* Every committed operation acts on the request as stored, as if it had run
\* alone (WorkflowService.transition and the save_* operations under
\* get_db_session's per-request transactions), and every row logged without
\* moving a request is logged under a completed one, by someone entitled to it.
Serial ==
    INSTANCE ProcurementSerial
    WITH staffs <- {staff} \cup {snap[s].staff : s \in open}

ImplementsSerial == Serial!SerialSpec

\* The rounds of a request are rejected one after the other, at most the last
\* is open, only a request under review has an open one, and the last round's
\* verdict is the one the status stands for.
ReviewRoundsInOrder ==
    \A r \in Ids :
        LET a == req[r]  n == Len(a.reviews)
        IN  /\ \A i \in 1..(n - 1) : a.reviews[i].result = "REJECTED"
            /\ OpenRounds(a) # {} => a.status = "PENDING_REVIEW" /\ OpenRounds(a) = {n}
            /\ a.status = "REJECTED" => n > 0 /\ a.reviews[n].result = "REJECTED"
            /\ a.status \in Bought => n > 0 /\ a.reviews[n].result = "APPROVED"

\* A stage is entered only on the evidence of the one before: a complete
\* approved review before buying, an execution whose total is quantity times
\* price before the warehouse, and at the end a receipt that explains a
\* shortfall against the quantity the request carries.
StageEvidence ==
    \A r \in Ids :
        LET a == req[r]
        IN  /\ a.status \in Bought => ReviewComplete(a.reviews[Len(a.reviews)])
            /\ a.status \in {"PENDING_WAREHOUSE", "COMPLETED"} =>
                  /\ a.execution # NoExecution
                  /\ a.execution.total = a.qty * a.execution.price
            /\ a.status = "COMPLETED" =>
                  /\ a.receipt # NoReceipt
                  /\ a.receipt.received < a.qty => a.receipt.remark

\* The operation log is the history of the status: it starts with the draft,
\* each row starts where the one before ended, the last names the current
\* status and handler, and whoever moves the request out of a stage is the
\* employee the row before assigned to it.  The rows that move nothing, whose
\* writer nobody assigned, come after the last of these: their request is done.
LogIsHistory ==
    /\ \A r \in Ids :
          LET a == req[r]  n == Len(a.log)
          IN  a # Absent =>
                /\ n > 0 /\ a.log[1].to = "DRAFT"
                /\ a.log[n].to = a.status /\ a.log[n].assigned = a.handler
                /\ \A i \in 2..n : /\ a.log[i].from = a.log[i - 1].to
                                   /\ a.log[i].by = a.log[i - 1].assigned
    /\ \A i \in DOMAIN lateLog : req[lateLog[i].request].status = "COMPLETED"

\* An action token appears in at most one row of all the logs, whichever
\* session, request or operation it was sent with.
TokenUsedOnce ==
    /\ \A q, r \in Ids : \A i \in DOMAIN req[q].log, j \in DOMAIN req[r].log :
          req[q].log[i].token = req[r].log[j].token /\ req[q].log[i].token # 0
              => q = r /\ i = j
    /\ \A k \in DOMAIN lateLog :
          /\ \A r \in Ids : \A j \in DOMAIN req[r].log :
                req[r].log[j].token # lateLog[k].token
          /\ \A j \in DOMAIN lateLog : lateLog[j].token = lateLog[k].token => j = k

\* The employees an administrator has written to since the start.
Touched == {adminLog[i].target : i \in DOMAIN adminLog}

\* Nothing but an administrator's write to that employee leaves an open
\* request with someone who cannot take its next step: a handler whose row was
\* not touched can log in, has the role the transitions out of the status
\* require and, for a review, manages the building, whatever was done to the
\* others meanwhile and however old the staffing the sessions had read.
HandlerCanAct ==
    \A r \in Ids : \A op \in DOMAIN Rules :
        req[r].status = Rules[op].from /\ req[r].handler \notin Touched =>
            IsActor(staff, req[r].handler, req[r], Rules[op])

\* Who a request's completion concerns: its applicant, its purchaser and the
\* manager who, by its log, approved it.
Concerned(a) ==
    {a.applicant, a.execution.purchaser}
        \cup {a.log[i].by : i \in {j \in DOMAIN a.log : a.log[j].op = "SUBMIT_PURCHASER"}}

\* Completing a request notifies whom it concerns and nobody else, and nothing
\* is notified before.  Only an administrator's write to an employee can leave
\* one of them out.
CompletionNotified ==
    \A r \in Ids :
        LET a == req[r]
        IN  /\ a.status # "COMPLETED" => a.notified = {}
            /\ a.status = "COMPLETED" =>
                  /\ a.notified \subseteq Concerned(a)
                  /\ Concerned(a) \ Touched \subseteq a.notified

\* What was approved stays as approved, whatever sessions are still running:
\* once a request is being bought its quantity and its reviews never change,
\* after the warehouse has it neither does the execution, the rows of a
\* completed request do not change at all, and no log row is ever altered: a
\* resent notice or a blacklist entry only adds one.
ApprovedStaysApproved ==
    [][/\ \A r \in Ids :
             /\ req[r].status \in Bought =>
                   req'[r].qty = req[r].qty /\ req'[r].reviews = req[r].reviews
             /\ req[r].status = "PENDING_WAREHOUSE" => req'[r].execution = req[r].execution
             /\ req[r].status = "COMPLETED" => req'[r] = req[r]
             /\ \A i \in DOMAIN req[r].log :
                   i \in DOMAIN req'[r].log /\ req'[r].log[i] = req[r].log[i]
       /\ \A i \in DOMAIN lateLog :
             i \in DOMAIN lateLog' /\ lateLog'[i] = lateLog[i]]_<<req, lateLog>>
=============================================================================
