------------------------- MODULE ProcurementSerial -------------------------
(***************************************************************************)
(* What the back end promises about a purchase request: every operation    *)
(* that commits acts as if it ran alone, on the request as it is stored,   *)
(* by an actor who was entitled to it under the current staffing or under  *)
(* one that was current when a request under way began.                    *)
(*                                                                         *)
(* There are no snapshots, no versions to compare and no sessions here.    *)
(* Procurement is checked and proved to implement this specification.      *)
(***************************************************************************)
EXTENDS Requests

CONSTANTS Ids, MaxTokens

VARIABLES
    req,        \* the stored rows of each request
    lateLog,    \* log rows written without moving their request
    staffs      \* the staffings an actor may have been checked against

serialVars == <<req, lateLog, staffs>>

Write(r, y) ==
    /\ req' = [req EXCEPT ![r] = y]
    /\ staffs' \subseteq staffs
    /\ UNCHANGED lateLog

\* An operation is accepted with a token that no row of any log holds.
FreshTokens ==
    (1..MaxTokens)
        \ ((UNION {{req[r].log[i].token : i \in DOMAIN req[r].log} : r \in Ids})
               \cup {lateLog[i].token : i \in DOMAIN lateLog})

Move(st, r, op, y, u, h) ==
    /\ MayTransition(st, u, req[r], op, h)
    /\ \E tok \in FreshTokens : Write(r, Advanced(y, op, u, h, tok))

-----------------------------------------------------------------------------
Create(st, r, u) ==
    \E b \in Buildings :
        /\ req[r] = Absent
        /\ Holds(st, u, "APPLICANT") /\ BelongsTo(st, u, b)
        /\ Write(r, Draft(u, b))

EditApplication(st, r, u) ==
    \E q \in Quantities \cup {Missing}, described \in BOOLEAN :
        /\ ApplicantEdit(st, u, req[r]) \/ ManagerEdit(st, u, req[r])
        /\ Write(r, WithApplicantFields(req[r], q, described))

EditReview(st, r, u) ==
    \E p \in Prices \cup {Missing}, filled \in BOOLEAN,
       i \in 1..(Len(req[r].reviews) + 1) :
        /\ IsCurrentHandler(st, u, req[r], "BUILDING_MANAGER")
        /\ req[r].status = "PENDING_REVIEW"
        /\ p # Missing => req[r].qty # Missing
        /\ IsReviewRound(req[r], req[r], i)
        /\ Write(r, WithReviewFields(req[r], req[r], i, u, p, filled))

EditExecution(st, r, u) ==
    \E p \in Prices :
        /\ IsCurrentHandler(st, u, req[r], "PURCHASER")
        /\ req[r].status = "PURCHASING"
        /\ req[r].qty # Missing
        /\ Write(r, WithExecution(req[r], req[r], u, p))

EditReceipt(st, r, u) ==
    \E received \in Quantities, remark \in BOOLEAN :
        /\ IsCurrentHandler(st, u, req[r], "WAREHOUSE_MANAGER")
        /\ req[r].status = "PENDING_WAREHOUSE"
        /\ req[r].qty # Missing /\ (received < req[r].qty => remark)
        /\ Write(r, WithReceipt(req[r], u, received, remark))

-----------------------------------------------------------------------------
Submit(st, r, u, h) ==
    \E op \in {"SUBMIT_REVIEW", "RESUBMIT_REVIEW"} :
        ApplicantComplete(req[r]) /\ Move(st, r, op, req[r], u, h)

Refuse(st, r, u, h) ==
    \E i \in 1..(Len(req[r].reviews) + 1) :
        /\ IsReviewRound(req[r], req[r], i)
        /\ Move(st, r, "REJECT", Judged(req[r], i, u, "REJECTED"), u, h)

Approve(st, r, u, h) ==
    \E i \in DOMAIN req[r].reviews :
        /\ IsActiveRound(req[r], i) /\ ReviewComplete(req[r].reviews[i])
        /\ Move(st, r, "SUBMIT_PURCHASER", Judged(req[r], i, u, "APPROVED"), u, h)

StartBuying(st, r, u, h) == Move(st, r, "START_PURCHASE", req[r], u, h)

SendToWarehouse(st, r, u, h) ==
    /\ req[r].execution # NoExecution
    /\ Move(st, r, "SUBMIT_WAREHOUSE", req[r], u, h)

Finish(st, r, u, h) ==
    /\ req[r].receipt # NoReceipt
    /\ Move(st, r, "COMPLETE",
            WithNotifications(req[r], Receivers(st, req[r])), u, h)

-----------------------------------------------------------------------------
\* Who may log an operation under a request that is done.
MayAnnotate(st, r, op, u) ==
    \/ op = "RESEND_NOTIFICATION" /\ Holds(st, u, "ADMIN") /\ req[r].notified # {}
    \/ /\ op = "ADD_SUPPLIER_BLACKLIST"
       /\ Holds(st, u, "BUILDING_MANAGER") /\ BelongsTo(st, u, req[r].building)
    \/ /\ op = "RELEASE_SUPPLIER_BLACKLIST"
       /\ \E i \in DOMAIN lateLog :
             /\ lateLog[i].request = r /\ lateLog[i].op = "ADD_SUPPLIER_BLACKLIST"
             /\ \/ Holds(st, u, "ADMIN")
                \/ Holds(st, u, "BUILDING_MANAGER") /\ lateLog[i].by = u

Annotate(st, r, op, u) ==
    /\ req[r].status = "COMPLETED"
    /\ MayAnnotate(st, r, op, u)
    /\ \E tok \in FreshTokens :
          lateLog' = Append(lateLog, [request |-> r, op |-> op, by |-> u, token |-> tok])
    /\ staffs' \subseteq staffs
    /\ UNCHANGED req

-----------------------------------------------------------------------------
Edit(st, r, u) ==
    \/ Create(st, r, u)
    \/ EditApplication(st, r, u)
    \/ EditReview(st, r, u)
    \/ EditExecution(st, r, u)
    \/ EditReceipt(st, r, u)

Step(st, r, u, h) ==
    \/ Submit(st, r, u, h)
    \/ Refuse(st, r, u, h)
    \/ Approve(st, r, u, h)
    \/ StartBuying(st, r, u, h)
    \/ SendToWarehouse(st, r, u, h)
    \/ Finish(st, r, u, h)

\* A request begins or ends, or an administrator puts one staffing in force.
StaffingMoves ==
    /\ UNCHANGED <<req, lateLog>>
    /\ \A new, other \in staffs' \ staffs : new = other

SerialInit == req = [r \in Ids |-> Absent] /\ lateLog = << >>

SerialNext ==
    \/ StaffingMoves
    \/ \E st \in staffs, r \in Ids, u \in Employees :
          \/ Edit(st, r, u)
          \/ \E h \in Employees \cup {Nobody} : Step(st, r, u, h)
          \/ \E op \in LateOperations : Annotate(st, r, op, u)

SerialSpec == SerialInit /\ [][SerialNext]_serialVars
=============================================================================
