------------------------- MODULE ProcurementProofs -------------------------
(***************************************************************************)
(* Theorems about Procurement for every number of employees, requests and  *)
(* sessions and every bound.                                               *)
(***************************************************************************)
EXTENDS Procurement, SequenceTheorems, TLAPS

-----------------------------------------------------------------------------
(***************************************************************************)
(* The operators of Requests: every write of a handler leaves a            *)
(* well-formed request whose version is one higher, and keeps what the     *)
(* rows of one request say of each other.                                  *)
(***************************************************************************)
\* The requests a single committed write may leave in the place of x.
Successors(x) == {y \in RequestRecord : y.version = x.version + 1}

LEMMA AbsentType == Absent \in RequestRecord
  BY DEF Absent, RequestRecord, Statuses, NoExecution, ExecutionRecord,
         NoReceipt, ReceiptRecord

\* A new draft takes the place of an absent request.
LEMMA DraftSucceeds ==
    ASSUME NEW u \in Employees, NEW b \in Buildings
    PROVE  Draft(u, b) \in Successors(Absent)
<1>1. Absent \in RequestRecord
  BY AbsentType
<1>2. [op |-> "CREATE_DRAFT", by |-> u, assigned |-> u,
       from |-> "ABSENT", to |-> "DRAFT", token |-> 0] \in LogRecord
  BY DEF LogRecord, Operations, Statuses
<1> DEFINE row == [op |-> "CREATE_DRAFT", by |-> u, assigned |-> u,
                   from |-> "ABSENT", to |-> "DRAFT", token |-> 0]
<1>3. <<row>> \in Seq(LogRecord)
  BY <1>2
<1>4. ASSUME NEW x \in RequestRecord
      PROVE  LET y == [x EXCEPT !.building = b, !.applicant = u, !.status = "DRAFT",
                                !.handler = u, !.version = 0, !.log = <<row>>]
             IN  y \in RequestRecord /\ y.version = 0
  BY <1>3 DEF RequestRecord, Statuses
<1>5. Draft(u, b) \in RequestRecord /\ Draft(u, b).version = 0
  BY <1>1, <1>4 DEF Draft
<1>6. Absent.version + 1 = 0
  BY DEF Absent
<1>7. QED
  BY <1>1, <1>5, <1>6 DEF Successors

\* advance_request and its log row.
LEMMA AdvancedSucceeds ==
    ASSUME NEW x \in RequestRecord, NEW op \in Operations, NEW u \in Employees,
           NEW h \in Employees \cup {Nobody}, NEW tok \in Nat
    PROVE  Advanced(x, op, u, h, tok) \in Successors(x)
<1>1. Rules[op].from \in Statuses /\ Rules[op].to \in Statuses
  BY DEF Rules, TransitionRule, Operations, Statuses
<1> DEFINE row == [op |-> op, by |-> u, assigned |-> h, from |-> Rules[op].from,
                   to |-> Rules[op].to, token |-> tok]
<1>2. row \in LogRecord
  BY <1>1 DEF LogRecord
<1>3. Append(x.log, row) \in Seq(LogRecord)
  BY <1>2 DEF RequestRecord
<1>4. x.version + 1 \in Nat
  BY DEF RequestRecord
<1>5. QED
  BY <1>1, <1>3, <1>4 DEF Advanced, Successors, RequestRecord

\* save_applicant_fields.
LEMMA ApplicantFieldsSucceed ==
    ASSUME NEW x \in RequestRecord, NEW q \in Quantities \cup {Missing},
           NEW described \in BOOLEAN
    PROVE  WithApplicantFields(x, q, described) \in Successors(x)
<1>1. x.version + 1 \in Nat
  BY DEF RequestRecord
<1>2. QED
  BY <1>1 DEF WithApplicantFields, Successors, RequestRecord

\* The rounds _get_or_create_review works on.
LEMMA ReviewsWithType ==
    ASSUME NEW x \in RequestRecord, NEW u \in Employees, NEW i,
           i \in DOMAIN x.reviews \/ i = Len(x.reviews) + 1
    PROVE  /\ ReviewsWith(x, i, u) \in Seq(ReviewRecord)
           /\ i \in 1..Len(ReviewsWith(x, i, u))
           /\ ReviewsWith(x, i, u)[i] \in ReviewRecord
<1>1. x.reviews \in Seq(ReviewRecord) /\ NewReview(u) \in ReviewRecord
  BY DEF RequestRecord, NewReview, ReviewRecord
<1>2. DOMAIN x.reviews = 1..Len(x.reviews) /\ Len(x.reviews) \in Nat
  BY <1>1, LenProperties
<1>3. CASE i \in DOMAIN x.reviews
  BY <1>1, <1>2, <1>3, ElementOfSeq DEF ReviewsWith
<1>4. CASE i \notin DOMAIN x.reviews
  <2>1. i = Len(x.reviews) + 1
    BY <1>4
  <2>2. ReviewsWith(x, i, u) = Append(x.reviews, NewReview(u))
    BY <1>4 DEF ReviewsWith
  <2>3. QED
    BY <1>1, <1>2, <2>1, <2>2
<1>5. QED
  BY <1>3, <1>4

\* save_review_fields, given a quantity to multiply.
LEMMA ReviewFieldsSucceed ==
    ASSUME NEW a \in RequestRecord, NEW x \in RequestRecord, NEW u \in Employees,
           NEW i, i \in DOMAIN x.reviews \/ i = Len(x.reviews) + 1,
           NEW p \in Prices \cup {Missing}, NEW filled \in BOOLEAN,
           p # Missing => a.qty # Missing
    PROVE  WithReviewFields(a, x, i, u, p, filled) \in Successors(x)
<1> DEFINE rounds == ReviewsWith(x, i, u)
           v == rounds[i]
<1>1. rounds \in Seq(ReviewRecord) /\ i \in 1..Len(rounds) /\ v \in ReviewRecord
  BY ReviewsWithType
<1>2. (IF p = Missing THEN v.total ELSE a.qty * p) \in Nat \cup {Missing}
  <2>1. CASE p = Missing
    BY <1>1, <2>1 DEF ReviewRecord
  <2>2. CASE p # Missing
    <3>1. a.qty \in Nat /\ p \in Nat
      BY <2>2, RequestsAssumption DEF RequestRecord
    <3>2. a.qty * p \in Nat
      BY <3>1
    <3>3. QED
      BY <2>2, <3>2
  <2>3. QED
    BY <2>1, <2>2
<1>3. Estimated(v, a.qty, p, filled) \in ReviewRecord
  BY <1>1, <1>2 DEF Estimated, ReviewRecord
<1>4. [rounds EXCEPT ![i] = Estimated(v, a.qty, p, filled)] \in Seq(ReviewRecord)
  BY <1>1, <1>3, ExceptSeq
<1>5. x.version + 1 \in Nat
  BY DEF RequestRecord
<1>6. QED
  BY <1>4, <1>5 DEF WithReviewFields, Successors, RequestRecord

\* The verdict keeps the version: the transition after it moves it.
LEMMA JudgedType ==
    ASSUME NEW x \in RequestRecord, NEW u \in Employees,
           NEW i, i \in DOMAIN x.reviews \/ i = Len(x.reviews) + 1,
           NEW result \in {"APPROVED", "REJECTED"}
    PROVE  /\ Judged(x, i, u, result) \in RequestRecord
           /\ Judged(x, i, u, result).version = x.version
<1> DEFINE rounds == ReviewsWith(x, i, u)
           v == [rounds[i] EXCEPT !.status = "COMPLETED", !.result = result]
<1>1. rounds \in Seq(ReviewRecord) /\ i \in 1..Len(rounds) /\ rounds[i] \in ReviewRecord
  BY ReviewsWithType
<1>2. v \in ReviewRecord
  BY <1>1 DEF ReviewRecord
<1>3. [rounds EXCEPT ![i] = v] \in Seq(ReviewRecord)
  BY <1>1, <1>2, ExceptSeq
<1>4. QED
  BY <1>3 DEF Judged, RequestRecord

\* save_purchase_fields.
LEMMA ExecutionSucceeds ==
    ASSUME NEW a \in RequestRecord, NEW x \in RequestRecord, NEW u \in Employees,
           NEW p \in Prices, a.qty # Missing
    PROVE  WithExecution(a, x, u, p) \in Successors(x)
<1>1. a.qty \in Nat /\ p \in Nat
  BY RequestsAssumption DEF RequestRecord
<1>2. a.qty * p \in Nat
  BY <1>1
<1> DEFINE e == [purchaser |-> IF x.execution = NoExecution THEN u
                                ELSE x.execution.purchaser,
                 price |-> p, total |-> a.qty * p]
<1>3. e \in ExecutionRecord
  BY <1>2 DEF ExecutionRecord, RequestRecord
<1>4. x.version + 1 \in Nat
  BY DEF RequestRecord
<1>5. WithExecution(a, x, u, p) = [x EXCEPT !.execution = e, !.version = @ + 1]
  BY DEF WithExecution
<1> HIDE DEF e
<1>6. QED
  BY <1>3, <1>4, <1>5 DEF Successors, RequestRecord

\* save_warehouse_fields.
LEMMA ReceiptSucceeds ==
    ASSUME NEW x \in RequestRecord, NEW u \in Employees,
           NEW received \in Quantities, NEW remark \in BOOLEAN
    PROVE  WithReceipt(x, u, received, remark) \in Successors(x)
<1>1. [keeper |-> IF x.receipt = NoReceipt THEN u ELSE x.receipt.keeper,
       received |-> received, remark |-> remark] \in ReceiptRecord
  BY DEF ReceiptRecord, RequestRecord
<1>2. x.version + 1 \in Nat
  BY DEF RequestRecord
<1>3. QED
  BY <1>1, <1>2 DEF WithReceipt, Successors, RequestRecord

\* The completion notices keep the version.
LEMMA NotificationsType ==
    ASSUME NEW x \in RequestRecord, NEW st, NEW a
    PROVE  /\ WithNotifications(x, Receivers(st, a)) \in RequestRecord
           /\ WithNotifications(x, Receivers(st, a)).version = x.version
  BY DEF WithNotifications, Receivers, RequestRecord

-----------------------------------------------------------------------------
(***************************************************************************)
(* What a handler of the employee u may write in the place of the rows x   *)
(* it has read, when the staffing st was in force as it read them.         *)
(***************************************************************************)
\* Creating the request, or saving the fields of a stage.
Edited(st, u, x, y) ==
    \/ \E b \in Buildings :
          x = Absent /\ Holds(st, u, "APPLICANT") /\ y = Draft(u, b)
    \/ \E q \in Quantities \cup {Missing}, described \in BOOLEAN :
          /\ x.status \in {"DRAFT", "REJECTED", "PENDING_REVIEW"}
          /\ y = WithApplicantFields(x, q, described)
    \/ \E p \in Prices \cup {Missing}, filled \in BOOLEAN, i \in 1..(Len(x.reviews) + 1) :
          /\ IsCurrentHandler(st, u, x, "BUILDING_MANAGER")
          /\ x.status = "PENDING_REVIEW"
          /\ p # Missing => x.qty # Missing
          /\ IsReviewRound(x, x, i)
          /\ y = WithReviewFields(x, x, i, u, p, filled)
    \/ \E p \in Prices :
          /\ IsCurrentHandler(st, u, x, "PURCHASER")
          /\ x.status = "PURCHASING" /\ x.qty # Missing
          /\ y = WithExecution(x, x, u, p)
    \/ \E received \in Quantities, remark \in BOOLEAN :
          /\ x.status = "PENDING_WAREHOUSE"
          /\ x.qty # Missing /\ (received < x.qty => remark)
          /\ y = WithReceipt(x, u, received, remark)

\* What the handler of op leaves in the row before its transition.
Prepared(st, u, op, x, z) ==
    \/ op \in {"SUBMIT_REVIEW", "RESUBMIT_REVIEW", "START_PURCHASE"} /\ z = x
    \/ op = "SUBMIT_WAREHOUSE" /\ x.execution # NoExecution /\ z = x
    \/ /\ op = "REJECT"
       /\ \E i \in 1..(Len(x.reviews) + 1) :
             IsReviewRound(x, x, i) /\ z = Judged(x, i, u, "REJECTED")
    \/ /\ op = "SUBMIT_PURCHASER"
       /\ \E i \in DOMAIN x.reviews :
             /\ IsActiveRound(x, i) /\ ReviewComplete(x.reviews[i])
             /\ z = Judged(x, i, u, "APPROVED")
    \/ /\ op = "COMPLETE" /\ x.receipt # NoReceipt
       /\ z = WithNotifications(x, Receivers(st, x))

\* A transition.
Moved(st, u, h, tok, x, y) ==
    \E op \in Operations, z \in RequestRecord :
        /\ Prepared(st, u, op, x, z)
        /\ MayTransition(st, u, x, op, h)
        /\ y = Advanced(z, op, u, h, tok)

\* Whatever a handler of u, checked under st, may leave in the place of x.
Written(st, u, x, y) ==
    \/ Edited(st, u, x, y)
    \/ \E h \in Employees \cup {Nobody}, tok \in Nat : Moved(st, u, h, tok, x, y)

-----------------------------------------------------------------------------
(***************************************************************************)
(* What the rows of one request say of each other.                         *)
(***************************************************************************)
\* Every round but the last was rejected.  The last is open only under
\* review; otherwise its verdict is the one the status stands for.
RoundsInv(x) ==
    LET n == Len(x.reviews)
    IN  /\ \A i \in 1..(n - 1) :
              x.reviews[i].status = "COMPLETED" /\ x.reviews[i].result = "REJECTED"
        /\ x.status \in {"ABSENT", "DRAFT"} => n = 0
        /\ n > 0 =>
             /\ x.status # "PENDING_REVIEW" => x.reviews[n].status = "COMPLETED"
             /\ x.status = "PENDING_REVIEW" /\ x.reviews[n].status = "COMPLETED"
                  => x.reviews[n].result = "REJECTED"
        /\ x.status = "REJECTED" => n > 0 /\ x.reviews[n].result = "REJECTED"
        /\ x.status \in Bought =>
              n > 0 /\ x.reviews[n].result = "APPROVED" /\ ReviewComplete(x.reviews[n])

\* The execution and the receipt appear in their stage and are sound from
\* then on: the quantity they are measured against no longer moves.  Notices
\* come at the end.
EvidenceInv(x) ==
    /\ x.execution # NoExecution =>
          /\ x.status \in {"PURCHASING", "PENDING_WAREHOUSE", "COMPLETED"}
          /\ x.execution.total = x.qty * x.execution.price
    /\ x.status \in {"PENDING_WAREHOUSE", "COMPLETED"} => x.execution # NoExecution
    /\ x.receipt # NoReceipt =>
          /\ x.status \in {"PENDING_WAREHOUSE", "COMPLETED"}
          /\ x.receipt.received < x.qty => x.receipt.remark
    /\ x.status = "COMPLETED" => x.receipt # NoReceipt
    /\ x.notified # {} => x.status = "COMPLETED"

\* The log is a chain that ends in the present status and handler, and a
\* request its applicant may send on is in the applicant's hands.
HistoryInv(x) ==
    LET n == Len(x.log)
    IN  /\ x = Absent \/ (x.status # "ABSENT" /\ n > 0)
        /\ x.status \in {"DRAFT", "REJECTED"} => x.handler = x.applicant
        /\ n > 0 =>
              /\ x.log[1].to = "DRAFT"
              /\ x.log[n].to = x.status /\ x.log[n].assigned = x.handler
        /\ \A i \in 2..n :
              x.log[i].from = x.log[i - 1].to /\ x.log[i].by = x.log[i - 1].assigned

\* The employees the log names as approvers.
Approvers(x) == {x.log[i].by : i \in {j \in DOMAIN x.log : x.log[j].op = "SUBMIT_PURCHASER"}}

\* An employee who is told of a completion, unless the staffing says nothing of
\* the employee: T are those of whom it is known.
Sits(T, st, e) == e \in Employees /\ (e \in T => st[e].active)

\* Who is to be told.
Told(x) == {x.applicant, x.execution.purchaser, x.reviews[Len(x.reviews)].reviewer}

\* The people of a request while the staffing of T stays st: the handler, if one
\* of T, can take the next step, the open round is the handler's, and whoever of
\* T approved or bought is still there to be told.
PeopleInv(T, st, x) ==
    /\ x.status # "ABSENT" => Sits(T, st, x.applicant)
    /\ x.status # "ABSENT" /\ x.applicant \in T => Holds(st, x.applicant, "APPLICANT")
    /\ x.status \notin {"ABSENT", "COMPLETED"} => x.handler \in Employees
    /\ x.status = "PENDING_REVIEW" /\ x.handler \in T =>
          IsValidHandler(st, x.handler, "BUILDING_MANAGER", x.building)
    /\ x.status \in {"PENDING_PURCHASE", "PURCHASING"} /\ x.handler \in T =>
          Holds(st, x.handler, "PURCHASER")
    /\ x.status = "PENDING_WAREHOUSE" /\ x.handler \in T =>
          Holds(st, x.handler, "WAREHOUSE_MANAGER")
    /\ x.status = "PENDING_REVIEW" /\ OpenRounds(x) # {} =>
          x.reviews[Len(x.reviews)].reviewer = x.handler
    /\ x.status \in Bought => Sits(T, st, x.reviews[Len(x.reviews)].reviewer)
    /\ Approvers(x) = IF x.status \in Bought THEN {x.reviews[Len(x.reviews)].reviewer} ELSE {}
    /\ x.execution # NoExecution => Sits(T, st, x.execution.purchaser)
    /\ x.status # "COMPLETED" => x.notified = {}
    /\ x.status = "COMPLETED" =>
          x.notified \subseteq Told(x) /\ Told(x) \cap T \subseteq x.notified

-----------------------------------------------------------------------------
(***************************************************************************)
(* The writes keep it.  The lemmas on fields name what a write changes, so *)
(* that the invariants need not look at its record again.                  *)
(***************************************************************************)
\* What advance_request and its log row change, and what they leave alone.
LEMMA AdvancedFields ==
    ASSUME NEW x \in RequestRecord, NEW op, NEW u, NEW h, NEW tok
    PROVE  /\ Advanced(x, op, u, h, tok).status = Rules[op].to
           /\ Advanced(x, op, u, h, tok).handler = h
           /\ Advanced(x, op, u, h, tok).building = x.building
           /\ Advanced(x, op, u, h, tok).applicant = x.applicant
           /\ Advanced(x, op, u, h, tok).qty = x.qty
           /\ Advanced(x, op, u, h, tok).reviews = x.reviews
           /\ Advanced(x, op, u, h, tok).execution = x.execution
           /\ Advanced(x, op, u, h, tok).receipt = x.receipt
           /\ Advanced(x, op, u, h, tok).notified = x.notified
  BY DEF Advanced, RequestRecord

\* add_operation_log.
LEMMA AdvancedLog ==
    ASSUME NEW x \in RequestRecord, NEW op, NEW u, NEW h, NEW tok
    PROVE  Advanced(x, op, u, h, tok).log =
              Append(x.log, [op |-> op, by |-> u, assigned |-> h,
                             from |-> Rules[op].from, to |-> Rules[op].to,
                             token |-> tok])
  BY DEF Advanced, RequestRecord

\* What a handler leaves in the row before its transition.
LEMMA PreparedFields ==
    ASSUME NEW x \in RequestRecord, NEW z, NEW st, NEW u, NEW op, Prepared(st, u, op, x, z)
    PROVE  /\ z.building = x.building /\ z.applicant = x.applicant /\ z.status = x.status
           /\ z.handler = x.handler /\ z.qty = x.qty /\ z.log = x.log
           /\ z.execution = x.execution /\ z.receipt = x.receipt
           /\ op \notin {"REJECT", "SUBMIT_PURCHASER"} => z.reviews = x.reviews
           /\ op # "COMPLETE" => z.notified = x.notified
  BY DEF Prepared, Judged, WithNotifications, RequestRecord

\* TRANSITION_RULES, read by operation.
LEMMA RulesTable ==
    ASSUME NEW op \in Operations
    PROVE  /\ Rules[op].from = CASE op = "SUBMIT_REVIEW" -> "DRAFT"
                    [] op = "RESUBMIT_REVIEW" -> "REJECTED"
                    [] op \in {"REJECT", "SUBMIT_PURCHASER"} -> "PENDING_REVIEW"
                    [] op = "START_PURCHASE" -> "PENDING_PURCHASE"
                    [] op = "SUBMIT_WAREHOUSE" -> "PURCHASING"
                    [] op = "COMPLETE" -> "PENDING_WAREHOUSE"
           /\ Rules[op].to = CASE op \in {"SUBMIT_REVIEW", "RESUBMIT_REVIEW"} -> "PENDING_REVIEW"
                    [] op = "REJECT" -> "REJECTED"
                    [] op = "SUBMIT_PURCHASER" -> "PENDING_PURCHASE"
                    [] op = "START_PURCHASE" -> "PURCHASING"
                    [] op = "SUBMIT_WAREHOUSE" -> "PENDING_WAREHOUSE"
                    [] op = "COMPLETE" -> "COMPLETED"
  BY DEF Operations, Rules, TransitionRule

\* The round a manager works on is the last one, and every earlier one was
\* rejected.
LEMMA LastRound ==
    ASSUME NEW x \in RequestRecord, RoundsInv(x), x.status = "PENDING_REVIEW",
           NEW u \in Employees, NEW i \in 1..(Len(x.reviews) + 1), IsReviewRound(x, x, i)
    PROVE  LET rounds == ReviewsWith(x, i, u)
           IN  /\ rounds \in Seq(ReviewRecord) /\ i = Len(rounds) /\ i > 0
               /\ \A j \in 1..(i - 1) :
                     rounds[j].status = "COMPLETED" /\ rounds[j].result = "REJECTED"
               /\ rounds[i].status = "DRAFT"
               /\ \/ OpenRounds(x) # {} /\ rounds = x.reviews
                  \/ OpenRounds(x) = {} /\ rounds[i] = NewReview(u)
<1> DEFINE rounds == ReviewsWith(x, i, u)
           n == Len(x.reviews)
<1>1. x.reviews \in Seq(ReviewRecord) /\ n \in Nat /\ DOMAIN x.reviews = 1..n
  BY DEF RequestRecord
<1>2. CASE IsActiveRound(x, i) /\ i \in DOMAIN x.reviews
  <2>1. rounds = x.reviews /\ x.reviews[i].status = "DRAFT"
    BY <1>2 DEF ReviewsWith, IsActiveRound, OpenRounds
  <2>2. i = n
    BY <1>1, <1>2, <2>1 DEF RoundsInv
  <2>3. \A j \in 1..(i - 1) : rounds[j].status = "COMPLETED" /\ rounds[j].result = "REJECTED"
    BY <2>1, <2>2 DEF RoundsInv
  <2>4. OpenRounds(x) # {}
    BY <1>2 DEF IsActiveRound
  <2>5. QED
    BY <1>1, <1>2, <2>1, <2>2, <2>3, <2>4
<1>3. CASE OpenRounds(x) = {} /\ i = n + 1
  <2>1. rounds = Append(x.reviews, NewReview(u))
    BY <1>1, <1>3 DEF ReviewsWith
  <2>2. NewReview(u) \in ReviewRecord
    BY DEF NewReview, ReviewRecord
  <2>3. rounds \in Seq(ReviewRecord) /\ Len(rounds) = n + 1 /\ rounds[i] = NewReview(u)
        /\ \A j \in 1..n : rounds[j] = x.reviews[j]
    BY <1>1, <1>3, <2>1, <2>2, AppendProperties
  <2>4. \A j \in 1..n : x.reviews[j].status = "COMPLETED"
    <3>1. \A j \in 1..n : x.reviews[j] \in ReviewRecord /\ x.reviews[j].status # "DRAFT"
      BY <1>1, <1>3 DEF OpenRounds
    <3>2. QED
      BY <3>1 DEF ReviewRecord
  <2>5. \A j \in 1..n : x.reviews[j].result = "REJECTED"
    BY <1>1, <2>4 DEF RoundsInv
  <2>6. QED
    BY <1>1, <1>3, <2>3, <2>4, <2>5 DEF NewReview
<1>4. QED
  BY <1>2, <1>3 DEF IsReviewRound

\* Working on the last round leaves the rounds in order.
LEMMA RoundReplaced ==
    ASSUME NEW y \in RequestRecord, NEW rounds \in Seq(ReviewRecord), NEW i, NEW v \in ReviewRecord,
           i = Len(rounds), i > 0, y.reviews = [rounds EXCEPT ![i] = v],
           \A j \in 1..(i - 1) : rounds[j].status = "COMPLETED" /\ rounds[j].result = "REJECTED",
           \/ y.status = "PENDING_REVIEW" /\ v.status = "DRAFT"
           \/ y.status = "REJECTED" /\ v.status = "COMPLETED" /\ v.result = "REJECTED"
           \/ /\ y.status = "PENDING_PURCHASE" /\ v.status = "COMPLETED" /\ v.result = "APPROVED"
              /\ ReviewComplete(v)
    PROVE  RoundsInv(y)
<1>1. i \in Nat /\ i \in 1..Len(rounds)
  OBVIOUS
<1>2. /\ Len(y.reviews) = i /\ y.reviews[i] = v
      /\ \A j \in 1..(i - 1) : y.reviews[j] = rounds[j]
  BY <1>1, ExceptSeq
<1>3. QED
  BY <1>2 DEF RoundsInv, Bought

\* Saving fields keeps the rounds in order.
LEMMA EditedKeepsRounds ==
    ASSUME NEW x \in RequestRecord, NEW y, RoundsInv(x), NEW st, NEW u \in Employees,
           Edited(st, u, x, y)
    PROVE  RoundsInv(y)
<1>1. ASSUME NEW b \in Buildings, y = Draft(u, b)
      PROVE  RoundsInv(y)
  BY <1>1 DEF Draft, Absent, RoundsInv, Bought
<1>2. ASSUME NEW q, NEW described, y = WithApplicantFields(x, q, described)
      PROVE  RoundsInv(y)
  <2>1. y.reviews = x.reviews /\ y.status = x.status
    BY <1>2 DEF WithApplicantFields, RequestRecord
  <2>2. QED
    BY <2>1 DEF RoundsInv
<1>3. ASSUME NEW p \in Prices \cup {Missing}, NEW filled \in BOOLEAN,
             NEW i \in 1..(Len(x.reviews) + 1), x.status = "PENDING_REVIEW",
             p # Missing => x.qty # Missing, IsReviewRound(x, x, i),
             y = WithReviewFields(x, x, i, u, p, filled)
      PROVE  RoundsInv(y)
  <2> DEFINE rounds == ReviewsWith(x, i, u)
             v == Estimated(rounds[i], x.qty, p, filled)
  <2>1. /\ rounds \in Seq(ReviewRecord) /\ i = Len(rounds) /\ i > 0 /\ rounds[i].status = "DRAFT"
        /\ \A j \in 1..(i - 1) : rounds[j].status = "COMPLETED" /\ rounds[j].result = "REJECTED"
    BY <1>3, LastRound
  <2>2. i \in DOMAIN x.reviews \/ i = Len(x.reviews) + 1
    BY DEF RequestRecord
  <2>3. y \in RequestRecord
    BY <1>3, <2>2, ReviewFieldsSucceed DEF Successors
  <2>4. y.reviews = [rounds EXCEPT ![i] = v] /\ y.status = "PENDING_REVIEW"
    BY <1>3 DEF WithReviewFields, RequestRecord
  <2>5. rounds[i] \in ReviewRecord /\ y.reviews \in Seq(ReviewRecord)
    BY <2>1, <2>3 DEF RequestRecord
  <2>6. v \in ReviewRecord /\ v.status = "DRAFT"
    <3>1. v = y.reviews[i] /\ i \in 1..Len(y.reviews)
      BY <2>1, <2>4, <2>5
    <3>2. v.status = rounds[i].status
      BY <2>5 DEF Estimated, ReviewRecord
    <3>3. QED
      BY <2>1, <2>5, <3>1, <3>2
  <2> HIDE DEF v, rounds
  <2>7. QED
    BY <2>1, <2>3, <2>4, <2>6, RoundReplaced
<1>4. ASSUME NEW p, y = WithExecution(x, x, u, p)
      PROVE  RoundsInv(y)
  <2>1. y.reviews = x.reviews /\ y.status = x.status
    BY <1>4 DEF WithExecution, RequestRecord
  <2>2. QED
    BY <2>1 DEF RoundsInv
<1>5. ASSUME NEW received, NEW remark, y = WithReceipt(x, u, received, remark)
      PROVE  RoundsInv(y)
  <2>1. y.reviews = x.reviews /\ y.status = x.status
    BY <1>5 DEF WithReceipt, RequestRecord
  <2>2. QED
    BY <2>1 DEF RoundsInv
<1>6. QED
  BY <1>1, <1>2, <1>3, <1>4, <1>5 DEF Edited

\* So does a transition: a verdict closes the last round.
LEMMA MovedKeepsRounds ==
    ASSUME NEW x \in RequestRecord, NEW y, RoundsInv(x), NEW st, NEW u \in Employees,
           NEW h \in Employees \cup {Nobody}, NEW tok \in Nat, Moved(st, u, h, tok, x, y)
    PROVE  RoundsInv(y)
<1>1. PICK op \in Operations, z \in RequestRecord :
          /\ Prepared(st, u, op, x, z)
          /\ MayTransition(st, u, x, op, h)
          /\ y = Advanced(z, op, u, h, tok)
  BY DEF Moved
<1>2. x.status = Rules[op].from
  BY <1>1 DEF MayTransition
<1>3. y.status = Rules[op].to /\ y.reviews = z.reviews /\ y \in RequestRecord
  <2>1. y.status = Rules[op].to /\ y.reviews = z.reviews
    BY <1>1, AdvancedFields
  <2>2. y \in Successors(z)
    BY <1>1, AdvancedSucceeds
  <2>3. QED
    BY <2>1, <2>2 DEF Successors
<1>4. CASE op \notin {"REJECT", "SUBMIT_PURCHASER"}
  <2>1. y.reviews = x.reviews
    BY <1>1, <1>3, <1>4, PreparedFields
  <2>2. QED
    BY <1>2, <1>3, <1>4, <2>1, RulesTable DEF RoundsInv, Bought, Operations
<1>5. ASSUME NEW i \in 1..(Len(x.reviews) + 1), NEW result, IsReviewRound(x, x, i),
             \/ op = "REJECT" /\ result = "REJECTED"
             \/ op = "SUBMIT_PURCHASER" /\ result = "APPROVED" /\ i \in DOMAIN x.reviews
                /\ ReviewComplete(x.reviews[i]),
             z = Judged(x, i, u, result)
      PROVE  RoundsInv(y)
  <2> DEFINE rounds == ReviewsWith(x, i, u)
             v == [rounds[i] EXCEPT !.status = "COMPLETED", !.result = result]
  <2>0. y \in RequestRecord
    BY <1>3
  <2>1. x.status = "PENDING_REVIEW"
    BY <1>2, <1>5, RulesTable
  <2>2. /\ rounds \in Seq(ReviewRecord) /\ i = Len(rounds) /\ i > 0
        /\ \A j \in 1..(i - 1) : rounds[j].status = "COMPLETED" /\ rounds[j].result = "REJECTED"
    BY <1>5, <2>1, LastRound
  <2>3. y.reviews = [rounds EXCEPT ![i] = v]
    BY <1>3, <1>5 DEF Judged, RequestRecord
  <2>4. rounds[i] \in ReviewRecord
    BY <2>2
  <2>5. v \in ReviewRecord /\ v.status = "COMPLETED" /\ v.result = result
        /\ (ReviewComplete(rounds[i]) => ReviewComplete(v))
    BY <1>5, <2>4 DEF ReviewRecord, ReviewComplete
  <2>6. i \in DOMAIN x.reviews => rounds = x.reviews
    BY DEF ReviewsWith
  <2> HIDE DEF v, rounds
  <2>7. CASE op = "REJECT"
    <3>1. y.status = "REJECTED" /\ v.status = "COMPLETED" /\ v.result = "REJECTED"
      BY <1>3, <1>5, <2>5, <2>7, RulesTable
    <3>2. QED
      BY <2>0, <2>2, <2>3, <2>5, <3>1, RoundReplaced
  <2>8. CASE op = "SUBMIT_PURCHASER"
    <3>1. y.status = "PENDING_PURCHASE"
      BY <1>3, <2>8, RulesTable
    <3>2. v.status = "COMPLETED" /\ v.result = "APPROVED" /\ ReviewComplete(v)
      BY <1>5, <2>5, <2>6, <2>8
    <3>3. QED
      BY <2>0, <2>2, <2>3, <2>5, <3>1, <3>2, RoundReplaced
  <2>9. QED
    BY <1>5, <2>7, <2>8
<1>6. CASE op = "REJECT"
  BY <1>1, <1>5, <1>6 DEF Prepared
<1>7. CASE op = "SUBMIT_PURCHASER"
  <2>1. PICK i \in DOMAIN x.reviews :
             /\ IsActiveRound(x, i) /\ ReviewComplete(x.reviews[i])
             /\ z = Judged(x, i, u, "APPROVED")
    BY <1>1, <1>7 DEF Prepared
  <2>2. i \in 1..(Len(x.reviews) + 1) /\ IsReviewRound(x, x, i)
    BY <2>1 DEF IsReviewRound, RequestRecord
  <2>3. QED
    BY <1>5, <1>7, <2>1, <2>2
<1>8. QED
  BY <1>4, <1>6, <1>7

\* What an edit of an existing request leaves alone, and in which stage it
\* may change the rest.
Kept(x, y) ==
    /\ x.status # "ABSENT"
    /\ y.building = x.building /\ y.applicant = x.applicant
    /\ y.status = x.status /\ y.handler = x.handler
    /\ y.log = x.log /\ y.notified = x.notified

EditedInStage(st, u, x, y) ==
    /\ y.qty = x.qty \/ x.status \in {"DRAFT", "REJECTED", "PENDING_REVIEW"}
    /\ y.reviews = x.reviews \/ x.status = "PENDING_REVIEW"
    /\ \/ y.execution = x.execution
       \/ /\ x.status = "PURCHASING" /\ IsCurrentHandler(st, u, x, "PURCHASER")
          /\ y.execution.price # Missing
          /\ y.execution.total = y.qty * y.execution.price
          /\ y.execution.purchaser \in {u, x.execution.purchaser}
          /\ x.execution = NoExecution => y.execution.purchaser = u
    /\ \/ y.receipt = x.receipt
       \/ /\ x.status = "PENDING_WAREHOUSE" /\ y.receipt.received # Missing
          /\ y.receipt.received < y.qty => y.receipt.remark

\* An edit creates a draft or works on the fields of the stage.
LEMMA EditedFields ==
    ASSUME NEW x \in RequestRecord, NEW y, NEW st, NEW u \in Employees, Edited(st, u, x, y)
    PROVE  \/ /\ x = Absent /\ Holds(st, u, "APPLICANT")
              /\ \E b \in Buildings : y = Draft(u, b)
           \/ Kept(x, y) /\ EditedInStage(st, u, x, y)
<1>1. ASSUME NEW q, NEW described, x.status \in {"DRAFT", "REJECTED", "PENDING_REVIEW"},
             y = WithApplicantFields(x, q, described)
      PROVE  Kept(x, y) /\ EditedInStage(st, u, x, y)
  BY <1>1 DEF WithApplicantFields, RequestRecord, Kept, EditedInStage
<1>2. ASSUME NEW p, NEW filled, NEW i, x.status = "PENDING_REVIEW",
             y = WithReviewFields(x, x, i, u, p, filled)
      PROVE  Kept(x, y) /\ EditedInStage(st, u, x, y)
  <2> DEFINE v == [ReviewsWith(x, i, u) EXCEPT ![i] = Estimated(@, x.qty, p, filled)]
  <2>1. y = [x EXCEPT !.reviews = v, !.version = @ + 1]
    BY <1>2 DEF WithReviewFields
  <2> HIDE DEF v
  <2>2. QED
    BY <1>2, <2>1 DEF RequestRecord, Kept, EditedInStage
<1>3. ASSUME NEW p \in Prices, x.status = "PURCHASING",
             IsCurrentHandler(st, u, x, "PURCHASER"), y = WithExecution(x, x, u, p)
      PROVE  Kept(x, y) /\ EditedInStage(st, u, x, y)
  <2> DEFINE buyer == IF x.execution = NoExecution THEN u ELSE x.execution.purchaser
             e == [purchaser |-> buyer, price |-> p, total |-> x.qty * p]
  <2>1. y = [x EXCEPT !.execution = e, !.version = @ + 1]
    BY <1>3 DEF WithExecution
  <2>2. /\ e.price # Missing /\ e.total = x.qty * e.price
        /\ e.purchaser \in {u, x.execution.purchaser}
        /\ x.execution = NoExecution => e.purchaser = u
    BY RequestsAssumption
  <2> HIDE DEF e
  <2>3. y.execution = e /\ y.qty = x.qty /\ y.reviews = x.reviews /\ y.receipt = x.receipt
        /\ Kept(x, y)
    BY <1>3, <2>1 DEF RequestRecord, Kept
  <2>4. QED
    BY <1>3, <2>2, <2>3 DEF EditedInStage
<1>4. ASSUME NEW received \in Quantities, NEW remark \in BOOLEAN,
             x.status = "PENDING_WAREHOUSE", received < x.qty => remark,
             y = WithReceipt(x, u, received, remark)
      PROVE  Kept(x, y) /\ EditedInStage(st, u, x, y)
  <2> DEFINE keeper == IF x.receipt = NoReceipt THEN u ELSE x.receipt.keeper
             e == [keeper |-> keeper, received |-> received, remark |-> remark]
  <2>1. y = [x EXCEPT !.receipt = e, !.version = @ + 1]
    BY <1>4 DEF WithReceipt
  <2>2. e.received # Missing /\ (e.received < x.qty => e.remark)
    BY <1>4, RequestsAssumption
  <2> HIDE DEF e
  <2>3. y.receipt = e /\ y.qty = x.qty /\ y.reviews = x.reviews
        /\ y.execution = x.execution /\ Kept(x, y)
    BY <1>4, <2>1 DEF RequestRecord, Kept
  <2>4. QED
    BY <1>4, <2>2, <2>3 DEF EditedInStage
<1>5. QED
  BY <1>1, <1>2, <1>3, <1>4 DEF Edited

\* What the transition op changes, and what it leaves alone.
MovedBy(st, u, h, tok, op, x, y) ==
    /\ x.status = Rules[op].from /\ y.status = Rules[op].to
    /\ IsActor(st, u, x, Rules[op]) /\ h \in NextHandlers(st, x, Rules[op])
    /\ y.handler = h
    /\ y.log = Append(x.log, [op |-> op, by |-> u, assigned |-> h, from |-> Rules[op].from,
                              to |-> Rules[op].to, token |-> tok])
    /\ y.building = x.building /\ y.applicant = x.applicant /\ y.qty = x.qty
    /\ y.execution = x.execution /\ y.receipt = x.receipt
    /\ y.reviews = x.reviews \/ op \in {"REJECT", "SUBMIT_PURCHASER"}
    /\ op = "SUBMIT_WAREHOUSE" => x.execution # NoExecution
    /\ op = "COMPLETE" => x.receipt # NoReceipt /\ y.notified = Receivers(st, x)
    /\ op # "COMPLETE" => y.notified = x.notified

\* A transition is one of the seven.
LEMMA MovedFields ==
    ASSUME NEW x \in RequestRecord, NEW y, NEW st, NEW u \in Employees,
           NEW h \in Employees \cup {Nobody}, NEW tok \in Nat, Moved(st, u, h, tok, x, y)
    PROVE  \E op \in Operations, z \in RequestRecord :
              /\ MovedBy(st, u, h, tok, op, x, y)
              /\ Prepared(st, u, op, x, z) /\ y.reviews = z.reviews
<1>1. PICK op \in Operations, z \in RequestRecord :
          /\ Prepared(st, u, op, x, z)
          /\ MayTransition(st, u, x, op, h)
          /\ y = Advanced(z, op, u, h, tok)
  BY DEF Moved
<1> DEFINE row == [op |-> op, by |-> u, assigned |-> h, from |-> Rules[op].from,
                   to |-> Rules[op].to, token |-> tok]
<1>2. /\ x.status = Rules[op].from
      /\ IsActor(st, u, x, Rules[op]) /\ h \in NextHandlers(st, x, Rules[op])
  BY <1>1 DEF MayTransition
<1>3. y.log = Append(z.log, row)
  BY <1>1, AdvancedLog
<1>4. /\ y.status = Rules[op].to /\ y.handler = h /\ y.building = z.building
      /\ y.applicant = z.applicant /\ y.qty = z.qty /\ y.reviews = z.reviews
      /\ y.execution = z.execution /\ y.receipt = z.receipt /\ y.notified = z.notified
  BY <1>1, AdvancedFields
<1>5. /\ z.building = x.building /\ z.applicant = x.applicant /\ z.status = x.status
      /\ z.handler = x.handler /\ z.qty = x.qty /\ z.log = x.log
      /\ z.execution = x.execution /\ z.receipt = x.receipt
      /\ op \notin {"REJECT", "SUBMIT_PURCHASER"} => z.reviews = x.reviews
      /\ op # "COMPLETE" => z.notified = x.notified
  BY <1>1, PreparedFields
<1>6. /\ op = "SUBMIT_WAREHOUSE" => x.execution # NoExecution
      /\ op = "COMPLETE" => x.receipt # NoReceipt /\ z.notified = Receivers(st, x)
  BY <1>1 DEF Prepared, WithNotifications, RequestRecord
<1> HIDE DEF row
<1>7. y.log = Append(x.log, row) /\ y.building = x.building /\ y.applicant = x.applicant
      /\ y.qty = x.qty /\ y.execution = x.execution /\ y.receipt = x.receipt
      /\ (y.reviews = x.reviews \/ op \in {"REJECT", "SUBMIT_PURCHASER"})
      /\ (op = "COMPLETE" => x.receipt # NoReceipt /\ y.notified = Receivers(st, x))
      /\ (op # "COMPLETE" => y.notified = x.notified)
  BY <1>3, <1>4, <1>5, <1>6
<1>8. MovedBy(st, u, h, tok, op, x, y)
  BY <1>2, <1>4, <1>6, <1>7 DEF MovedBy, row
<1>9. QED
  BY <1>1, <1>4, <1>8

\* A new draft.
LEMMA DraftFields ==
    ASSUME NEW u \in Employees, NEW b \in Buildings
    PROVE  /\ Draft(u, b).building = b /\ Draft(u, b).applicant = u
           /\ Draft(u, b).status = "DRAFT" /\ Draft(u, b).handler = u
           /\ Draft(u, b).reviews = << >> /\ Draft(u, b).execution = NoExecution
           /\ Draft(u, b).receipt = NoReceipt /\ Draft(u, b).notified = {}
           /\ Draft(u, b).log = << [op |-> "CREATE_DRAFT", by |-> u, assigned |-> u,
                                   from |-> "ABSENT", to |-> "DRAFT", token |-> 0] >>
  BY DEF Draft, Absent

\* The order of the rounds survives every write.
LEMMA WritesKeepRounds ==
    ASSUME NEW x \in RequestRecord, NEW y, RoundsInv(x), NEW st, NEW u \in Employees,
           Written(st, u, x, y)
    PROVE  RoundsInv(y)
  BY EditedKeepsRounds, MovedKeepsRounds DEF Written

\* The evidence of a stage survives every write.
LEMMA WritesKeepEvidence ==
    ASSUME NEW x \in RequestRecord, NEW y, EvidenceInv(x), NEW st, NEW u \in Employees,
           Written(st, u, x, y)
    PROVE  EvidenceInv(y)
<1>1. ASSUME NEW b \in Buildings, y = Draft(u, b)
      PROVE  EvidenceInv(y)
  BY <1>1, DraftFields DEF EvidenceInv
<1>2. CASE Kept(x, y) /\ EditedInStage(st, u, x, y)
  <2>1. y.status = x.status
    BY <1>2 DEF Kept
  <2>2. y.qty = x.qty \/ x.status \in {"DRAFT", "REJECTED", "PENDING_REVIEW"}
    BY <1>2 DEF EditedInStage
  <2>3. /\ y.execution # NoExecution =>
              /\ y.status \in {"PURCHASING", "PENDING_WAREHOUSE", "COMPLETED"}
              /\ y.execution.total = y.qty * y.execution.price
        /\ y.status \in {"PENDING_WAREHOUSE", "COMPLETED"} => y.execution # NoExecution
    <3>1. CASE y.execution = x.execution
      BY <2>1, <2>2, <3>1 DEF EvidenceInv
    <3>2. CASE y.execution # x.execution
      BY <1>2, <2>1, <3>2 DEF EditedInStage
    <3>3. QED
      BY <3>1, <3>2
  <2>4. /\ y.receipt # NoReceipt =>
              /\ y.status \in {"PENDING_WAREHOUSE", "COMPLETED"}
              /\ y.receipt.received < y.qty => y.receipt.remark
        /\ y.status = "COMPLETED" => y.receipt # NoReceipt
    <3>1. CASE y.receipt = x.receipt
      BY <2>1, <2>2, <3>1 DEF EvidenceInv
    <3>2. CASE y.receipt # x.receipt
      BY <1>2, <2>1, <3>2 DEF EditedInStage
    <3>3. QED
      BY <3>1, <3>2
  <2>5. y.notified # {} => y.status = "COMPLETED"
    BY <1>2 DEF Kept, EvidenceInv
  <2>6. QED
    BY <2>3, <2>4, <2>5 DEF EvidenceInv
<1>3. ASSUME NEW h \in Employees \cup {Nobody}, NEW tok \in Nat, NEW op \in Operations,
             MovedBy(st, u, h, tok, op, x, y)
      PROVE  EvidenceInv(y)
  BY <1>3, RulesTable DEF MovedBy, EvidenceInv, Operations
<1>4. QED
  BY <1>1, <1>2, <1>3, EditedFields, MovedFields DEF Written

\* So does the history of the log.
LEMMA WritesKeepHistory ==
    ASSUME NEW x \in RequestRecord, NEW y, HistoryInv(x), NEW st, NEW u \in Employees,
           Written(st, u, x, y)
    PROVE  HistoryInv(y)
<1>1. ASSUME NEW b \in Buildings, y = Draft(u, b)
      PROVE  HistoryInv(y)
  <2> DEFINE row == [op |-> "CREATE_DRAFT", by |-> u, assigned |-> u, from |-> "ABSENT",
                     to |-> "DRAFT", token |-> 0]
  <2>1. y.log = <<row>> /\ y.status = "DRAFT" /\ y.handler = u /\ y.applicant = u
    BY <1>1, DraftFields
  <2>2. row.to = "DRAFT" /\ row.assigned = u
    OBVIOUS
  <2> HIDE DEF row
  <2>3. Len(y.log) = 1 /\ y.log[1] = row
    BY <2>1
  <2>4. QED
    BY <2>1, <2>2, <2>3 DEF HistoryInv
<1>2. CASE Kept(x, y)
  <2>1. x # Absent
    BY <1>2 DEF Kept, Absent
  <2>2. QED
    BY <1>2, <2>1 DEF HistoryInv, Kept
<1>3. ASSUME NEW h \in Employees \cup {Nobody}, NEW tok \in Nat, NEW op \in Operations,
             MovedBy(st, u, h, tok, op, x, y)
      PROVE  HistoryInv(y)
  <2> DEFINE row == [op |-> op, by |-> u, assigned |-> h, from |-> Rules[op].from,
                     to |-> Rules[op].to, token |-> tok]
             n == Len(x.log)
  <2>1. y.log = Append(x.log, row) /\ y.status = Rules[op].to /\ y.handler = h
        /\ y.applicant = x.applicant
    BY <1>3 DEF MovedBy
  <2>2. x.status = row.from /\ y.status = row.to /\ h = row.assigned /\ u = row.by
    BY <1>3, <2>1 DEF MovedBy
  <2>3. x.status # "ABSENT" /\ y.status # "ABSENT"
    BY <1>3, RulesTable DEF MovedBy, Operations
  <2>4. n \in Nat /\ n > 0 /\ x.log \in Seq(LogRecord)
    BY <2>3 DEF HistoryInv, RequestRecord, Absent
  <2>5. u = x.handler
    <3>1. Rules[op].role = "APPLICANT" => x.status \in {"DRAFT", "REJECTED"}
      BY <1>3 DEF MovedBy, Rules, TransitionRule, Operations
    <3>2. u = IF Rules[op].role = "APPLICANT" THEN x.applicant ELSE x.handler
      BY <1>3 DEF MovedBy, IsActor
    <3>3. QED
      BY <3>1, <3>2 DEF HistoryInv
  <2>6. y.status \in {"DRAFT", "REJECTED"} => h = x.applicant
    <3>1. y.status \in {"DRAFT", "REJECTED"} => op = "REJECT"
      BY <1>3, RulesTable DEF MovedBy, Operations
    <3>2. op = "REJECT" => Rules[op].next = NextIsApplicant
      BY DEF Rules, TransitionRule
    <3>3. op = "REJECT" => h = x.applicant
      BY <1>3, <3>2
      DEF MovedBy, NextHandlers, NextIsApplicant, NextIsCleared, NextIsUnchanged
    <3>4. QED
      BY <3>1, <3>3
  <2>7. /\ Len(y.log) = n + 1 /\ y.log[n + 1] = row
        /\ \A i \in 1..n : y.log[i] = x.log[i]
    BY <2>1, <2>4
  <2> HIDE DEF row
  <2>11. /\ \A i \in 2..n : x.log[i].from = x.log[i - 1].to /\ x.log[i].by = x.log[i - 1].assigned
         /\ x.log[n].to = x.status /\ x.log[n].assigned = x.handler /\ x.log[1].to = "DRAFT"
    BY <2>4 DEF HistoryInv
  <2>8. \A i \in 2..(n + 1) : y.log[i].from = y.log[i - 1].to
                              /\ y.log[i].by = y.log[i - 1].assigned
    <3> SUFFICES ASSUME NEW i \in 2..(n + 1)
                 PROVE  y.log[i].from = y.log[i - 1].to /\ y.log[i].by = y.log[i - 1].assigned
      OBVIOUS
    <3>1. CASE i = n + 1
      <4>1. y.log[i] = row /\ y.log[i - 1] = x.log[n]
        BY <2>4, <2>7, <3>1
      <4>2. QED
        BY <2>2, <2>5, <2>11, <4>1
    <3>2. CASE i \in 2..n
      <4>1. y.log[i] = x.log[i] /\ y.log[i - 1] = x.log[i - 1]
        <5>1. i \in 1..n /\ i - 1 \in 1..n
          BY <2>4, <3>2
        <5>2. QED
          BY <2>7, <5>1
      <4>2. QED
        BY <2>11, <3>2, <4>1
    <3>3. QED
      BY <2>4, <3>1, <3>2
  <2>9. y.log[1].to = "DRAFT"
    BY <2>4, <2>7, <2>11
  <2>10. QED
    BY <2>1, <2>2, <2>3, <2>4, <2>6, <2>7, <2>8, <2>9 DEF HistoryInv
<1>4. QED
  BY <1>1, <1>2, <1>3, EditedFields, MovedFields DEF Written

\* What ApprovedStaysApproved says of one request.
Approved(x, y) ==
    /\ x.status \in Bought => y.qty = x.qty /\ y.reviews = x.reviews
    /\ x.status = "PENDING_WAREHOUSE" => y.execution = x.execution
    /\ x.status = "COMPLETED" => y = x
    /\ \A i \in DOMAIN x.log : i \in DOMAIN y.log /\ y.log[i] = x.log[i]

\* No write touches what was approved.
LEMMA WritesKeepApproved ==
    ASSUME NEW x \in RequestRecord, NEW y, NEW st, NEW u \in Employees,
           Written(st, u, x, y)
    PROVE  Approved(x, y)
<1>1. CASE x = Absent
  <2>1. x.status = "ABSENT" /\ x.log = << >>
    BY <1>1 DEF Absent
  <2>2. QED
    BY <2>1 DEF Approved, Bought
<1>2. CASE Edited(st, u, x, y) /\ Kept(x, y) /\ EditedInStage(st, u, x, y)
  <2>1. x.status # "COMPLETED"
    BY <1>2, EditedFields DEF Edited, Absent
  <2>2. QED
    BY <1>2, <2>1 DEF Approved, Bought, Kept, EditedInStage
<1>3. ASSUME NEW h \in Employees \cup {Nobody}, NEW tok \in Nat, NEW op \in Operations,
             MovedBy(st, u, h, tok, op, x, y)
      PROVE  Approved(x, y)
  <2> DEFINE row == [op |-> op, by |-> u, assigned |-> h, from |-> Rules[op].from,
                     to |-> Rules[op].to, token |-> tok]
  <2>1. y.log = Append(x.log, row) /\ x.log \in Seq(LogRecord)
    BY <1>3 DEF MovedBy, RequestRecord
  <2>2. \A i \in DOMAIN x.log : i \in DOMAIN y.log /\ y.log[i] = x.log[i]
    BY <2>1
  <2>3. x.status # "COMPLETED" /\ (x.status \in Bought => op \notin {"REJECT", "SUBMIT_PURCHASER"})
    BY <1>3, RulesTable DEF MovedBy, Operations, Bought
  <2>4. /\ op \notin {"REJECT", "SUBMIT_PURCHASER"} => y.reviews = x.reviews
        /\ y.qty = x.qty /\ y.execution = x.execution
    BY <1>3 DEF MovedBy
  <2>5. QED
    BY <2>2, <2>3, <2>4 DEF Approved
<1>4. QED
  BY <1>1, <1>2, <1>3, EditedFields, MovedFields DEF Written

\* The operations by the role that carries them out.
LEMMA RulesRoles ==
    ASSUME NEW op \in Operations
    PROVE  /\ Rules[op].role = CASE op \in {"SUBMIT_REVIEW", "RESUBMIT_REVIEW"} -> "APPLICANT"
                    [] op \in {"REJECT", "SUBMIT_PURCHASER"} -> "BUILDING_MANAGER"
                    [] op \in {"START_PURCHASE", "SUBMIT_WAREHOUSE"} -> "PURCHASER"
                    [] op = "COMPLETE" -> "WAREHOUSE_MANAGER"
           /\ Rules[op].next = CASE op \in {"SUBMIT_REVIEW", "RESUBMIT_REVIEW"} -> "BUILDING_MANAGER"
                    [] op = "REJECT" -> NextIsApplicant
                    [] op = "SUBMIT_PURCHASER" -> "PURCHASER"
                    [] op = "START_PURCHASE" -> NextIsUnchanged
                    [] op = "SUBMIT_WAREHOUSE" -> "WAREHOUSE_MANAGER"
                    [] op = "COMPLETE" -> NextIsCleared
  BY DEF Operations, Rules, TransitionRule

\* Who handles the request after the transition.
LEMMA NextHandler ==
    ASSUME NEW st, NEW x, NEW op \in Operations, NEW h, h \in NextHandlers(st, x, Rules[op])
    PROVE  /\ op \in {"SUBMIT_REVIEW", "RESUBMIT_REVIEW"} =>
                 h \in Employees /\ IsValidHandler(st, h, "BUILDING_MANAGER", x.building)
           /\ op = "SUBMIT_PURCHASER" => h \in Employees /\ Holds(st, h, "PURCHASER")
           /\ op = "REJECT" => h = x.applicant
           /\ op = "START_PURCHASE" => h = x.handler
           /\ op = "SUBMIT_WAREHOUSE" => h \in Employees /\ Holds(st, h, "WAREHOUSE_MANAGER")
<1> DEFINE next == Rules[op].next
<1>1. next \in {"BUILDING_MANAGER", "PURCHASER", "WAREHOUSE_MANAGER"} =>
         h \in Employees /\ IsValidHandler(st, h, next, x.building)
  BY DEF NextHandlers, NextIsApplicant, NextIsCleared, NextIsUnchanged
<1>2. /\ next = NextIsUnchanged => h = x.handler
      /\ next = NextIsApplicant => h = x.applicant
  BY DEF NextHandlers, NextIsApplicant, NextIsCleared, NextIsUnchanged
<1> HIDE DEF next
<1>3. /\ op \in {"SUBMIT_REVIEW", "RESUBMIT_REVIEW"} => next = "BUILDING_MANAGER"
      /\ op = "REJECT" => next = NextIsApplicant
      /\ op = "SUBMIT_PURCHASER" => next = "PURCHASER"
      /\ op = "START_PURCHASE" => next = NextIsUnchanged
      /\ op = "SUBMIT_WAREHOUSE" => next = "WAREHOUSE_MANAGER"
  BY RulesRoles DEF next, Operations
<1>4. QED
  BY <1>1, <1>2, <1>3 DEF IsValidHandler

\* Whoever appears in the log as an approver.
LEMMA ApproversGrow ==
    ASSUME NEW x \in RequestRecord, NEW y, NEW row \in LogRecord, y.log = Append(x.log, row)
    PROVE  Approvers(y) = Approvers(x) \cup (IF row.op = "SUBMIT_PURCHASER" THEN {row.by} ELSE {})
<1> DEFINE n == Len(x.log)
<1>1. x.log \in Seq(LogRecord) /\ n \in Nat /\ DOMAIN x.log = 1..n
  BY DEF RequestRecord
<1>2. DOMAIN y.log = 1..(n + 1) /\ y.log[n + 1] = row /\ \A i \in 1..n : y.log[i] = x.log[i]
  BY <1>1
<1>3. DOMAIN y.log = DOMAIN x.log \cup {n + 1}
  BY <1>1, <1>2
<1>4. QED
  BY <1>1, <1>2, <1>3 DEF Approvers

\* Editing the review: the open round belongs to the handler.
LEMMA ReviewerIsHandler ==
    ASSUME NEW x \in RequestRecord, RoundsInv(x), NEW T, NEW st, PeopleInv(T, st, x), NEW u \in Employees,
           x.status = "PENDING_REVIEW", x.handler = u,
           NEW i \in 1..(Len(x.reviews) + 1), IsReviewRound(x, x, i)
    PROVE  i = Len(ReviewsWith(x, i, u)) /\ ReviewsWith(x, i, u)[i].reviewer = u
<1>1. /\ i = Len(ReviewsWith(x, i, u))
      /\ \/ OpenRounds(x) # {} /\ ReviewsWith(x, i, u) = x.reviews
         \/ OpenRounds(x) = {} /\ ReviewsWith(x, i, u)[i] = NewReview(u)
  BY LastRound
<1>2. QED
  BY <1>1 DEF PeopleInv, NewReview

\* Saving fields leaves the request with the same people.
LEMMA EditedKeepsPeople ==
    ASSUME NEW x \in RequestRecord, NEW y, RoundsInv(x), NEW T, NEW st, PeopleInv(T, st, x),
           NEW u \in Employees, Edited(st, u, x, y)
    PROVE  PeopleInv(T, st, y)
<1>1. ASSUME Holds(st, u, "APPLICANT"), NEW b \in Buildings, y = Draft(u, b)
      PROVE  PeopleInv(T, st, y)
  <2> DEFINE row == [op |-> "CREATE_DRAFT", by |-> u, assigned |-> u, from |-> "ABSENT",
                     to |-> "DRAFT", token |-> 0]
  <2>1. y.log = <<row>>
    BY <1>1 DEF Draft, Absent
  <2>5. row.op # "SUBMIT_PURCHASER"
    OBVIOUS
  <2> HIDE DEF row
  <2>2. Approvers(y) = {}
    BY <2>1, <2>5 DEF Approvers
  <2>3. /\ y.status = "DRAFT" /\ y.applicant = u /\ y.handler = u /\ y.execution = NoExecution
        /\ y.notified = {}
    BY <1>1 DEF Draft, Absent
  <2>4. QED
    BY <1>1, <2>2, <2>3 DEF PeopleInv, Bought, Sits, Holds
<1>2. CASE Kept(x, y) /\ EditedInStage(st, u, x, y) /\ y.reviews = x.reviews
  <2>1. Approvers(y) = Approvers(x) /\ OpenRounds(y) = OpenRounds(x)
    BY <1>2 DEF Kept, Approvers, OpenRounds
  <2>2. CASE y.execution = x.execution
    BY <1>2, <2>1, <2>2 DEF Kept, PeopleInv, Told
  <2>3. CASE y.execution # x.execution
    <3>1. x.status = "PURCHASING" /\ Sits(T, st, u)
      BY <1>2, <2>3 DEF EditedInStage, IsCurrentHandler, Holds, Sits
    <3>2. y.execution.purchaser = u \/ (x.execution # NoExecution
                                       /\ y.execution.purchaser = x.execution.purchaser)
      BY <1>2, <2>3 DEF EditedInStage
    <3>3. Sits(T, st, y.execution.purchaser)
      BY <3>1, <3>2 DEF PeopleInv
    <3>4. QED
      BY <1>2, <2>1, <3>1, <3>3 DEF Kept, PeopleInv, Told
  <2>4. QED
    BY <2>2, <2>3
<1>3. ASSUME NEW p \in Prices \cup {Missing}, NEW filled \in BOOLEAN,
             NEW i \in 1..(Len(x.reviews) + 1), x.status = "PENDING_REVIEW",
             p # Missing => x.qty # Missing, IsReviewRound(x, x, i),
             IsCurrentHandler(st, u, x, "BUILDING_MANAGER"),
             Kept(x, y), y.execution = x.execution,
             y = WithReviewFields(x, x, i, u, p, filled)
      PROVE  PeopleInv(T, st, y)
  <2> DEFINE rounds == ReviewsWith(x, i, u)
             v == Estimated(rounds[i], x.qty, p, filled)
  <2>1. x.handler = u
    BY <1>3 DEF IsCurrentHandler
  <2>2. i = Len(rounds) /\ rounds[i].reviewer = u /\ i > 0 /\ rounds \in Seq(ReviewRecord)
    BY <1>3, <2>1, ReviewerIsHandler, LastRound
  <2>3. y.reviews = [rounds EXCEPT ![i] = v]
    BY <1>3 DEF WithReviewFields, RequestRecord
  <2>4. v.reviewer = u
    BY <2>2 DEF Estimated, ReviewRecord
  <2> HIDE DEF v, rounds
  <2>5. Len(y.reviews) = i /\ y.reviews[i] = v
    BY <2>2, <2>3
  <2>6. Approvers(y) = Approvers(x)
    BY <1>3 DEF Kept, Approvers
  <2>7. QED
    BY <1>3, <2>1, <2>4, <2>5, <2>6 DEF Kept, PeopleInv, Bought
<1>4. QED
  <2>1. ASSUME NEW p \in Prices \cup {Missing}, NEW filled \in BOOLEAN,
               NEW i \in 1..(Len(x.reviews) + 1), x.status = "PENDING_REVIEW",
               y = WithReviewFields(x, x, i, u, p, filled)
        PROVE  x # Absent /\ y.execution = x.execution
    BY <2>1 DEF Absent, WithReviewFields, RequestRecord
  <2>2. CASE y.reviews = x.reviews
    BY <1>1, <1>2, <2>2, EditedFields
  <2>3. CASE x.status # "PENDING_REVIEW"
    BY <1>1, <1>2, <2>3, EditedFields DEF EditedInStage
  <2>4. CASE x.status = "PENDING_REVIEW" /\ y.reviews # x.reviews
    <3>1. Kept(x, y)
      BY <2>4, EditedFields DEF Absent
    <3>2. \A q, described : y # WithApplicantFields(x, q, described)
      BY <2>4 DEF WithApplicantFields, RequestRecord
    <3>3. PICK p \in Prices \cup {Missing}, filled \in BOOLEAN, i \in 1..(Len(x.reviews) + 1) :
              /\ IsCurrentHandler(st, u, x, "BUILDING_MANAGER")
              /\ p # Missing => x.qty # Missing
              /\ IsReviewRound(x, x, i)
              /\ y = WithReviewFields(x, x, i, u, p, filled)
      BY <2>4, <3>2 DEF Edited, Absent
    <3>4. QED
      BY <1>3, <2>1, <2>4, <3>1, <3>3
  <2>5. QED
    BY <2>2, <2>3, <2>4

\* The approved round is the last one, and stays its reviewer's.
LEMMA ApprovedRound ==
    ASSUME NEW x \in RequestRecord, RoundsInv(x), NEW u \in Employees,
           x.status = "PENDING_REVIEW", NEW i \in DOMAIN x.reviews, IsActiveRound(x, i),
           NEW z, z = Judged(x, i, u, "APPROVED")
    PROVE  /\ OpenRounds(x) # {} /\ i = Len(x.reviews) /\ Len(z.reviews) = i
           /\ z.reviews[i].reviewer = x.reviews[i].reviewer
<1>1. i \in 1..(Len(x.reviews) + 1) /\ IsReviewRound(x, x, i) /\ OpenRounds(x) # {}
  BY DEF IsReviewRound, IsActiveRound, RequestRecord
<1>2. ReviewsWith(x, i, u) = x.reviews
  BY DEF ReviewsWith
<1>3. i = Len(x.reviews) /\ x.reviews[i] \in ReviewRecord /\ x.reviews \in Seq(ReviewRecord)
  BY <1>1, <1>2, LastRound DEF RequestRecord
<1> DEFINE v == [x.reviews[i] EXCEPT !.status = "COMPLETED", !.result = "APPROVED"]
<1>4. z.reviews = [x.reviews EXCEPT ![i] = v]
  BY <1>2 DEF Judged, RequestRecord
<1>5. v.reviewer = x.reviews[i].reviewer
  BY <1>3 DEF ReviewRecord
<1> HIDE DEF v
<1>6. Len(z.reviews) = i /\ z.reviews[i] = v
  BY <1>3, <1>4
<1>7. QED
  BY <1>1, <1>3, <1>5, <1>6

\* A transition hands the request to someone who can take the next step.
LEMMA MovedKeepsPeople ==
    ASSUME NEW x \in RequestRecord, NEW y \in RequestRecord, RoundsInv(x), RoundsInv(y), EvidenceInv(x),
           NEW T, NEW st, PeopleInv(T, st, x), NEW u \in Employees,
           NEW h \in Employees \cup {Nobody}, NEW tok \in Nat, Moved(st, u, h, tok, x, y)
    PROVE  PeopleInv(T, st, y)
<1>1. PICK op \in Operations, z \in RequestRecord :
          /\ MovedBy(st, u, h, tok, op, x, y)
          /\ Prepared(st, u, op, x, z) /\ y.reviews = z.reviews
  BY MovedFields
<1>2. /\ x.status = Rules[op].from /\ y.status = Rules[op].to /\ y.handler = h
      /\ y.building = x.building /\ y.applicant = x.applicant /\ y.execution = x.execution
      /\ op \notin {"REJECT", "SUBMIT_PURCHASER"} => y.reviews = x.reviews
      /\ op # "COMPLETE" => y.notified = x.notified
      /\ op = "COMPLETE" => y.notified = Receivers(st, x)
  BY <1>1 DEF MovedBy
<1>3. h \in NextHandlers(st, x, Rules[op]) /\ IsActor(st, u, x, Rules[op])
  BY <1>1 DEF MovedBy
<1>4. Approvers(y) = Approvers(x) \cup (IF op = "SUBMIT_PURCHASER" THEN {u} ELSE {})
  <2> DEFINE row == [op |-> op, by |-> u, assigned |-> h, from |-> Rules[op].from,
                     to |-> Rules[op].to, token |-> tok]
  <2>1. y.log = Append(x.log, row)
    BY <1>1 DEF MovedBy
  <2>2. row \in LogRecord
    BY RulesTable DEF LogRecord, Operations, Statuses
  <2>3. row.op = op /\ row.by = u
    OBVIOUS
  <2> HIDE DEF row
  <2>4. QED
    BY <2>1, <2>2, <2>3, ApproversGrow
<1>5. CASE op \in {"SUBMIT_REVIEW", "RESUBMIT_REVIEW"}
  <2>1. x.status \in {"DRAFT", "REJECTED"} /\ y.status = "PENDING_REVIEW"
    BY <1>2, <1>5, RulesTable
  <2>2. h \in Employees /\ IsValidHandler(st, h, "BUILDING_MANAGER", y.building)
    BY <1>2, <1>3, <1>5, NextHandler
  <2>3. y.reviews = x.reviews /\ y.notified = x.notified /\ Approvers(y) = Approvers(x)
    BY <1>2, <1>4, <1>5
  <2>4. OpenRounds(y) = {}
    <3>1. \A i \in 1..Len(x.reviews) : x.reviews[i].status = "COMPLETED"
      BY <2>1 DEF RoundsInv, RequestRecord
    <3>2. QED
      BY <2>3, <3>1 DEF OpenRounds, RequestRecord
  <2>5. QED
    BY <1>2, <2>1, <2>2, <2>3, <2>4 DEF PeopleInv, Bought
<1>6. CASE op = "REJECT"
  <2>1. x.status = "PENDING_REVIEW" /\ y.status = "REJECTED"
    BY <1>2, <1>6, RulesTable
  <2>2. y.notified = x.notified /\ Approvers(y) = Approvers(x)
    BY <1>2, <1>4, <1>6
  <2>3. h \in Employees
    BY <1>3, <1>6, <2>1, NextHandler DEF PeopleInv, Sits
  <2>4. QED
    BY <1>2, <2>1, <2>2, <2>3 DEF PeopleInv, Bought
<1>7. CASE op = "SUBMIT_PURCHASER"
  <2>1. x.status = "PENDING_REVIEW" /\ y.status = "PENDING_PURCHASE"
    BY <1>2, <1>7, RulesTable
  <2>2. u = x.handler /\ Sits(T, st, u)
    BY <1>3, <1>7, RulesRoles DEF IsActor, Holds, Sits
  <2>3. PICK i \in DOMAIN x.reviews : IsActiveRound(x, i) /\ z = Judged(x, i, u, "APPROVED")
    BY <1>1, <1>7 DEF Prepared
  <2>4. /\ OpenRounds(x) # {} /\ i = Len(x.reviews) /\ Len(z.reviews) = i
        /\ z.reviews[i].reviewer = x.reviews[i].reviewer
    BY <2>1, <2>3, ApprovedRound
  <2>5. y.reviews[Len(y.reviews)].reviewer = u
    BY <1>1, <2>1, <2>2, <2>4 DEF PeopleInv
  <2>6. Approvers(y) = {u}
    BY <1>4, <1>7, <2>1 DEF PeopleInv, Bought
  <2>7. h \in Employees /\ Holds(st, h, "PURCHASER")
    BY <1>3, <1>7, NextHandler
  <2>8. y.notified = {}
    BY <1>2, <1>7, <2>1 DEF PeopleInv
  <2>9. QED
    BY <1>2, <2>1, <2>2, <2>5, <2>6, <2>7, <2>8 DEF PeopleInv, Bought
<1>8. CASE op \in {"START_PURCHASE", "SUBMIT_WAREHOUSE"}
  <2>1. /\ x.status \in {"PENDING_PURCHASE", "PURCHASING"}
        /\ op = "START_PURCHASE" => x.status = "PENDING_PURCHASE" /\ y.status = "PURCHASING"
        /\ op = "SUBMIT_WAREHOUSE" => x.status = "PURCHASING" /\ y.status = "PENDING_WAREHOUSE"
    BY <1>2, <1>8, RulesTable
  <2>2. y.reviews = x.reviews /\ y.notified = x.notified /\ Approvers(y) = Approvers(x)
    BY <1>2, <1>4, <1>8
  <2>3. /\ op = "START_PURCHASE" => h = x.handler
        /\ op = "SUBMIT_WAREHOUSE" => h \in Employees /\ Holds(st, h, "WAREHOUSE_MANAGER")
    BY <1>3, NextHandler
  <2>4. QED
    BY <1>2, <1>8, <2>1, <2>2, <2>3 DEF PeopleInv, Bought
<1>9. CASE op = "COMPLETE"
  <2>1. x.status = "PENDING_WAREHOUSE" /\ y.status = "COMPLETED"
    BY <1>2, <1>9, RulesTable
  <2>2. y.reviews = x.reviews /\ y.notified = Receivers(st, x) /\ Approvers(y) = Approvers(x)
    BY <1>2, <1>4, <1>9
  <2>3. x.reviews # << >> /\ x.execution # NoExecution
    BY <2>1 DEF RoundsInv, EvidenceInv, Bought
  <2>4. /\ Receivers(st, x) \subseteq Told(x)
        /\ \A e \in Told(x) : e \in Employees /\ st[e].active => e \in Receivers(st, x)
    BY <2>3 DEF Receivers, Told
  <2>5. \A e \in Told(x) : Sits(T, st, e)
    BY <2>1, <2>3 DEF PeopleInv, Bought, Told
  <2>6. Told(y) = Told(x)
    BY <1>2, <2>2 DEF Told
  <2>7. Told(y) \cap T \subseteq y.notified /\ y.notified \subseteq Told(y)
    BY <2>2, <2>4, <2>5, <2>6 DEF Sits
  <2>8. QED
    BY <1>2, <2>1, <2>2, <2>7 DEF PeopleInv, Bought
<1>10. QED
  BY <1>5, <1>6, <1>7, <1>8, <1>9 DEF Operations

\* The people of a request, under the staffing its writers are checked under.
LEMMA WritesKeepPeople ==
    ASSUME NEW x \in RequestRecord, NEW y \in RequestRecord, RoundsInv(x), EvidenceInv(x),
           NEW T, NEW st, PeopleInv(T, st, x), NEW u \in Employees, Written(st, u, x, y)
    PROVE  PeopleInv(T, st, y)
  BY WritesKeepRounds, EditedKeepsPeople, MovedKeepsPeople DEF Written

\* Only what the staffing says of T matters, and less is known of fewer.
LEMMA PeopleUnderStaffing ==
    ASSUME NEW x, NEW T, NEW st, PeopleInv(T, st, x),
           NEW U, U \subseteq T, NEW st2, \A e \in U : st2[e] = st[e]
    PROVE  PeopleInv(U, st2, x)
  BY DEF PeopleInv, Sits, Holds, IsValidHandler

-----------------------------------------------------------------------------
(***************************************************************************)
(* Every operation of ProcurementService commits one row, and that row is  *)
(* well formed and one version further.                                    *)
(***************************************************************************)
CommitsSuccessor(s, r) == \E y \in Successors(req[r]) : Commit(s, r, y)

\* What the type invariant says of the rows an operation looks at.
LEMMA RowTypes ==
    ASSUME TypeOK, NEW s \in Sessions, NEW r \in Ids
    PROVE  req[r] \in RequestRecord /\ Read(s, r) \in RequestRecord /\ Staff(s) \in Staffing
  BY DEF TypeOK, Snapshot, Read, Staff

\* WorkflowService.transition on a row y the handler has prepared.
LEMMA TransitionCommits ==
    ASSUME TypeOK, NEW s \in Sessions, NEW r \in Ids, NEW op \in Operations,
           NEW y \in RequestRecord, y.version = req[r].version, NEW u \in Employees,
           NEW h \in Employees \cup {Nobody}, NEW tok \in Nat,
           Transition(s, r, op, y, u, h, tok)
    PROVE  CommitsSuccessor(s, r)
<1>1. Advanced(y, op, u, h, tok) \in Successors(req[r])
  BY AdvancedSucceeds DEF Successors
<1>2. QED
  BY <1>1 DEF Transition, CommitsSuccessor

\* A review round is a round of the stored row or the one after its last.
LEMMA ReviewRoundRange ==
    ASSUME TypeOK, NEW s \in Sessions, NEW r \in Ids, NEW i,
           IsReviewRound(Read(s, r), req[r], i)
    PROVE  i \in DOMAIN req[r].reviews \/ i = Len(req[r].reviews) + 1
  BY DEF IsReviewRound

\* Creating a request and saving the fields of a stage.
LEMMA EditsCommit ==
    ASSUME TypeOK, NEW s \in Sessions, NEW r \in Ids, NEW u \in Employees,
           (\E b \in Buildings : CreateDraft(s, r, u, b)) \/ Saves(s, r, u)
    PROVE  CommitsSuccessor(s, r)
<1>1. req[r] \in RequestRecord /\ Read(s, r) \in RequestRecord
  BY RowTypes
<1>2. ASSUME NEW b \in Buildings, CreateDraft(s, r, u, b)
      PROVE  CommitsSuccessor(s, r)
  BY <1>2, DraftSucceeds DEF CreateDraft, CommitsSuccessor
<1>3. ASSUME NEW q \in Quantities \cup {Missing}, NEW described \in BOOLEAN,
             SaveApplicantFields(s, r, u, q, described)
      PROVE  CommitsSuccessor(s, r)
  BY <1>1, <1>3, ApplicantFieldsSucceed DEF SaveApplicantFields, CommitsSuccessor
<1>4. ASSUME NEW p \in Prices \cup {Missing}, NEW filled \in BOOLEAN,
             SaveReviewFields(s, r, u, p, filled)
      PROVE  CommitsSuccessor(s, r)
  <2>1. PICK i \in 1..(Len(req[r].reviews) + 1) :
            /\ IsReviewRound(Read(s, r), req[r], i)
            /\ Commit(s, r, WithReviewFields(Read(s, r), req[r], i, u, p, filled))
    BY <1>4 DEF SaveReviewFields
  <2>2. p # Missing => Read(s, r).qty # Missing
    BY <1>4 DEF SaveReviewFields
  <2>3. WithReviewFields(Read(s, r), req[r], i, u, p, filled) \in Successors(req[r])
    BY <1>1, <2>1, <2>2, ReviewRoundRange, ReviewFieldsSucceed
  <2>4. QED
    BY <2>1, <2>3 DEF CommitsSuccessor
<1>5. ASSUME NEW p \in Prices, SavePurchaseFields(s, r, u, p)
      PROVE  CommitsSuccessor(s, r)
  BY <1>1, <1>5, ExecutionSucceeds DEF SavePurchaseFields, CommitsSuccessor
<1>6. ASSUME NEW received \in Quantities, NEW remark \in BOOLEAN,
             SaveWarehouseFields(s, r, u, received, remark)
      PROVE  CommitsSuccessor(s, r)
  BY <1>1, <1>6, ReceiptSucceeds DEF SaveWarehouseFields, CommitsSuccessor
<1>7. QED
  BY <1>2, <1>3, <1>4, <1>5, <1>6 DEF Saves

\* The transitions.
LEMMA TransitionsCommit ==
    ASSUME TypeOK, NEW s \in Sessions, NEW r \in Ids, NEW u \in Employees,
           NEW h \in Employees \cup {Nobody}, NEW tok \in Nat,
           Transitions(s, r, u, h, tok)
    PROVE  CommitsSuccessor(s, r)
<1>1. req[r] \in RequestRecord /\ Read(s, r) \in RequestRecord
  BY RowTypes
<1>2. CASE SubmitReview(s, r, u, h, tok)
  <2>1. PICK op \in {"SUBMIT_REVIEW", "RESUBMIT_REVIEW"} :
            Transition(s, r, op, req[r], u, h, tok)
    BY <1>2 DEF SubmitReview
  <2>2. op \in Operations
    BY DEF Operations
  <2>3. QED
    BY <1>1, <2>1, <2>2, TransitionCommits
<1>3. CASE Reject(s, r, u, h, tok)
  <2>1. PICK i \in 1..(Len(req[r].reviews) + 1) :
            /\ IsReviewRound(Read(s, r), req[r], i)
            /\ Transition(s, r, "REJECT", Judged(req[r], i, u, "REJECTED"), u, h, tok)
    BY <1>3 DEF Reject
  <2>2. /\ Judged(req[r], i, u, "REJECTED") \in RequestRecord
        /\ Judged(req[r], i, u, "REJECTED").version = req[r].version
    BY <1>1, <2>1, ReviewRoundRange, JudgedType
  <2>3. QED
    BY <2>1, <2>2, TransitionCommits DEF Operations
<1>4. CASE SubmitPurchaser(s, r, u, h, tok)
  <2>1. PICK i \in DOMAIN req[r].reviews :
            Transition(s, r, "SUBMIT_PURCHASER", Judged(req[r], i, u, "APPROVED"), u, h, tok)
    BY <1>4 DEF SubmitPurchaser
  <2>2. /\ Judged(req[r], i, u, "APPROVED") \in RequestRecord
        /\ Judged(req[r], i, u, "APPROVED").version = req[r].version
    BY <1>1, JudgedType
  <2>3. QED
    BY <2>1, <2>2, TransitionCommits DEF Operations
<1>5. CASE StartPurchase(s, r, u, h, tok)
  BY <1>1, <1>5, TransitionCommits DEF StartPurchase, Operations
<1>6. CASE SubmitWarehouse(s, r, u, h, tok)
  BY <1>1, <1>6, TransitionCommits DEF SubmitWarehouse, Operations
<1>7. CASE Complete(s, r, u, h, tok)
  <2> DEFINE y == WithNotifications(req[r], Receivers(Staff(s), Read(s, r)))
  <2>1. y \in RequestRecord /\ y.version = req[r].version
    BY <1>1, NotificationsType
  <2>2. Transition(s, r, "COMPLETE", y, u, h, tok)
    BY <1>7 DEF Complete
  <2>3. QED
    BY <2>1, <2>2, TransitionCommits DEF Operations
<1>8. QED
  BY <1>2, <1>3, <1>4, <1>5, <1>6, <1>7 DEF Transitions

\* Whatever a session handles for a request.
LEMMA HandleCommits ==
    ASSUME TypeOK, NEW s \in Sessions, NEW u \in Employees, NEW r \in Ids,
           Handle(s, u, r)
    PROVE  CommitsSuccessor(s, r)
<1>1. ASSUME NEW h \in Employees \cup {Nobody}, NEW tok \in TokenChoices(s),
             Transitions(s, r, u, h, tok)
      PROVE  CommitsSuccessor(s, r)
  <2>1. tok \in Nat
    BY ProcurementAssumption DEF TokenChoices
  <2>2. QED
    BY <1>1, <2>1, TransitionsCommit
<1>2. QED
  BY <1>1, EditsCommit DEF Handle

\* The operations that log under a request without moving it add one row.
LEMMA AnnotationsLog ==
    ASSUME NEW s, NEW r, NEW u, NEW tok, Annotations(s, r, u, tok)
    PROVE  \E op \in LateOperations : AddLogRow(s, r, op, u, tok)
  BY DEF Annotations, ResendNotification, CreateBlacklist, ReleaseBlacklist, LateOperations

-----------------------------------------------------------------------------
(***************************************************************************)
(* The steps of Next, as the rest of the module takes them apart.          *)
(***************************************************************************)
LEMMA StepCases ==
    ASSUME TypeOK, [Next]_vars
    PROVE  \/ UNCHANGED vars
           \/ \E s \in Sessions : Begin(s)
           \/ \E s \in Sessions : Rollback(s)
           \/ \E s \in open, r \in Ids, u \in Employees : Handle(s, u, r)
           \/ \E s \in open, r \in Ids, u \in Employees : \E tok \in TokenChoices(s) :
                 Annotations(s, r, u, tok)
           \/ \E s \in open, u, e \in Employees, record \in StaffRecord :
                 SetStaff(s, u, e, record)
<1>1. ASSUME NEW s \in open, NEW u \in Employees, NEW e \in Employees,
             Administration(s, u, e)
      PROVE  \E record \in StaffRecord : SetStaff(s, u, e, record)
  <2>1. s \in Sessions /\ staff[e] \in StaffRecord /\ Staff(s)[e] \in StaffRecord
    BY DEF TypeOK, Snapshot, Staff, Staffing
  <2>2. \A active \in BOOLEAN : ActiveAfter(s, e, active) \in BOOLEAN
    BY <2>1 DEF ActiveAfter, StaffRecord
  <2>3. \A record \in StaffRecord, active \in BOOLEAN :
            [record EXCEPT !.active = active] \in StaffRecord
    BY DEF StaffRecord
  <2>4. ASSUME NEW record \in StaffChanges, UpdateEmployee(s, u, e, record)
        PROVE  \E rec \in StaffRecord : SetStaff(s, u, e, rec)
    <3>1. record \in StaffRecord /\ record.active \in BOOLEAN
      BY ProcurementAssumption DEF StaffRecord
    <3>2. [record EXCEPT !.active = ActiveAfter(s, e, record.active)] \in StaffRecord
      BY <2>2, <2>3, <3>1
    <3>3. QED
      BY <2>4, <3>2 DEF UpdateEmployee
  <2>5. ASSUME DeactivateEmployee(s, u, e)
        PROVE  \E rec \in StaffRecord : SetStaff(s, u, e, rec)
    BY <2>1, <2>2, <2>3, <2>5 DEF DeactivateEmployee
  <2>6. QED
    BY <1>1, <2>4, <2>5 DEF Administration
<1>2. QED
  BY <1>1 DEF Next

-----------------------------------------------------------------------------
(***************************************************************************)
(* Type correctness.                                                       *)
(***************************************************************************)
LEMMA EmptyDatabaseType == EmptyDatabase \in Snapshot
<1>1. Absent \in RequestRecord
  BY AbsentType
<1>2. QED
  BY <1>1, ProcurementAssumption DEF EmptyDatabase, Snapshot

\* The end of a transaction.
LEMMA EndType ==
    ASSUME TypeOK, NEW s \in Sessions, End(s)
    PROVE  open' \subseteq Sessions /\ snap' \in [Sessions -> Snapshot]
  BY EmptyDatabaseType DEF TypeOK, End

\* A row added to the log.
LEMMA LogRowType ==
    ASSUME TypeOK, NEW s \in open, NEW r \in Ids, NEW u \in Employees,
           NEW tok \in TokenChoices(s), NEW op \in LateOperations, AddLogRow(s, r, op, u, tok)
    PROVE  TypeOK'
<1>1. s \in Sessions /\ tok \in Nat
  BY ProcurementAssumption DEF TypeOK, TokenChoices
<1>2. [request |-> r, op |-> op, by |-> u, token |-> tok] \in LateRecord(Ids)
  BY <1>1 DEF LateRecord
<1>3. lateLog' \in Seq(LateRecord(Ids))
  BY <1>2 DEF AddLogRow, TypeOK
<1>4. QED
  BY <1>1, <1>3, EndType DEF AddLogRow, TypeOK

LEMMA TypePreserved == TypeOK /\ [Next]_vars => TypeOK'
<1> SUFFICES ASSUME TypeOK, [Next]_vars PROVE TypeOK'
  OBVIOUS
<1>1. CASE UNCHANGED vars
  BY <1>1 DEF TypeOK, vars
<1>2. ASSUME NEW s \in Sessions, Begin(s) PROVE TypeOK'
  <2>1. [req |-> req, lateLog |-> lateLog, staff |-> staff] \in Snapshot
    BY DEF TypeOK, Snapshot
  <2>2. QED
    BY <1>2, <2>1 DEF Begin, TypeOK
<1>3. ASSUME NEW s \in Sessions, Rollback(s) PROVE TypeOK'
  BY <1>3, EndType DEF Rollback, TypeOK
<1>4. ASSUME NEW s \in open, NEW r \in Ids, NEW u \in Employees, Handle(s, u, r)
      PROVE  TypeOK'
  <2>1. s \in Sessions
    BY DEF TypeOK
  <2>2. PICK y \in Successors(req[r]) : Commit(s, r, y)
    BY <1>4, <2>1, HandleCommits DEF CommitsSuccessor
  <2>3. req' \in [Ids -> RequestRecord]
    BY <2>2 DEF Commit, TypeOK, Successors
  <2>4. QED
    BY <2>1, <2>2, <2>3, EndType DEF Commit, TypeOK
<1>5. ASSUME NEW s \in open, NEW u \in Employees, NEW e \in Employees,
             NEW record \in StaffRecord, SetStaff(s, u, e, record)
      PROVE  TypeOK'
  <2>1. s \in Sessions
    BY DEF TypeOK
  <2>2. staff' \in Staffing
    BY <1>5 DEF SetStaff, TypeOK, Staffing
  <2>3. adminLog' \in Seq([by : Employees, target : Employees])
    BY <1>5 DEF SetStaff, TypeOK
  <2>4. QED
    BY <1>5, <2>1, <2>2, <2>3, EndType DEF SetStaff, TypeOK
<1>6. ASSUME NEW s \in open, NEW r \in Ids, NEW u \in Employees, NEW tok \in TokenChoices(s),
             Annotations(s, r, u, tok)
      PROVE  TypeOK'
  BY <1>6, AnnotationsLog, LogRowType
<1>7. QED
  BY <1>1, <1>2, <1>3, <1>4, <1>5, <1>6, StepCases

\* The rows stay well formed, and so does everything a session reads.
THEOREM TypeCorrect == Spec => []TypeOK
<1>1. Init => TypeOK
  BY EmptyDatabaseType DEF Init, TypeOK, EmptyDatabase, Snapshot
<1>2. QED
  BY <1>1, TypePreserved, PTL DEF Spec

-----------------------------------------------------------------------------
(***************************************************************************)
(* Comparing the version is enough.  Versions only grow, so a snapshot is  *)
(* never ahead of the stored row, and every write moves the version, so a  *)
(* snapshot that is level with the row is the row.                         *)
(***************************************************************************)
SnapshotsBehind ==
    \A s \in open, r \in Ids : Read(s, r).version <= req[r].version

VersionInv == TypeOK /\ SnapshotsBehind /\ VersionGuardsRequest

\* A commit of a successor row.
LEMMA CommitKeepsVersions ==
    ASSUME VersionInv, NEW s \in open, NEW r \in Ids, CommitsSuccessor(s, r)
    PROVE  SnapshotsBehind' /\ VersionGuardsRequest'
<1>1. PICK y \in Successors(req[r]) : Commit(s, r, y)
  BY DEF CommitsSuccessor
<1> SUFFICES ASSUME NEW t \in open', NEW q \in Ids
             PROVE  /\ Read(t, q)'.version <= req'[q].version
                    /\ Read(t, q)'.version = req'[q].version => Read(t, q)' = req'[q]
  BY DEF SnapshotsBehind, VersionGuardsRequest, Read
<1>2. t \in open /\ Read(t, q)' = Read(t, q)
  BY <1>1 DEF Commit, End, Read, VersionInv, TypeOK
<1>3. /\ Read(t, q).version <= req[q].version
      /\ Read(t, q).version = req[q].version => Read(t, q) = req[q]
  BY <1>2 DEF VersionInv, SnapshotsBehind, VersionGuardsRequest
<1>4. Read(t, q).version \in Int /\ req[q].version \in Int
  BY <1>2 DEF VersionInv, TypeOK, Snapshot, Read, RequestRecord
<1>5. CASE q = r
  <2>1. req'[q] = y /\ y.version = req[q].version + 1
    BY <1>1, <1>5 DEF Commit, VersionInv, TypeOK, Successors
  <2>2. QED
    BY <1>2, <1>3, <1>4, <2>1
<1>6. CASE q # r
  BY <1>1, <1>2, <1>3, <1>6 DEF Commit, VersionInv, TypeOK
<1>7. QED
  BY <1>5, <1>6

LEMMA VersionPreserved == VersionInv /\ [Next]_vars => VersionInv'
<1> SUFFICES ASSUME VersionInv, [Next]_vars PROVE VersionInv'
  OBVIOUS
<1>1. TypeOK /\ TypeOK'
  BY TypePreserved DEF VersionInv
<1>2. CASE UNCHANGED vars
  BY <1>1, <1>2 DEF vars, VersionInv, SnapshotsBehind, VersionGuardsRequest, Read
<1>3. ASSUME NEW s \in Sessions, Begin(s) PROVE VersionInv'
  <2>1. \A r \in Ids : Read(s, r)' = req'[r]
    BY <1>1, <1>3 DEF Begin, Read, TypeOK
  <2>2. \A t \in open, r \in Ids : Read(t, r)' = Read(t, r) /\ req'[r] = req[r]
    BY <1>1, <1>3 DEF Begin, Read, TypeOK
  <2>3. \A r \in Ids : req'[r].version \in Int
    BY <1>1 DEF TypeOK, RequestRecord
  <2>4. open' = open \cup {s}
    BY <1>3 DEF Begin
  <2>5. SnapshotsBehind'
    BY <2>1, <2>2, <2>3, <2>4 DEF SnapshotsBehind, VersionInv
  <2>6. VersionGuardsRequest'
    BY <2>1, <2>2, <2>4 DEF VersionGuardsRequest, VersionInv
  <2>7. QED
    BY <1>1, <2>5, <2>6 DEF VersionInv
<1>4. ASSUME NEW s \in Sessions, End(s), UNCHANGED req PROVE VersionInv'
  <2>1. \A t \in open', r \in Ids : t \in open /\ Read(t, r)' = Read(t, r)
    BY <1>1, <1>4 DEF End, Read, TypeOK
  <2>2. QED
    BY <1>1, <1>4, <2>1 DEF VersionInv, SnapshotsBehind, VersionGuardsRequest
<1>5. ASSUME NEW s \in open, NEW r \in Ids, NEW u \in Employees, Handle(s, u, r)
      PROVE  VersionInv'
  <2>1. s \in Sessions
    BY <1>1 DEF TypeOK
  <2>2. CommitsSuccessor(s, r)
    BY <1>1, <1>5, <2>1, HandleCommits
  <2>3. QED
    BY <1>1, <2>2, CommitKeepsVersions DEF VersionInv
<1>6. ASSUME NEW s \in open, NEW u \in Employees, NEW e \in Employees,
             NEW record \in StaffRecord, SetStaff(s, u, e, record)
      PROVE  VersionInv'
  BY <1>1, <1>4, <1>6 DEF SetStaff, TypeOK
<1>7. ASSUME NEW s \in open, NEW r \in Ids, NEW u \in Employees, NEW tok \in TokenChoices(s),
             Annotations(s, r, u, tok)
      PROVE  VersionInv'
  BY <1>1, <1>4, <1>7, AnnotationsLog DEF AddLogRow, TypeOK
<1>8. QED
  BY <1>1, <1>2, <1>3, <1>4, <1>5, <1>6, <1>7, StepCases DEF Rollback

LEMMA VersionInvHolds == Spec => []VersionInv
<1>1. Init => VersionInv
  <2>1. Init => TypeOK
    BY EmptyDatabaseType DEF Init, TypeOK, EmptyDatabase, Snapshot
  <2>2. QED
    BY <2>1 DEF Init, VersionInv, SnapshotsBehind, VersionGuardsRequest
<1>2. QED
  BY <1>1, VersionPreserved, PTL DEF Spec

\* A session whose snapshot carries the stored version has read the stored
\* request, so the WHERE version = ... of advance_request and bump_version
\* protects all five tables.
THEOREM VersionIsEnough == Spec => []VersionGuardsRequest
<1>1. VersionInv => VersionGuardsRequest
  BY DEF VersionInv
<1>2. QED
  BY <1>1, VersionInvHolds, PTL

-----------------------------------------------------------------------------
(***************************************************************************)
(* Procurement implements ProcurementSerial.  A session that commits has   *)
(* read the stored request, so its guards and its writes are those of the  *)
(* serial operation.  Serial!Op is Op of the module Requests instantiated  *)
(* with its own constants; the lemmas say so where it is needed.           *)
(***************************************************************************)

\* The transition table and the records it is applied to.
LEMMA SerialOperators ==
    /\ Serial!Rules = Rules
    /\ Serial!Absent = Absent
    /\ Serial!NoExecution = NoExecution /\ Serial!NoReceipt = NoReceipt
  BY DEF Serial!Rules, Rules, Serial!TransitionRule, TransitionRule,
         Serial!NextIsApplicant, NextIsApplicant, Serial!NextIsUnchanged, NextIsUnchanged,
         Serial!NextIsCleared, NextIsCleared, Serial!Absent, Absent,
         Serial!NoExecution, NoExecution, Serial!NoReceipt, NoReceipt

\* A session that commits a row of r has read r as it is stored.
LEMMA WriterHasReadRow ==
    ASSUME VersionInv, NEW s \in open, NEW r \in Ids,
           NEW statuses, RowMatches(s, r, statuses)
    PROVE  Read(s, r) = req[r]
  BY DEF VersionInv, VersionGuardsRequest, RowMatches

\* The staffings the open sessions were checked against.
StaffsRead == {staff} \cup {snap[t].staff : t \in open}

\* A commit ends one of the sessions.
LEMMA StaffsShrink ==
    ASSUME VersionInv, NEW s \in open, End(s), UNCHANGED staff
    PROVE  StaffsRead' \subseteq StaffsRead
<1>1. \A t \in open' : t \in open /\ snap'[t] = snap[t]
  BY DEF End, VersionInv, TypeOK
<1>2. QED
  BY <1>1 DEF StaffsRead

\* A commit is a write of the serial specification.
LEMMA CommitIsWrite ==
    ASSUME VersionInv, NEW s \in open, NEW r \in Ids, NEW y, Commit(s, r, y)
    PROVE  Serial!Write(r, y)
  BY StaffsShrink DEF Commit, StaffsRead, Serial!Write

LEMMA FreshTokens == Serial!FreshTokens = (1..MaxTokens) \ UsedTokens
  BY DEF Serial!FreshTokens, UsedTokens, TokensIn

\* WorkflowService.transition is a move of the serial specification.
LEMMA TransitionIsMove ==
    ASSUME VersionInv, NEW s \in open, NEW r \in Ids, NEW op, NEW y, NEW u, NEW h,
           NEW tok \in TokenChoices(s), Transition(s, r, op, y, u, h, tok)
    PROVE  Serial!Move(Staff(s), r, op, y, u, h) /\ Read(s, r) = req[r]
<1>1. Read(s, r) = req[r]
  BY WriterHasReadRow DEF Transition
<1>2. MayTransition(Staff(s), u, req[r], op, h)
  BY <1>1 DEF Transition
<1>3. Serial!MayTransition(Staff(s), u, req[r], op, h)
  BY <1>2, SerialOperators
  DEF MayTransition, Serial!MayTransition, IsActor, Serial!IsActor, Holds, Serial!Holds,
      BelongsTo, Serial!BelongsTo, NextHandlers, Serial!NextHandlers, IsValidHandler,
      Serial!IsValidHandler, NextIsCleared, Serial!NextIsCleared, NextIsUnchanged,
      Serial!NextIsUnchanged, NextIsApplicant, Serial!NextIsApplicant
<1>5. Serial!Advanced(y, op, u, h, tok) = Advanced(y, op, u, h, tok)
  BY SerialOperators DEF Serial!Advanced, Advanced
<1>6. Serial!Write(r, Advanced(y, op, u, h, tok))
  BY CommitIsWrite DEF Transition
<1>7. tok \in Serial!FreshTokens
  BY FreshTokens DEF Transition, TokenChoices
<1>8. QED
  BY <1>1, <1>3, <1>5, <1>6, <1>7 DEF Serial!Move

\* Creating a request and saving fields are the serial edits.
LEMMA EditsAreSerial ==
    ASSUME VersionInv, NEW s \in open, NEW r \in Ids, NEW u \in Employees,
           (\E b \in Buildings : CreateDraft(s, r, u, b)) \/ Saves(s, r, u)
    PROVE  Serial!Edit(Staff(s), r, u)
<1>1. ASSUME NEW b \in Buildings, CreateDraft(s, r, u, b)
      PROVE  Serial!Create(Staff(s), r, u)
  <2>1. Serial!Write(r, Draft(u, b))
    BY <1>1, CommitIsWrite DEF CreateDraft
  <2>2. Serial!Draft(u, b) = Draft(u, b)
    BY SerialOperators DEF Serial!Draft, Draft
  <2>3. QED
    BY <1>1, <2>1, <2>2, SerialOperators
    DEF CreateDraft, Serial!Create, Holds, Serial!Holds, BelongsTo, Serial!BelongsTo
<1>2. ASSUME NEW q \in Quantities \cup {Missing}, NEW described \in BOOLEAN,
             SaveApplicantFields(s, r, u, q, described)
      PROVE  Serial!EditApplication(Staff(s), r, u)
  <2> DEFINE y == WithApplicantFields(req[r], q, described)
  <2>1. Read(s, r) = req[r] /\ Commit(s, r, y)
    BY <1>2, WriterHasReadRow DEF SaveApplicantFields
  <2>2. Serial!WithApplicantFields(req[r], q, described) = y
    BY DEF Serial!WithApplicantFields, WithApplicantFields
  <2> HIDE DEF y
  <2>3. Serial!ApplicantEdit(Staff(s), u, req[r]) \/ Serial!ManagerEdit(Staff(s), u, req[r])
    BY <1>2, <2>1 DEF SaveApplicantFields, ApplicantEdit, Serial!ApplicantEdit,
                      ManagerEdit, Serial!ManagerEdit, Holds, Serial!Holds
  <2>4. QED
    BY <2>1, <2>2, <2>3, StaffsShrink
    DEF Commit, StaffsRead, Serial!Write, Serial!EditApplication
<1>3. ASSUME NEW p \in Prices \cup {Missing}, NEW filled \in BOOLEAN,
             SaveReviewFields(s, r, u, p, filled)
      PROVE  Serial!EditReview(Staff(s), r, u)
  <2>1. Read(s, r) = req[r]
    BY <1>3, WriterHasReadRow DEF SaveReviewFields
  <2>2. PICK i \in 1..(Len(req[r].reviews) + 1) :
            /\ IsReviewRound(req[r], req[r], i)
            /\ Commit(s, r, WithReviewFields(req[r], req[r], i, u, p, filled))
    BY <1>3, <2>1 DEF SaveReviewFields
  <2> DEFINE y == WithReviewFields(req[r], req[r], i, u, p, filled)
  <2>3. Commit(s, r, y)
    BY <2>2
  <2>4. Serial!WithReviewFields(req[r], req[r], i, u, p, filled) = y
    BY DEF Serial!WithReviewFields, WithReviewFields, Serial!ReviewsWith, ReviewsWith,
           Serial!NewReview, NewReview, Serial!Estimated, Estimated
  <2> HIDE DEF y
  <2>5. Serial!IsReviewRound(req[r], req[r], i)
    BY <2>2 DEF IsReviewRound, Serial!IsReviewRound, IsActiveRound, Serial!IsActiveRound,
                OpenRounds, Serial!OpenRounds
  <2>6. /\ Serial!IsCurrentHandler(Staff(s), u, req[r], "BUILDING_MANAGER")
        /\ req[r].status = "PENDING_REVIEW"
        /\ p # Missing => req[r].qty # Missing
    BY <1>3, <2>1 DEF SaveReviewFields, IsCurrentHandler, Serial!IsCurrentHandler, Holds,
                      Serial!Holds, BelongsTo, Serial!BelongsTo
  <2>7. QED
    BY <2>3, <2>4, <2>5, <2>6, StaffsShrink
    DEF Commit, StaffsRead, Serial!Write, Serial!EditReview
<1>4. ASSUME NEW p \in Prices, SavePurchaseFields(s, r, u, p)
      PROVE  Serial!EditExecution(Staff(s), r, u)
  <2> DEFINE y == WithExecution(req[r], req[r], u, p)
  <2>1. Read(s, r) = req[r] /\ Commit(s, r, y)
    BY <1>4, WriterHasReadRow DEF SavePurchaseFields
  <2>2. Serial!WithExecution(req[r], req[r], u, p) = y
    BY SerialOperators DEF Serial!WithExecution, WithExecution
  <2> HIDE DEF y
  <2>3. /\ Serial!IsCurrentHandler(Staff(s), u, req[r], "PURCHASER")
        /\ req[r].status = "PURCHASING" /\ req[r].qty # Missing
    BY <1>4, <2>1 DEF SavePurchaseFields, IsCurrentHandler, Serial!IsCurrentHandler, Holds,
                      Serial!Holds, BelongsTo, Serial!BelongsTo
  <2>4. QED
    BY <2>1, <2>2, <2>3, StaffsShrink
    DEF Commit, StaffsRead, Serial!Write, Serial!EditExecution
<1>5. ASSUME NEW received \in Quantities, NEW remark \in BOOLEAN,
             SaveWarehouseFields(s, r, u, received, remark)
      PROVE  Serial!EditReceipt(Staff(s), r, u)
  <2> DEFINE y == WithReceipt(req[r], u, received, remark)
  <2>1. Read(s, r) = req[r] /\ Commit(s, r, y)
    BY <1>5, WriterHasReadRow DEF SaveWarehouseFields
  <2>2. Serial!WithReceipt(req[r], u, received, remark) = y
    BY SerialOperators DEF Serial!WithReceipt, WithReceipt
  <2> HIDE DEF y
  <2>3. /\ Serial!IsCurrentHandler(Staff(s), u, req[r], "WAREHOUSE_MANAGER")
        /\ req[r].status = "PENDING_WAREHOUSE" /\ req[r].qty # Missing
        /\ received < req[r].qty => remark
    BY <1>5, <2>1 DEF SaveWarehouseFields, IsCurrentHandler, Serial!IsCurrentHandler,
                      Holds, Serial!Holds, BelongsTo, Serial!BelongsTo
  <2>4. QED
    BY <2>1, <2>2, <2>3, StaffsShrink
    DEF Commit, StaffsRead, Serial!Write, Serial!EditReceipt
<1>6. QED
  BY <1>1, <1>2, <1>3, <1>4, <1>5 DEF Saves, Serial!Edit

\* The transitions are the serial steps.
LEMMA TransitionsAreSerial ==
    ASSUME VersionInv, NEW s \in open, NEW r \in Ids, NEW u \in Employees,
           NEW h \in Employees \cup {Nobody}, NEW tok \in TokenChoices(s),
           Transitions(s, r, u, h, tok)
    PROVE  Serial!Step(Staff(s), r, u, h)
<1>1. ASSUME NEW i, NEW result
      PROVE  Serial!Judged(req[r], i, u, result) = Judged(req[r], i, u, result)
  BY DEF Serial!Judged, Judged, Serial!ReviewsWith, ReviewsWith, Serial!NewReview, NewReview
<1>2. CASE SubmitReview(s, r, u, h, tok)
  BY <1>2, TransitionIsMove
  DEF SubmitReview, Serial!Step, Serial!Submit, ApplicantComplete, Serial!ApplicantComplete
<1>3. CASE Reject(s, r, u, h, tok)
  <2>1. PICK i \in 1..(Len(req[r].reviews) + 1) :
            /\ IsReviewRound(Read(s, r), req[r], i)
            /\ Transition(s, r, "REJECT", Judged(req[r], i, u, "REJECTED"), u, h, tok)
    BY <1>3 DEF Reject
  <2>2. /\ Serial!Move(Staff(s), r, "REJECT", Judged(req[r], i, u, "REJECTED"), u, h)
        /\ Read(s, r) = req[r]
    BY <2>1, TransitionIsMove
  <2>3. Serial!IsReviewRound(req[r], req[r], i)
    BY <2>1, <2>2 DEF IsReviewRound, Serial!IsReviewRound, IsActiveRound,
                      Serial!IsActiveRound, OpenRounds, Serial!OpenRounds
  <2>4. QED
    BY <1>1, <2>2, <2>3 DEF Serial!Step, Serial!Refuse
<1>4. CASE SubmitPurchaser(s, r, u, h, tok)
  <2>1. PICK i \in DOMAIN req[r].reviews :
            /\ IsActiveRound(Read(s, r), i)
            /\ ReviewComplete(Read(s, r).reviews[i])
            /\ Transition(s, r, "SUBMIT_PURCHASER",
                          Judged(req[r], i, u, "APPROVED"), u, h, tok)
    BY <1>4 DEF SubmitPurchaser
  <2>2. /\ Serial!Move(Staff(s), r, "SUBMIT_PURCHASER",
                       Judged(req[r], i, u, "APPROVED"), u, h)
        /\ Read(s, r) = req[r]
    BY <2>1, TransitionIsMove
  <2>3. Serial!IsActiveRound(req[r], i) /\ Serial!ReviewComplete(req[r].reviews[i])
    BY <2>1, <2>2 DEF IsActiveRound, Serial!IsActiveRound, OpenRounds, Serial!OpenRounds,
                      ReviewComplete, Serial!ReviewComplete
  <2>4. QED
    BY <1>1, <2>2, <2>3 DEF Serial!Step, Serial!Approve
<1>5. CASE StartPurchase(s, r, u, h, tok)
  BY <1>5, TransitionIsMove DEF StartPurchase, Serial!Step, Serial!StartBuying
<1>6. CASE SubmitWarehouse(s, r, u, h, tok)
  BY <1>6, TransitionIsMove, SerialOperators
  DEF SubmitWarehouse, Serial!Step, Serial!SendToWarehouse
<1>7. CASE Complete(s, r, u, h, tok)
  <2> DEFINE y == WithNotifications(req[r], Receivers(Staff(s), req[r]))
  <2>1. Transition(s, r, "COMPLETE",
                   WithNotifications(req[r], Receivers(Staff(s), Read(s, r))), u, h, tok)
    BY <1>7 DEF Complete
  <2>2. Serial!Move(Staff(s), r, "COMPLETE", y, u, h) /\ Read(s, r) = req[r]
    BY <2>1, TransitionIsMove
  <2>3. Serial!WithNotifications(req[r], Serial!Receivers(Staff(s), req[r])) = y
    BY DEF Serial!WithNotifications, WithNotifications, Serial!Receivers, Receivers
  <2>4. req[r].receipt # Serial!NoReceipt
    BY <1>7, <2>2, SerialOperators DEF Complete
  <2>5. QED
    BY <2>2, <2>3, <2>4 DEF Serial!Step, Serial!Finish
<1>8. QED
  BY <1>2, <1>3, <1>4, <1>5, <1>6, <1>7 DEF Transitions

\* Whatever a session handles for a request is a serial step under the
\* staffing the session has read.
LEMMA HandleIsSerial ==
    ASSUME VersionInv, NEW s \in open, NEW r \in Ids, NEW u \in Employees,
           Handle(s, u, r)
    PROVE  Serial!SerialNext
<1>1. Staff(s) \in StaffsRead
  BY DEF Staff, StaffsRead
<1>2. CASE (\E b \in Buildings : CreateDraft(s, r, u, b)) \/ Saves(s, r, u)
  BY <1>1, <1>2, EditsAreSerial DEF Serial!SerialNext, StaffsRead
<1>3. ASSUME NEW h \in Employees \cup {Nobody}, NEW tok \in TokenChoices(s),
             Transitions(s, r, u, h, tok)
      PROVE  Serial!SerialNext
  <2>1. Serial!Step(Staff(s), r, u, h)
    BY <1>3, TransitionsAreSerial
  <2>2. QED
    BY <1>1, <2>1 DEF Serial!SerialNext, Serial!Step, StaffsRead
<1>4. QED
  BY <1>2, <1>3 DEF Handle

-----------------------------------------------------------------------------
(***************************************************************************)
(* The rows of a request.  A session that commits has read the stored row, *)
(* so the row it writes is one that Written allows in its place; what the  *)
(* invariants of a single row say then holds of all of them.               *)
(***************************************************************************)
\* What a session may commit in the place of the stored rows of r.
Writes(st, u, r, y) ==
    \/ Edited(st, u, req[r], y)
    \/ \E h \in Employees \cup {Nobody}, tok \in (1..MaxTokens) \ UsedTokens :
          Moved(st, u, h, tok, req[r], y)

\* The writes of Procurement are those of a single request.
LEMMA WritesAreWritten ==
    ASSUME NEW st, NEW u \in Employees, NEW r \in Ids, NEW y, Writes(st, u, r, y)
    PROVE  Written(st, u, req[r], y)
  BY ProcurementAssumption DEF Writes, Written

\* WorkflowService.transition moves the stored row: its session has read it.
LEMMA TransitionMoves ==
    ASSUME VersionInv, NEW s \in open, NEW r \in Ids, NEW op \in Operations,
           NEW z \in RequestRecord, z.version = req[r].version, NEW u \in Employees,
           NEW h \in Employees \cup {Nobody}, NEW tok \in TokenChoices(s),
           Prepared(Staff(s), u, op, req[r], z), Transition(s, r, op, z, u, h, tok)
    PROVE  \E y \in RequestRecord : Commit(s, r, y) /\ Writes(Staff(s), u, r, y)
<1> DEFINE y == Advanced(z, op, u, h, tok)
<1>1. Read(s, r) = req[r]
  BY WriterHasReadRow DEF Transition
<1>2. MayTransition(Staff(s), u, req[r], op, h) /\ tok \notin UsedTokens /\ Commit(s, r, y)
  BY <1>1 DEF Transition
<1>3. tok \in Nat /\ tok \in 1..MaxTokens
  BY ProcurementAssumption DEF TokenChoices
<1>4. y \in RequestRecord
  BY <1>3, AdvancedSucceeds DEF Successors
<1>5. Moved(Staff(s), u, h, tok, req[r], y)
  BY <1>2 DEF Moved
<1> HIDE DEF y
<1>6. QED
  BY <1>2, <1>3, <1>4, <1>5 DEF Writes

\* Every transition handler writes what its row allows.
LEMMA TransitionsWrite ==
    ASSUME VersionInv, NEW s \in open, NEW r \in Ids, NEW u \in Employees,
           NEW h \in Employees \cup {Nobody}, NEW tok \in TokenChoices(s),
           Transitions(s, r, u, h, tok)
    PROVE  \E y \in RequestRecord : Commit(s, r, y) /\ Writes(Staff(s), u, r, y)
<1>1. s \in Sessions /\ req[r] \in RequestRecord /\ TypeOK
  BY DEF VersionInv, TypeOK
<1>2. ASSUME NEW op, NEW z, Transition(s, r, op, z, u, h, tok)
      PROVE  Read(s, r) = req[r]
  BY <1>2, WriterHasReadRow DEF Transition
<1>3. ASSUME NEW op \in {"SUBMIT_REVIEW", "RESUBMIT_REVIEW", "START_PURCHASE"},
             Transition(s, r, op, req[r], u, h, tok)
      PROVE  \E y \in RequestRecord : Commit(s, r, y) /\ Writes(Staff(s), u, r, y)
  <2>1. Prepared(Staff(s), u, op, req[r], req[r]) /\ op \in Operations
    BY DEF Prepared, Operations
  <2>2. QED
    BY <1>1, <1>3, <2>1, TransitionMoves
<1>4. CASE Reject(s, r, u, h, tok)
  <2>1. PICK i \in 1..(Len(req[r].reviews) + 1) :
            /\ IsReviewRound(Read(s, r), req[r], i)
            /\ Transition(s, r, "REJECT", Judged(req[r], i, u, "REJECTED"), u, h, tok)
    BY <1>4 DEF Reject
  <2> DEFINE z == Judged(req[r], i, u, "REJECTED")
  <2>2. z \in RequestRecord /\ z.version = req[r].version
    BY <1>1, <2>1, ReviewRoundRange, JudgedType
  <2>3. Prepared(Staff(s), u, "REJECT", req[r], z)
    BY <1>2, <2>1 DEF Prepared
  <2>4. Transition(s, r, "REJECT", z, u, h, tok) /\ "REJECT" \in Operations
    BY <2>1 DEF Operations
  <2> HIDE DEF z
  <2>5. QED
    BY <2>2, <2>3, <2>4, TransitionMoves
<1>5. CASE SubmitPurchaser(s, r, u, h, tok)
  <2>1. PICK i \in DOMAIN req[r].reviews :
            /\ IsActiveRound(Read(s, r), i) /\ ReviewComplete(Read(s, r).reviews[i])
            /\ Transition(s, r, "SUBMIT_PURCHASER",
                          Judged(req[r], i, u, "APPROVED"), u, h, tok)
    BY <1>5 DEF SubmitPurchaser
  <2> DEFINE z == Judged(req[r], i, u, "APPROVED")
  <2>2. z \in RequestRecord /\ z.version = req[r].version
    BY <1>1, JudgedType
  <2>3. Prepared(Staff(s), u, "SUBMIT_PURCHASER", req[r], z)
    BY <1>2, <2>1 DEF Prepared
  <2>4. Transition(s, r, "SUBMIT_PURCHASER", z, u, h, tok) /\ "SUBMIT_PURCHASER" \in Operations
    BY <2>1 DEF Operations
  <2> HIDE DEF z
  <2>5. QED
    BY <2>2, <2>3, <2>4, TransitionMoves
<1>6. CASE SubmitWarehouse(s, r, u, h, tok)
  <2>1. Transition(s, r, "SUBMIT_WAREHOUSE", req[r], u, h, tok)
    BY <1>6 DEF SubmitWarehouse
  <2>2. Prepared(Staff(s), u, "SUBMIT_WAREHOUSE", req[r], req[r])
    BY <1>2, <1>6, <2>1 DEF SubmitWarehouse, Prepared
  <2>3. "SUBMIT_WAREHOUSE" \in Operations
    BY DEF Operations
  <2>4. QED
    BY <1>1, <2>1, <2>2, <2>3, TransitionMoves
<1>7. CASE Complete(s, r, u, h, tok)
  <2> DEFINE z == WithNotifications(req[r], Receivers(Staff(s), Read(s, r)))
  <2>1. Transition(s, r, "COMPLETE", z, u, h, tok) /\ Read(s, r).receipt # NoReceipt
    BY <1>7 DEF Complete
  <2>2. z \in RequestRecord /\ z.version = req[r].version
    BY <1>1, NotificationsType
  <2>3. Read(s, r) = req[r]
    BY <1>2, <2>1
  <2>4. Prepared(Staff(s), u, "COMPLETE", req[r], z) /\ "COMPLETE" \in Operations
    BY <2>1, <2>3 DEF Prepared, Operations
  <2> HIDE DEF z
  <2>5. QED
    BY <2>1, <2>2, <2>4, TransitionMoves
<1>8. QED
  BY <1>3, <1>4, <1>5, <1>6, <1>7 DEF Transitions, SubmitReview, StartPurchase

\* So does every handler that saves fields.
LEMMA EditsWrite ==
    ASSUME VersionInv, NEW s \in open, NEW r \in Ids, NEW u \in Employees,
           (\E b \in Buildings : CreateDraft(s, r, u, b)) \/ Saves(s, r, u)
    PROVE  \E y \in RequestRecord : Commit(s, r, y) /\ Writes(Staff(s), u, r, y)
<1>1. s \in Sessions /\ TypeOK
  BY DEF VersionInv, TypeOK
<1>2. PICK y \in Successors(req[r]) : Commit(s, r, y)
  BY <1>1, EditsCommit DEF CommitsSuccessor
<1>3. ASSUME NEW statuses, RowMatches(s, r, statuses)
      PROVE  Read(s, r) = req[r]
  BY <1>3, WriterHasReadRow
<1>4. \E w : Commit(s, r, w) /\ Edited(Staff(s), u, req[r], w)
  <2>1. ASSUME NEW b \in Buildings, CreateDraft(s, r, u, b)
        PROVE  Commit(s, r, Draft(u, b)) /\ Edited(Staff(s), u, req[r], Draft(u, b))
    BY <2>1 DEF CreateDraft, Edited
  <2>2. ASSUME NEW q \in Quantities \cup {Missing}, NEW described \in BOOLEAN,
               SaveApplicantFields(s, r, u, q, described)
        PROVE  LET w == WithApplicantFields(req[r], q, described)
               IN  Commit(s, r, w) /\ Edited(Staff(s), u, req[r], w)
    BY <1>3, <2>2 DEF SaveApplicantFields, ApplicantEdit, ManagerEdit, Edited
  <2>3. ASSUME NEW p \in Prices \cup {Missing}, NEW filled \in BOOLEAN,
               SaveReviewFields(s, r, u, p, filled)
        PROVE  \E w : Commit(s, r, w) /\ Edited(Staff(s), u, req[r], w)
    <3>1. Read(s, r) = req[r]
      BY <1>3, <2>3 DEF SaveReviewFields
    <3>2. PICK i \in 1..(Len(req[r].reviews) + 1) :
              /\ IsReviewRound(req[r], req[r], i)
              /\ Commit(s, r, WithReviewFields(req[r], req[r], i, u, p, filled))
      BY <2>3, <3>1 DEF SaveReviewFields
    <3>3. /\ IsCurrentHandler(Staff(s), u, req[r], "BUILDING_MANAGER")
          /\ req[r].status = "PENDING_REVIEW" /\ (p # Missing => req[r].qty # Missing)
      BY <2>3, <3>1 DEF SaveReviewFields
    <3>4. Edited(Staff(s), u, req[r], WithReviewFields(req[r], req[r], i, u, p, filled))
      BY <3>2, <3>3 DEF Edited
    <3>5. QED
      BY <3>2, <3>4
  <2>4. ASSUME NEW p \in Prices, SavePurchaseFields(s, r, u, p)
        PROVE  LET w == WithExecution(req[r], req[r], u, p)
               IN  Commit(s, r, w) /\ Edited(Staff(s), u, req[r], w)
    BY <1>3, <2>4 DEF SavePurchaseFields, Edited
  <2>5. ASSUME NEW received \in Quantities, NEW remark \in BOOLEAN,
               SaveWarehouseFields(s, r, u, received, remark)
        PROVE  LET w == WithReceipt(req[r], u, received, remark)
               IN  Commit(s, r, w) /\ Edited(Staff(s), u, req[r], w)
    BY <1>3, <2>5 DEF SaveWarehouseFields, Edited
  <2>6. QED
    BY <2>1, <2>2, <2>3, <2>4, <2>5 DEF Saves
<1>5. PICK w : Commit(s, r, w) /\ Edited(Staff(s), u, req[r], w)
  BY <1>4
<1>6. w = y
  <2>1. req'[r] = w /\ req'[r] = y
    BY <1>1, <1>2, <1>5 DEF Commit, TypeOK
  <2>2. QED
    BY <2>1
<1>7. QED
  BY <1>2, <1>5, <1>6 DEF Writes, Successors

\* What a step of the back end does to the stored requests: nothing, or one
\* write by an open session.
RequestWritten ==
    \E s \in open, u \in Employees, r \in Ids, y \in RequestRecord :
        /\ Writes(Staff(s), u, r, y) /\ req' = [req EXCEPT ![r] = y]
        /\ UNCHANGED lateLog

\* A step of the back end writes one request or none.
LEMMA StepWrites ==
    ASSUME VersionInv, [Next]_vars
    PROVE  UNCHANGED req \/ RequestWritten
<1>1. ASSUME NEW s \in open, NEW r \in Ids, NEW u \in Employees, Handle(s, u, r)
      PROVE  RequestWritten
  <2>1. \E y \in RequestRecord : Commit(s, r, y) /\ Writes(Staff(s), u, r, y)
    BY <1>1, EditsWrite, TransitionsWrite DEF Handle
  <2>2. QED
    BY <2>1 DEF RequestWritten, Commit
<1>2. QED
  BY <1>1, StepCases, AnnotationsLog DEF VersionInv, vars, Begin, Rollback, SetStaff, AddLogRow

-----------------------------------------------------------------------------
(***************************************************************************)
(* Each request by itself.                                                 *)
(***************************************************************************)
RequestInv ==
    \A r \in Ids : RoundsInv(req[r]) /\ EvidenceInv(req[r]) /\ HistoryInv(req[r])

\* One write keeps what holds of a single request.
LEMMA WriteKeepsRequest ==
    ASSUME VersionInv, NEW st, NEW u \in Employees, NEW r \in Ids, NEW y \in RequestRecord,
           Writes(st, u, r, y), RoundsInv(req[r]), EvidenceInv(req[r]), HistoryInv(req[r])
    PROVE  RoundsInv(y) /\ EvidenceInv(y) /\ HistoryInv(y)
<1>1. req[r] \in RequestRecord
  BY DEF VersionInv, TypeOK
<1>2. QED
  BY <1>1, WritesAreWritten, WritesKeepRounds, WritesKeepEvidence, WritesKeepHistory

\* A request_id without rows.
LEMMA AbsentInv == RoundsInv(Absent) /\ EvidenceInv(Absent) /\ HistoryInv(Absent)
  BY DEF RoundsInv, EvidenceInv, HistoryInv, Absent, Bought

\* Every stored request keeps its rounds, evidence and history.
LEMMA RequestInvHolds == Spec => []RequestInv
<1>1. Init => RequestInv
  BY AbsentInv DEF Init, EmptyDatabase, RequestInv
<1>2. VersionInv /\ RequestInv /\ [Next]_vars => RequestInv'
  <2> SUFFICES ASSUME VersionInv, RequestInv, [Next]_vars PROVE RequestInv'
    OBVIOUS
  <2>1. CASE UNCHANGED req
    BY <2>1 DEF RequestInv
  <2>2. ASSUME NEW s \in open, NEW u \in Employees, NEW r \in Ids, NEW y \in RequestRecord,
               Writes(Staff(s), u, r, y), req' = [req EXCEPT ![r] = y]
        PROVE  RequestInv'
    <3>1. RoundsInv(y) /\ EvidenceInv(y) /\ HistoryInv(y)
      BY <2>2, WriteKeepsRequest DEF RequestInv
    <3>2. \A q \in Ids : req'[q] = IF q = r THEN y ELSE req[q]
      BY <2>2 DEF VersionInv, TypeOK
    <3>3. QED
      BY <3>1, <3>2 DEF RequestInv
  <2>3. QED
    BY <2>1, <2>2, StepWrites DEF RequestWritten
<1>3. QED
  BY <1>1, <1>2, VersionInvHolds, PTL DEF Spec

-----------------------------------------------------------------------------
(***************************************************************************)
(* The end of a request.  Nothing writes a completed one again, so whoever *)
(* reads it as completed reads it as it is stored, under whatever version  *)
(* has been compared or not; and the operations that log without comparing *)
(* one have read just that.                                                *)
(***************************************************************************)
FinalInv ==
    /\ \A s \in open, r \in Ids : Read(s, r).status = "COMPLETED" => Read(s, r) = req[r]
    /\ \A i \in DOMAIN lateLog : req[lateLog[i].request].status = "COMPLETED"

\* No step touches what was approved.
LEMMA StepKeepsApproved ==
    ASSUME VersionInv, [Next]_vars
    PROVE  \A r \in Ids : Approved(req[r], req'[r])
<1>1. \A q \in Ids : Approved(req[q], req[q])
  BY DEF Approved
<1>2. CASE UNCHANGED req
  BY <1>1, <1>2
<1>3. ASSUME NEW s \in open, NEW u \in Employees, NEW r \in Ids, NEW y \in RequestRecord,
             Writes(Staff(s), u, r, y), req' = [req EXCEPT ![r] = y]
      PROVE  \A q \in Ids : Approved(req[q], req'[q])
  <2>1. req[r] \in RequestRecord
    BY DEF VersionInv, TypeOK
  <2>2. Approved(req[r], y)
    BY <1>3, <2>1, WritesAreWritten, WritesKeepApproved
  <2>3. \A q \in Ids : req'[q] = IF q = r THEN y ELSE req[q]
    BY <1>3 DEF VersionInv, TypeOK
  <2>4. QED
    BY <1>1, <2>2, <2>3
<1>4. QED
  BY <1>2, <1>3, StepWrites DEF RequestWritten

\* A session keeps its snapshot, or has just taken it.
LEMMA SnapshotsKept ==
    ASSUME VersionInv, [Next]_vars, NEW t \in open', NEW q \in Ids
    PROVE  Read(t, q)' = req'[q] \/ (t \in open /\ Read(t, q)' = Read(t, q))
<1>1. TypeOK
  BY DEF VersionInv
<1>2. ASSUME NEW s \in Sessions, End(s)
      PROVE  t \in open /\ Read(t, q)' = Read(t, q)
  BY <1>1, <1>2 DEF End, Read, TypeOK
<1>3. CASE UNCHANGED vars
  BY <1>3 DEF vars, Read
<1>4. ASSUME NEW s \in Sessions, Begin(s)
      PROVE  Read(t, q)' = req'[q] \/ (t \in open /\ Read(t, q)' = Read(t, q))
  BY <1>1, <1>4 DEF Begin, Read, TypeOK
<1>5. ASSUME NEW s \in open, NEW r \in Ids, NEW u \in Employees, Handle(s, u, r)
      PROVE  t \in open /\ Read(t, q)' = Read(t, q)
  <2>1. s \in Sessions
    BY <1>1 DEF TypeOK
  <2>2. PICK y : Commit(s, r, y)
    BY <1>1, <1>5, <2>1, HandleCommits DEF CommitsSuccessor
  <2>3. QED
    BY <1>2, <2>1, <2>2 DEF Commit
<1>6. ASSUME NEW s \in open, NEW r \in Ids, NEW u \in Employees, NEW tok,
             Annotations(s, r, u, tok)
      PROVE  t \in open /\ Read(t, q)' = Read(t, q)
  BY <1>1, <1>2, <1>6, AnnotationsLog DEF AddLogRow, TypeOK
<1>7. ASSUME NEW s \in open, NEW u, NEW e, NEW record, SetStaff(s, u, e, record)
      PROVE  t \in open /\ Read(t, q)' = Read(t, q)
  BY <1>1, <1>2, <1>7 DEF SetStaff, TypeOK
<1>8. QED
  BY <1>1, <1>2, <1>3, <1>4, <1>5, <1>6, <1>7, StepCases DEF Rollback

\* A step adds at most one row that moves nothing, and then no other.
LEMMA LateLogGrows ==
    ASSUME VersionInv, [Next]_vars
    PROVE  \/ UNCHANGED lateLog
           \/ \E s \in open, r \in Ids, u \in Employees : \E tok \in TokenChoices(s) :
                 Annotations(s, r, u, tok)
<1>1. ASSUME NEW s \in open, NEW r \in Ids, NEW u \in Employees, Handle(s, u, r)
      PROVE  UNCHANGED lateLog
  <2>1. \E y : Commit(s, r, y)
    BY <1>1, HandleCommits DEF CommitsSuccessor, VersionInv, TypeOK
  <2>2. QED
    BY <2>1 DEF Commit
<1>2. QED
  BY <1>1, StepCases DEF VersionInv, vars, Begin, Rollback, SetStaff

\* Who logs without moving a request has found it completed, and was entitled
\* to it by the rows stored.
LEMMA AnnotationsAreSerial ==
    ASSUME VersionInv, RequestInv, FinalInv, NEW s \in open, NEW r \in Ids,
           NEW u \in Employees, NEW tok \in TokenChoices(s), Annotations(s, r, u, tok)
    PROVE  \E op \in LateOperations :
              /\ AddLogRow(s, r, op, u, tok) /\ req[r].status = "COMPLETED"
              /\ Serial!MayAnnotate(Staff(s), r, op, u)
<1>1. CASE ResendNotification(s, r, u, tok)
  <2>1. req[r].status = "COMPLETED"
    BY <1>1 DEF ResendNotification, RequestInv, EvidenceInv
  <2>2. Serial!MayAnnotate(Staff(s), r, "RESEND_NOTIFICATION", u)
    BY <1>1 DEF ResendNotification, Serial!MayAnnotate, Holds, Serial!Holds
  <2>3. QED
    BY <1>1, <2>1, <2>2 DEF ResendNotification, LateOperations
<1>2. CASE CreateBlacklist(s, r, u, tok)
  <2>1. Read(s, r) = req[r] /\ req[r].status = "COMPLETED"
    BY <1>2 DEF CreateBlacklist, FinalInv
  <2>2. Serial!MayAnnotate(Staff(s), r, "ADD_SUPPLIER_BLACKLIST", u)
    BY <1>2, <2>1
    DEF CreateBlacklist, Serial!MayAnnotate, Holds, Serial!Holds, BelongsTo, Serial!BelongsTo
  <2>3. QED
    BY <1>2, <2>1, <2>2 DEF CreateBlacklist, LateOperations
<1>3. CASE ReleaseBlacklist(s, r, u, tok)
  <2>1. req[r].status = "COMPLETED"
    BY <1>3 DEF ReleaseBlacklist, FinalInv
  <2>2. Serial!MayAnnotate(Staff(s), r, "RELEASE_SUPPLIER_BLACKLIST", u)
    BY <1>3 DEF ReleaseBlacklist, Serial!MayAnnotate, Holds, Serial!Holds
  <2>3. QED
    BY <1>3, <2>1, <2>2 DEF ReleaseBlacklist, LateOperations
<1>4. QED
  BY <1>1, <1>2, <1>3 DEF Annotations

\* What a row added to lateLog leaves there.
Appended(row) ==
    /\ Len(lateLog) \in Nat
    /\ DOMAIN lateLog = 1..Len(lateLog) /\ DOMAIN lateLog' = 1..(Len(lateLog) + 1)
    /\ lateLog'[Len(lateLog) + 1] = row
    /\ \A i \in 1..Len(lateLog) : lateLog'[i] = lateLog[i]

LEMMA LogRowAppended ==
    ASSUME VersionInv, NEW s, NEW r, NEW op, NEW u, NEW tok, AddLogRow(s, r, op, u, tok)
    PROVE  Appended([request |-> r, op |-> op, by |-> u, token |-> tok])
<1> DEFINE row == [request |-> r, op |-> op, by |-> u, token |-> tok]
<1>1. lateLog \in Seq(LateRecord(Ids)) /\ lateLog' = Append(lateLog, row)
  BY DEF AddLogRow, VersionInv, TypeOK
<1> HIDE DEF row
<1>2. Appended(row)
  BY <1>1 DEF Appended
<1>3. QED
  BY <1>2 DEF row

\* Completed requests are final, and so is what is read of them.
LEMMA FinalPreserved == VersionInv /\ RequestInv /\ FinalInv /\ [Next]_vars => FinalInv'
<1> SUFFICES ASSUME VersionInv, RequestInv, FinalInv, [Next]_vars PROVE FinalInv'
  OBVIOUS
<1>1. \A q \in Ids : req[q].status = "COMPLETED" => req'[q] = req[q]
  BY StepKeepsApproved DEF Approved
<1>2. ASSUME NEW t \in open', NEW q \in Ids, Read(t, q)'.status = "COMPLETED"
      PROVE  Read(t, q)' = req'[q]
  BY <1>1, <1>2, SnapshotsKept DEF FinalInv
<1>3. \A i \in DOMAIN lateLog : lateLog[i].request \in Ids
  <2>1. \A i \in DOMAIN lateLog : lateLog[i] \in LateRecord(Ids)
    BY ElementOfSeq DEF VersionInv, TypeOK
  <2>2. QED
    BY <2>1 DEF LateRecord
<1>4. ASSUME NEW i \in DOMAIN lateLog'
      PROVE  req'[lateLog'[i].request].status = "COMPLETED"
  <2>1. CASE UNCHANGED lateLog
    BY <1>1, <1>3, <2>1 DEF FinalInv
  <2>2. ASSUME NEW s \in open, NEW r \in Ids, NEW u \in Employees, NEW tok \in TokenChoices(s),
               Annotations(s, r, u, tok)
        PROVE  req'[lateLog'[i].request].status = "COMPLETED"
    <3>1. PICK op \in LateOperations : AddLogRow(s, r, op, u, tok) /\ req[r].status = "COMPLETED"
      BY <2>2, AnnotationsAreSerial
    <3> DEFINE row == [request |-> r, op |-> op, by |-> u, token |-> tok]
    <3>2. Appended(row) /\ row.request = r
      BY <3>1, LogRowAppended
    <3> HIDE DEF row
    <3>3. \/ i \in DOMAIN lateLog /\ lateLog'[i] = lateLog[i]
          \/ lateLog'[i].request = r
      BY <3>2 DEF Appended
    <3>4. QED
      BY <1>1, <1>3, <3>1, <3>3 DEF FinalInv
  <2>3. QED
    BY <2>1, <2>2, LateLogGrows
<1>5. QED
  BY <1>2, <1>4 DEF FinalInv

LEMMA FinalInvHolds == Spec => []FinalInv
<1>1. Init => FinalInv
  BY DEF Init, EmptyDatabase, FinalInv
<1>2. QED
  BY <1>1, FinalPreserved, VersionInvHolds, RequestInvHolds, PTL DEF Spec

-----------------------------------------------------------------------------
(***************************************************************************)
(* So every step is one of the serial specification.                       *)
(***************************************************************************)
LEMMA StepIsSerial ==
    VersionInv /\ RequestInv /\ FinalInv /\ [Next]_vars
        => [Serial!SerialNext]_(Serial!serialVars)
<1> SUFFICES ASSUME VersionInv, RequestInv, FinalInv, [Next]_vars
             PROVE  Serial!SerialNext \/ UNCHANGED Serial!serialVars
  OBVIOUS
<1>1. TypeOK
  BY DEF VersionInv
<1>2. CASE UNCHANGED vars
  BY <1>2 DEF vars, Serial!serialVars
<1>3. ASSUME NEW s \in Sessions, Begin(s)
      PROVE  Serial!SerialNext
  <2>1. \A t \in open' : snap'[t].staff \in StaffsRead
    BY <1>1, <1>3 DEF Begin, StaffsRead, TypeOK
  <2>2. staff' \in StaffsRead
    BY <1>3 DEF Begin, StaffsRead
  <2>3. UNCHANGED <<req, lateLog>>
    BY <1>3 DEF Begin
  <2>4. QED
    BY <2>1, <2>2, <2>3 DEF StaffsRead, Serial!SerialNext, Serial!StaffingMoves
<1>4. ASSUME NEW s \in Sessions, Rollback(s)
      PROVE  Serial!SerialNext
  <2>1. StaffsRead' \subseteq StaffsRead /\ UNCHANGED <<req, lateLog>>
    BY <1>4, StaffsShrink DEF Rollback, End
  <2>2. QED
    BY <2>1 DEF StaffsRead, Serial!SerialNext, Serial!StaffingMoves
<1>5. ASSUME NEW s \in open, NEW u \in Employees, NEW e \in Employees,
             NEW record \in StaffRecord, SetStaff(s, u, e, record)
      PROVE  Serial!SerialNext
  <2>1. UNCHANGED <<req, lateLog>> /\ \A t \in open' : snap'[t].staff \in StaffsRead
    BY <1>1, <1>5 DEF SetStaff, End, StaffsRead, TypeOK
  <2>2. QED
    BY <2>1 DEF StaffsRead, Serial!SerialNext, Serial!StaffingMoves
<1>6. ASSUME NEW s \in open, NEW r \in Ids, NEW u \in Employees, NEW tok \in TokenChoices(s),
             Annotations(s, r, u, tok)
      PROVE  Serial!SerialNext
  <2>1. PICK op \in LateOperations :
            /\ AddLogRow(s, r, op, u, tok) /\ req[r].status = "COMPLETED"
            /\ Serial!MayAnnotate(Staff(s), r, op, u)
    BY <1>6, AnnotationsAreSerial
  <2>2. StaffsRead' \subseteq StaffsRead
    BY <2>1, StaffsShrink DEF AddLogRow
  <2>3. tok \in Serial!FreshTokens /\ op \in Serial!LateOperations
    BY <2>1, FreshTokens DEF AddLogRow, TokenChoices, LateOperations, Serial!LateOperations
  <2>4. Serial!Annotate(Staff(s), r, op, u)
    BY <2>1, <2>2, <2>3 DEF AddLogRow, StaffsRead, Serial!Annotate
  <2>5. Staff(s) \in StaffsRead
    BY DEF Staff, StaffsRead
  <2>6. QED
    BY <2>3, <2>4, <2>5 DEF Serial!SerialNext, StaffsRead
<1>7. QED
  BY <1>1, <1>2, <1>3, <1>4, <1>5, <1>6, HandleIsSerial, StepCases

\* Every committed operation acts on the request as stored, as if it had run
\* alone, and rows are logged without a move under completed requests only:
\* the back end implements the serial specification.
THEOREM BackEndIsSerial == Spec => ImplementsSerial
<1>1. Init => Serial!SerialInit
  BY SerialOperators DEF Init, EmptyDatabase, Serial!SerialInit
<1>2. QED
  BY <1>1, VersionInvHolds, RequestInvHolds, FinalInvHolds, StepIsSerial, PTL
  DEF Spec, ImplementsSerial, Serial!SerialSpec

-----------------------------------------------------------------------------
(***************************************************************************)
(* What follows for each request.                                          *)
(***************************************************************************)
\* The rounds of a request are rejected one after the other, at most the last
\* is open, and the last verdict is the one the status stands for.
THEOREM RoundsStayInOrder == Spec => []ReviewRoundsInOrder
<1>1. VersionInv /\ RequestInv => ReviewRoundsInOrder
  <2> SUFFICES ASSUME VersionInv, RequestInv, NEW r \in Ids
               PROVE  LET a == req[r]  n == Len(a.reviews)
                      IN  /\ \A i \in 1..(n - 1) : a.reviews[i].result = "REJECTED"
                          /\ OpenRounds(a) # {} => a.status = "PENDING_REVIEW" /\ OpenRounds(a) = {n}
                          /\ a.status = "REJECTED" => n > 0 /\ a.reviews[n].result = "REJECTED"
                          /\ a.status \in Bought => n > 0 /\ a.reviews[n].result = "APPROVED"
    BY DEF ReviewRoundsInOrder
  <2> DEFINE a == req[r]
             n == Len(a.reviews)
  <2>1. RoundsInv(a) /\ n \in Nat /\ DOMAIN a.reviews = 1..n
    BY DEF RequestInv, VersionInv, TypeOK, RequestRecord
  <2>2. \A i \in OpenRounds(a) : i = n
    BY <2>1 DEF OpenRounds, RoundsInv
  <2>3. OpenRounds(a) # {} => OpenRounds(a) = {n} /\ a.status = "PENDING_REVIEW"
    BY <2>1, <2>2 DEF OpenRounds, RoundsInv
  <2>4. QED
    BY <2>1, <2>3 DEF RoundsInv
<1>2. QED
  BY <1>1, VersionInvHolds, RequestInvHolds, PTL

\* A stage is entered only on the evidence of the one before, and the evidence
\* stays true: later sessions cannot change what it was measured against.
THEOREM EachStageHasEvidence == Spec => []StageEvidence
<1>1. RequestInv => StageEvidence
  <2> SUFFICES ASSUME RequestInv, NEW r \in Ids
               PROVE  LET a == req[r]
                      IN  /\ a.status \in Bought => ReviewComplete(a.reviews[Len(a.reviews)])
                          /\ a.status \in {"PENDING_WAREHOUSE", "COMPLETED"} =>
                                /\ a.execution # NoExecution
                                /\ a.execution.total = a.qty * a.execution.price
                          /\ a.status = "COMPLETED" =>
                                /\ a.receipt # NoReceipt
                                /\ a.receipt.received < a.qty => a.receipt.remark
    BY DEF StageEvidence
  <2>1. RoundsInv(req[r]) /\ EvidenceInv(req[r])
    BY DEF RequestInv
  <2>2. QED
    BY <2>1 DEF RoundsInv, EvidenceInv
<1>2. QED
  BY <1>1, RequestInvHolds, PTL

\* The operation log is the history of the status, and whoever moves the
\* request is the employee the log assigned it to.
THEOREM LogTellsTheHistory == Spec => []LogIsHistory
<1>1. RequestInv /\ FinalInv => LogIsHistory
  <2> SUFFICES ASSUME RequestInv, NEW r \in Ids, req[r] # Absent
               PROVE  LET a == req[r]  n == Len(a.log)
                      IN  /\ n > 0 /\ a.log[1].to = "DRAFT"
                          /\ a.log[n].to = a.status /\ a.log[n].assigned = a.handler
                          /\ \A i \in 2..n : /\ a.log[i].from = a.log[i - 1].to
                                             /\ a.log[i].by = a.log[i - 1].assigned
    BY DEF LogIsHistory, FinalInv
  <2>1. HistoryInv(req[r])
    BY DEF RequestInv
  <2>2. QED
    BY <2>1 DEF HistoryInv
<1>2. QED
  BY <1>1, RequestInvHolds, FinalInvHolds, PTL

\* What was approved stays as approved, whatever sessions are still running,
\* and the log only grows.
THEOREM ApprovedIsFinal == Spec => ApprovedStaysApproved
<1>1. VersionInv /\ [Next]_vars =>
         [/\ \A r \in Ids : Approved(req[r], req'[r])
          /\ \A i \in DOMAIN lateLog :
                i \in DOMAIN lateLog' /\ lateLog'[i] = lateLog[i]]_<<req, lateLog>>
  <2> SUFFICES ASSUME VersionInv, [Next]_vars
               PROVE  /\ \A r \in Ids : Approved(req[r], req'[r])
                      /\ \A i \in DOMAIN lateLog :
                            i \in DOMAIN lateLog' /\ lateLog'[i] = lateLog[i]
    OBVIOUS
  <2>1. ASSUME NEW s \in open, NEW r \in Ids, NEW u \in Employees, NEW tok,
               Annotations(s, r, u, tok)
        PROVE  \A i \in DOMAIN lateLog : i \in DOMAIN lateLog' /\ lateLog'[i] = lateLog[i]
    <3>1. PICK op : AddLogRow(s, r, op, u, tok)
      BY <2>1, AnnotationsLog
    <3>2. PICK row : Appended(row)
      BY <3>1, LogRowAppended
    <3>3. QED
      BY <3>2 DEF Appended
  <2>2. QED
    BY <2>1, StepKeepsApproved, LateLogGrows
<1>2. QED
  BY <1>1, VersionInvHolds, PTL DEF Spec, ApprovedStaysApproved, Approved

-----------------------------------------------------------------------------
(***************************************************************************)
(* Action tokens.                                                          *)
(***************************************************************************)
\* No row that moves nothing goes without a token.
TokenInv == TokenUsedOnce /\ \A k \in DOMAIN lateLog : lateLog[k].token # 0

\* A write uses a token that no log holds yet, or none.
LEMMA WriteKeepsTokens ==
    ASSUME VersionInv, TokenInv, NEW st, NEW u \in Employees, NEW r \in Ids,
           NEW y \in RequestRecord, Writes(st, u, r, y), req' = [req EXCEPT ![r] = y],
           UNCHANGED lateLog
    PROVE  TokenUsedOnce'
<1>1. req[r] \in RequestRecord /\ \A q \in Ids : req'[q] = IF q = r THEN y ELSE req[q]
  BY DEF VersionInv, TypeOK
<1>2. CASE y.log = req[r].log
  <2>1. \A q \in Ids : req'[q].log = req[q].log
    BY <1>1, <1>2
  <2>2. QED
    BY <2>1 DEF TokenInv, TokenUsedOnce
<1>3. ASSUME NEW row, y.log = Append(req[r].log, row), row.token \notin UsedTokens
      PROVE  TokenUsedOnce'
  <2> DEFINE n == Len(req[r].log)
  <2>1. DOMAIN req[r].log = 1..n /\ n \in Nat /\ req[r].log \in Seq(LogRecord)
    BY <1>1 DEF RequestRecord
  <2>2. DOMAIN y.log = 1..(n + 1) /\ y.log[n + 1] = row /\ \A i \in 1..n : y.log[i] = req[r].log[i]
    BY <1>3, <2>1
  <2>3. /\ \A q \in Ids : \A i \in DOMAIN req[q].log : req[q].log[i].token # row.token
        /\ \A k \in DOMAIN lateLog : lateLog[k].token # row.token
    BY <1>3 DEF UsedTokens, TokensIn
  <2>4. ASSUME NEW q \in Ids, NEW i \in DOMAIN req'[q].log
        PROVE  \/ q = r /\ i = n + 1 /\ req'[q].log[i] = row
               \/ i \in DOMAIN req[q].log /\ req'[q].log[i] = req[q].log[i]
    BY <1>1, <2>1, <2>2
  <2>5. ASSUME NEW k \in DOMAIN lateLog, NEW q \in Ids, NEW i \in DOMAIN req'[q].log
        PROVE  req'[q].log[i].token # lateLog[k].token
    BY <2>3, <2>4 DEF TokenInv, TokenUsedOnce
  <2>6. SUFFICES ASSUME NEW q \in Ids, NEW p \in Ids,
                        NEW i \in DOMAIN req'[q].log, NEW j \in DOMAIN req'[p].log,
                        req'[q].log[i].token = req'[p].log[j].token,
                        req'[q].log[i].token # 0
                 PROVE  q = p /\ i = j
    BY <2>5 DEF TokenInv, TokenUsedOnce
  <2>7. /\ \/ q = r /\ i = n + 1 /\ req'[q].log[i] = row
           \/ i \in DOMAIN req[q].log /\ req'[q].log[i] = req[q].log[i]
        /\ \/ p = r /\ j = n + 1 /\ req'[p].log[j] = row
           \/ j \in DOMAIN req[p].log /\ req'[p].log[j] = req[p].log[j]
    BY <2>4
  <2>8. QED
    BY <2>3, <2>6, <2>7 DEF TokenInv, TokenUsedOnce
<1>4. ASSUME req[r] = Absent, NEW b \in Buildings, y = Draft(u, b)
      PROVE  TokenUsedOnce'
  <2>1. \A i \in DOMAIN y.log : y.log[i].token = 0
    BY <1>4 DEF Draft, Absent
  <2>2. \A k \in DOMAIN lateLog : lateLog[k].token # 0
    BY DEF TokenInv
  <2>3. QED
    BY <1>1, <2>1, <2>2 DEF TokenInv, TokenUsedOnce
<1>5. CASE Edited(st, u, req[r], y)
  BY <1>1, <1>2, <1>4, <1>5, EditedFields DEF Kept
<1>6. ASSUME NEW h \in Employees \cup {Nobody}, NEW tok \in (1..MaxTokens) \ UsedTokens,
             Moved(st, u, h, tok, req[r], y)
      PROVE  TokenUsedOnce'
  <2>1. tok \in Nat
    BY ProcurementAssumption
  <2>2. PICK op \in Operations : MovedBy(st, u, h, tok, op, req[r], y)
    BY <1>1, <1>6, <2>1, MovedFields
  <2> DEFINE row == [op |-> op, by |-> u, assigned |-> h, from |-> Rules[op].from,
                     to |-> Rules[op].to, token |-> tok]
  <2>3. y.log = Append(req[r].log, row)
    BY <2>2 DEF MovedBy
  <2>4. row.token \notin UsedTokens
    OBVIOUS
  <2> HIDE DEF row
  <2>5. QED
    BY <1>3, <2>3, <2>4
<1>7. QED
  BY <1>5, <1>6 DEF Writes

\* So does a row that moves nothing.
LEMMA LogRowKeepsTokens ==
    ASSUME VersionInv, TokenInv, NEW s \in open, NEW r \in Ids, NEW op, NEW u,
           NEW tok \in TokenChoices(s), AddLogRow(s, r, op, u, tok)
    PROVE  TokenInv'
<1> DEFINE n == Len(lateLog)
<1>1. /\ n \in Nat /\ DOMAIN lateLog = 1..n /\ DOMAIN lateLog' = 1..(n + 1)
      /\ lateLog'[n + 1].token = tok /\ \A i \in 1..n : lateLog'[i] = lateLog[i]
  <2> DEFINE row == [request |-> r, op |-> op, by |-> u, token |-> tok]
  <2>1. Appended(row) /\ row.token = tok
    BY LogRowAppended
  <2> HIDE DEF row
  <2>2. QED
    BY <2>1 DEF Appended
<1>2. tok \in Nat \ {0}
  BY ProcurementAssumption DEF TokenChoices
<1>3. /\ \A q \in Ids : \A i \in DOMAIN req[q].log : req[q].log[i].token # tok
      /\ \A k \in 1..n : lateLog[k].token # tok
  BY <1>1 DEF AddLogRow, UsedTokens, TokensIn
<1>4. UNCHANGED req
  BY DEF AddLogRow
<1>5. ASSUME NEW k \in 1..(n + 1)
      PROVE  \/ k = n + 1 /\ lateLog'[k].token = tok
             \/ k \in 1..n /\ lateLog'[k] = lateLog[k]
  BY <1>1
<1>6. \A k \in DOMAIN lateLog' : lateLog'[k].token # 0
  BY <1>1, <1>2, <1>5 DEF TokenInv
<1>7. \A k \in DOMAIN lateLog' :
          /\ \A q \in Ids : \A j \in DOMAIN req'[q].log : req'[q].log[j].token # lateLog'[k].token
          /\ \A j \in DOMAIN lateLog' : lateLog'[j].token = lateLog'[k].token => j = k
  BY <1>1, <1>3, <1>4, <1>5 DEF TokenInv, TokenUsedOnce
<1>8. \A q, p \in Ids : \A i \in DOMAIN req'[q].log, j \in DOMAIN req'[p].log :
          req'[q].log[i].token = req'[p].log[j].token /\ req'[q].log[i].token # 0
              => q = p /\ i = j
  BY <1>4 DEF TokenInv, TokenUsedOnce
<1>9. QED
  BY <1>6, <1>7, <1>8 DEF TokenInv, TokenUsedOnce

\* An action token appears in at most one row of all the logs.
THEOREM TokensAreUsedOnce == Spec => []TokenUsedOnce
<1>1. Init => TokenInv
  BY DEF Init, EmptyDatabase, Absent, TokenInv, TokenUsedOnce
<1>2. VersionInv /\ TokenInv /\ [Next]_vars => TokenInv'
  <2> SUFFICES ASSUME VersionInv, TokenInv, [Next]_vars PROVE TokenInv'
    OBVIOUS
  <2>1. CASE UNCHANGED <<req, lateLog>>
    BY <2>1 DEF TokenInv, TokenUsedOnce
  <2>2. CASE RequestWritten
    <3>1. TokenUsedOnce'
      BY <2>2, WriteKeepsTokens DEF RequestWritten
    <3>2. UNCHANGED lateLog
      BY <2>2 DEF RequestWritten
    <3>3. QED
      BY <3>1, <3>2 DEF TokenInv
  <2>3. ASSUME NEW s \in open, NEW r \in Ids, NEW u \in Employees, NEW tok \in TokenChoices(s),
               Annotations(s, r, u, tok)
        PROVE  TokenInv'
    BY <2>3, AnnotationsLog, LogRowKeepsTokens
  <2>4. QED
    BY <2>1, <2>2, <2>3, StepWrites, LateLogGrows
<1>3. QED
  BY <1>1, <1>2, VersionInvHolds, PTL DEF Spec, TokenInv

-----------------------------------------------------------------------------
(***************************************************************************)
(* The people of the requests.  An administrator's write leaves a session  *)
(* with employee rows that are no longer stored, so nothing is known of    *)
(* the employees it went to; of the others every session reads the rows    *)
(* the system started with.                                                *)
(***************************************************************************)
Untouched == Employees \ Touched

StaffKept ==
    \A e \in Untouched :
        staff[e] = InitialStaff[e] /\ \A s \in open : Staff(s)[e] = InitialStaff[e]

PeopleKept == StaffKept /\ \A r \in Ids : PeopleInv(Untouched, InitialStaff, req[r])

\* An administrator's write touches its employee and nobody else.
LEMMA TouchedGrows ==
    ASSUME TypeOK, NEW s, NEW u, NEW e, NEW record, SetStaff(s, u, e, record)
    PROVE  Touched' = Touched \cup {e}
<1> DEFINE n == Len(adminLog)
<1>1. n \in Nat /\ DOMAIN adminLog = 1..n
  BY DEF TypeOK
<1>2. adminLog' = Append(adminLog, [by |-> u, target |-> e])
  BY DEF SetStaff
<1>3. /\ DOMAIN adminLog' = 1..(n + 1) /\ adminLog'[n + 1].target = e
      /\ \A i \in 1..n : adminLog'[i] = adminLog[i]
  BY <1>1, <1>2 DEF TypeOK
<1>4. QED
  BY <1>1, <1>3 DEF Touched

\* Nobody else writes the employee tables.
LEMMA StaffStays ==
    ASSUME TypeOK, StaffKept, [Next]_vars
    PROVE  StaffKept' /\ Touched \subseteq Touched'
<1>1. CASE UNCHANGED vars
  BY <1>1 DEF vars, StaffKept, Untouched, Touched, Staff
<1>2. ASSUME NEW s \in Sessions, Begin(s)
      PROVE  StaffKept' /\ Touched \subseteq Touched'
  BY <1>2 DEF Begin, StaffKept, Untouched, Touched, Staff, TypeOK
<1>3. ASSUME NEW s \in Sessions, End(s), UNCHANGED <<staff, adminLog>>
      PROVE  StaffKept' /\ Touched \subseteq Touched'
  BY <1>3 DEF End, StaffKept, Untouched, Touched, Staff, TypeOK
<1>4. ASSUME NEW s \in open, NEW r \in Ids, NEW u \in Employees, Handle(s, u, r)
      PROVE  StaffKept' /\ Touched \subseteq Touched'
  <2>1. s \in Sessions
    BY DEF TypeOK
  <2>2. PICK y : Commit(s, r, y)
    BY <1>4, <2>1, HandleCommits DEF CommitsSuccessor
  <2>3. QED
    BY <1>3, <2>1, <2>2 DEF Commit
<1>5. ASSUME NEW s \in open, NEW r \in Ids, NEW u \in Employees, NEW tok,
             Annotations(s, r, u, tok)
      PROVE  StaffKept' /\ Touched \subseteq Touched'
  <2>1. s \in Sessions /\ \E op : AddLogRow(s, r, op, u, tok)
    BY <1>5, AnnotationsLog DEF TypeOK
  <2>2. QED
    BY <1>3, <2>1 DEF AddLogRow
<1>6. ASSUME NEW s \in open, NEW u \in Employees, NEW e \in Employees,
             NEW record \in StaffRecord, SetStaff(s, u, e, record)
      PROVE  StaffKept' /\ Touched \subseteq Touched'
  <2>1. Touched' = Touched \cup {e}
    BY <1>6, TouchedGrows
  <2>2. /\ \A f \in Employees : f # e => staff'[f] = staff[f]
        /\ \A t \in open' : t \in open /\ snap'[t] = snap[t]
    BY <1>6 DEF SetStaff, End, TypeOK, Staffing
  <2>3. QED
    BY <2>1, <2>2 DEF StaffKept, Untouched, Staff
<1>7. QED
  BY <1>1, <1>2, <1>3, <1>4, <1>5, <1>6, StepCases DEF Rollback

\* A request_id without rows has no people.
LEMMA AbsentPeople == \A T, st : PeopleInv(T, st, Absent)
<1>1. Approvers(Absent) = {}
  BY DEF Approvers, Absent
<1>2. QED
  BY <1>1 DEF PeopleInv, Absent, Bought

\* Every request stays with people who can act, but for the touched ones.
LEMMA PeopleKeptHolds == Spec => []PeopleKept
<1>1. Init => PeopleKept
  BY AbsentPeople DEF Init, EmptyDatabase, PeopleKept, StaffKept
<1>2. VersionInv /\ RequestInv /\ PeopleKept /\ [Next]_vars => PeopleKept'
  <2> SUFFICES ASSUME VersionInv, RequestInv, PeopleKept, [Next]_vars
               PROVE  PeopleKept'
    OBVIOUS
  <2>1. StaffKept' /\ Untouched' \subseteq Untouched
    BY StaffStays DEF VersionInv, PeopleKept, Untouched
  <2>2. \A q \in Ids : PeopleInv(Untouched, InitialStaff, req'[q])
    <3>1. CASE UNCHANGED req
      BY <3>1 DEF PeopleKept
    <3>2. ASSUME NEW s \in open, NEW u \in Employees, NEW r \in Ids, NEW y \in RequestRecord,
                 Writes(Staff(s), u, r, y), req' = [req EXCEPT ![r] = y]
          PROVE  \A q \in Ids : PeopleInv(Untouched, InitialStaff, req'[q])
      <4>1. Written(Staff(s), u, req[r], y) /\ req[r] \in RequestRecord
        BY <3>2, WritesAreWritten DEF VersionInv, TypeOK
      <4>2. \A e \in Untouched : Staff(s)[e] = InitialStaff[e]
        BY DEF PeopleKept, StaffKept
      <4>3. PeopleInv(Untouched, Staff(s), req[r])
        BY <4>2, PeopleUnderStaffing DEF PeopleKept
      <4>4. PeopleInv(Untouched, Staff(s), y)
        BY <4>1, <4>3, WritesKeepPeople DEF RequestInv
      <4>5. PeopleInv(Untouched, InitialStaff, y)
        BY <4>2, <4>4, PeopleUnderStaffing
      <4>6. \A q \in Ids : req'[q] = IF q = r THEN y ELSE req[q]
        BY <3>2 DEF VersionInv, TypeOK
      <4>7. QED
        BY <4>5, <4>6 DEF PeopleKept
    <3>3. QED
      BY <3>1, <3>2, StepWrites DEF RequestWritten
  <2>3. \A q \in Ids : PeopleInv(Untouched', InitialStaff, req'[q])
    BY <2>1, <2>2, PeopleUnderStaffing
  <2>4. QED
    BY <2>1, <2>3 DEF PeopleKept
<1>3. QED
  BY <1>1, <1>2, VersionInvHolds, RequestInvHolds, PTL DEF Spec

\* The handler of an open request can take its next step, unless an
\* administrator has written to that handler's row: neither a commit under old
\* employee rows nor a write to somebody else takes the request out of its reach.
THEOREM HandlersCanAct == Spec => []HandlerCanAct
<1>1. VersionInv /\ RequestInv /\ PeopleKept => HandlerCanAct
  <2> SUFFICES ASSUME VersionInv, RequestInv, PeopleKept, NEW r \in Ids, NEW op \in DOMAIN Rules,
                      req[r].status = Rules[op].from, req[r].handler \notin Touched
               PROVE  IsActor(staff, req[r].handler, req[r], Rules[op])
    BY DEF HandlerCanAct
  <2>1. op \in Operations
    BY DEF Rules, Operations
  <2>2. req[r].handler \in Employees
    BY <2>1, RulesTable DEF PeopleKept, PeopleInv, Operations
  <2>3. HistoryInv(req[r]) /\ PeopleInv(Untouched, staff, req[r]) /\ req[r].handler \in Untouched
    BY <2>2, PeopleUnderStaffing DEF RequestInv, PeopleKept, StaffKept, Untouched
  <2>4. CASE op \in {"SUBMIT_REVIEW", "RESUBMIT_REVIEW"}
    <3>1. req[r].status \in {"DRAFT", "REJECTED"} /\ Rules[op].role = "APPLICANT"
      BY <2>1, <2>4, RulesTable, RulesRoles
    <3>2. QED
      BY <2>3, <3>1 DEF IsActor, HistoryInv, PeopleInv
  <2>5. CASE op \in {"REJECT", "SUBMIT_PURCHASER"}
    <3>1. req[r].status = "PENDING_REVIEW" /\ Rules[op].role = "BUILDING_MANAGER"
      BY <2>1, <2>5, RulesTable, RulesRoles
    <3>2. QED
      BY <2>3, <3>1 DEF IsActor, PeopleInv, IsValidHandler, BelongsTo
  <2>6. CASE op \in {"START_PURCHASE", "SUBMIT_WAREHOUSE"}
    <3>1. req[r].status \in {"PENDING_PURCHASE", "PURCHASING"} /\ Rules[op].role = "PURCHASER"
      BY <2>1, <2>6, RulesTable, RulesRoles
    <3>2. QED
      BY <2>3, <3>1 DEF IsActor, PeopleInv
  <2>7. CASE op = "COMPLETE"
    <3>1. req[r].status = "PENDING_WAREHOUSE" /\ Rules[op].role = "WAREHOUSE_MANAGER"
      BY <2>1, <2>7, RulesTable, RulesRoles
    <3>2. QED
      BY <2>3, <3>1 DEF IsActor, PeopleInv
  <2>8. QED
    BY <2>1, <2>4, <2>5, <2>6, <2>7 DEF Operations
<1>2. QED
  BY <1>1, VersionInvHolds, RequestInvHolds, PeopleKeptHolds, PTL

\* Completing a request notifies its applicant, its approver and its purchaser
\* and nobody else; one is left out only if an administrator wrote to that row.
THEOREM CompletionIsNotified == Spec => []CompletionNotified
<1>1. VersionInv /\ RequestInv /\ PeopleKept => CompletionNotified
  <2> SUFFICES ASSUME VersionInv, RequestInv, PeopleKept, NEW r \in Ids
               PROVE  LET a == req[r]
                      IN  /\ a.status # "COMPLETED" => a.notified = {}
                          /\ a.status = "COMPLETED" =>
                                /\ a.notified \subseteq Concerned(a)
                                /\ Concerned(a) \ Touched \subseteq a.notified
    BY DEF CompletionNotified
  <2>1. PeopleInv(Untouched, InitialStaff, req[r])
    BY DEF PeopleKept
  <2>2. CASE req[r].status # "COMPLETED"
    BY <2>1, <2>2 DEF PeopleInv
  <2>3. CASE req[r].status = "COMPLETED"
    <3>1. Concerned(req[r]) = Told(req[r])
      BY <2>1, <2>3 DEF PeopleInv, Concerned, Approvers, Told, Bought
    <3>2. req[r].execution # NoExecution
      BY <2>3 DEF RequestInv, EvidenceInv
    <3>3. Told(req[r]) \subseteq Employees
      BY <2>1, <2>3, <3>2 DEF PeopleInv, Sits, Told, Bought
    <3>4. QED
      BY <2>1, <2>3, <3>1, <3>3 DEF PeopleInv, Untouched
  <2>4. QED
    BY <2>2, <2>3
<1>2. QED
  BY <1>1, VersionInvHolds, RequestInvHolds, PeopleKeptHolds, PTL
=============================================================================
