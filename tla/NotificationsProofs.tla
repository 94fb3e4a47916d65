------------------------- MODULE NotificationsProofs -------------------------
(***************************************************************************)
(* Theorems about Notifications, for every number of rows and of runs, any *)
(* batch size and any retry policy.                                        *)
(*                                                                         *)
(* Both properties speak of committed rows, while what a run is about to   *)
(* commit is decided long before: the invariant therefore says of every    *)
(* row a run has written what the properties say of a committed one, and   *)
(* that no two runs hold the same row.                                     *)
(***************************************************************************)
EXTENDS Notifications, TLAPS

\* What a row says is so, in the table or in a run's unfinished
\* transaction; count is how often the gateway accepted it.
GoodRow(r, count) ==
    /\ r.status = "SENT" => count > 0 /\ r.wait = Never
    /\ r.status = "PENDING" => r.retries < MaxRetries
    /\ r.status = "FAILED" => (r.wait = Never <=> r.retries = MaxRetries)

RowsGood == \A n \in Notices : GoodRow(row[n], accepted[n])

\* A row is held by one run, which found it pending or failed with retries left.
HeldOnce == \A v, w \in Runs : v # w => Locked(v) \cap Locked(w) = {}

HeldOpen ==
    \A w \in Runs : \A n \in Locked(w) :
        row[n].status \in {"PENDING", "FAILED"} /\ row[n].retries < MaxRetries

WrittenGood ==
    \A w \in Runs : \A n \in Written(w) :
        /\ n \notin run[w].todo
        /\ run[w].wrote[n].status \in {"FAILED", "SENT"}
        /\ GoodRow(run[w].wrote[n], accepted[n])

OutboxInv == TypeOK /\ RowsGood /\ HeldOnce /\ HeldOpen /\ WrittenGood

\* The wait a failure leaves is within the bounds of next_retry_at.
LEMMA FailedType ==
    ASSUME TypeOK, NEW n \in Notices, NEW age \in 0..RetryMax,
           row[n].retries < MaxRetries
    PROVE  /\ Failed(n, age) \in Row
           /\ Failed(n, age).status = "FAILED"
           /\ Failed(n, age).wait = Never <=> Failed(n, age).retries = MaxRetries
<1> DEFINE k == row[n].retries + 1
<1>1. row[n] \in Row /\ k \in 1..MaxRetries
  BY NotificationsAssumption DEF TypeOK, Row
<1>2. RetryDelay(k) \in 0..RetryMax
  BY NotificationsAssumption DEF RetryDelay
<1>3. WaitAfter(k, age) \in 0..RetryMax
  BY <1>2, NotificationsAssumption DEF WaitAfter
<1> QED
  BY <1>1, <1>3, NotificationsAssumption DEF Failed, Row, Never

\* What the passing of time leaves of a row.
LEMMA LaterType ==
    ASSUME NEW r \in Row
    PROVE  /\ Later(r) \in Row
           /\ Later(r).status = r.status /\ Later(r).retries = r.retries
           /\ Later(r).wait = Never <=> r.wait = Never
           /\ r.wait = Never => Later(r) = r
<1>1. r.wait \in 0..RetryMax \cup {Never}
  BY DEF Row
<1>2. CASE r.wait > 0
  <2>1. Later(r) = [r EXCEPT !.wait = @ - 1]
    BY <1>2 DEF Later
  <2>2. r.wait - 1 \in 0..RetryMax /\ r.wait # Never
    BY <1>1, <1>2, NotificationsAssumption DEF Never
  <2> QED
    BY <2>1, <2>2 DEF Row, Never
<1>3. CASE ~(r.wait > 0)
  BY <1>3 DEF Later
<1> QED
  BY <1>2, <1>3

\* An outbox without rows keeps the invariant.
THEOREM Initially == Init => OutboxInv
<1> SUFFICES ASSUME Init PROVE OutboxInv
  OBVIOUS
<1>1. Unsent \in Row
  BY NotificationsAssumption DEF Unsent, Row
<1>2. NoRun \in Run
  BY <1>1, NotificationsAssumption DEF NoRun, Run
<1>3. \A w \in Runs : Locked(w) = {} /\ Written(w) = {}
  BY DEF Init, Locked, Written, NoRun
<1>4. TypeOK
  BY <1>1, <1>2, NotificationsAssumption DEF TypeOK, Init
<1>5. RowsGood
  BY DEF Init, RowsGood, GoodRow, Unsent
<1> QED
  BY <1>3, <1>4, <1>5 DEF OutboxInv, HeldOnce, HeldOpen, WrittenGood

\* A run that ends, or begins, frees no row another run holds and holds none twice.
LEMMA UnlockedRowChanges ==
    ASSUME OutboxInv, NEW n \in Notices, NEW r \in Row,
           \A w \in Runs : n \notin Locked(w),
           row' = [row EXCEPT ![n] = r], r.status = "PENDING", r.retries = 0,
           UNCHANGED <<run, accepted>>, crashes' \in 0..MaxCrashes,
           resends' \in 0..MaxResends
    PROVE  OutboxInv'
<1> USE DEF OutboxInv
<1>1. TypeOK'
  BY DEF TypeOK
<1>2. \A w \in Runs : Locked(w)' = Locked(w) /\ Written(w)' = Written(w)
  BY DEF Locked, Written
<1>3. RowsGood'
  <2> SUFFICES ASSUME NEW m \in Notices PROVE GoodRow(row'[m], accepted'[m])
    BY DEF RowsGood
  <2>1. CASE m = n
    BY <2>1, NotificationsAssumption DEF GoodRow, TypeOK
  <2>2. CASE m # n
    BY <2>2 DEF GoodRow, RowsGood, TypeOK
  <2> QED
    BY <2>1, <2>2
<1>4. HeldOnce' /\ WrittenGood'
  BY <1>2 DEF HeldOnce, WrittenGood, GoodRow
<1>5. HeldOpen'
  BY <1>2 DEF HeldOpen, TypeOK
<1> QED
  BY <1>1, <1>3, <1>4, <1>5

LEMMA EnqueueKeeps ==
    ASSUME OutboxInv, NEW n \in Notices, Enqueue(n)
    PROVE  OutboxInv'
<1> DEFINE r == [Unsent EXCEPT !.status = "PENDING"]
<1>1. r \in Row /\ r.status = "PENDING" /\ r.retries = 0
  BY NotificationsAssumption DEF Unsent, Row
<1>2. \A w \in Runs : n \notin Locked(w)
  BY DEF Enqueue, OutboxInv, HeldOpen
<1> QED
  BY <1>1, <1>2, UnlockedRowChanges DEF Enqueue, OutboxInv, TypeOK

LEMMA ResendKeeps ==
    ASSUME OutboxInv, NEW n \in Notices, Resend(n)
    PROVE  OutboxInv'
<1> DEFINE r == [Unsent EXCEPT !.status = "PENDING"]
<1>1. r \in Row /\ r.status = "PENDING" /\ r.retries = 0
  BY NotificationsAssumption DEF Unsent, Row
<1>2. crashes' \in 0..MaxCrashes /\ resends' \in 0..MaxResends
  BY NotificationsAssumption DEF Resend, OutboxInv, TypeOK
<1> QED
  BY <1>1, <1>2, UnlockedRowChanges DEF Resend

LEMMA ClaimKeeps ==
    ASSUME OutboxInv, NEW w \in Runs, Claim(w)
    PROVE  OutboxInv'
<1> USE DEF OutboxInv
<1>1. Batch(Free) \subseteq Free /\ Free \subseteq Notices
  BY DEF Batch, Free
<1>2. run[w].todo = {} /\ Written(w) = {} /\ Locked(w) = {}
  BY DEF Claim, NoRun, Locked, Written
<1>3. run'[w].todo = Batch(Free) /\ run'[w].wrote = run[w].wrote
  BY DEF Claim, TypeOK, Run
<1>4. \A v \in Runs : v # w => run'[v] = run[v]
  BY DEF Claim, TypeOK
<1>5. \A v \in Runs : Written(v)' = Written(v)
  BY <1>3, <1>4 DEF Written
<1>6. Locked(w)' = Batch(Free) /\ \A v \in Runs : v # w => Locked(v)' = Locked(v)
  BY <1>2, <1>3, <1>4, <1>5 DEF Locked
<1>7. TypeOK'
  BY <1>1 DEF Claim, TypeOK, Run
<1>8. RowsGood'
  BY DEF Claim, RowsGood, GoodRow
<1>9. HeldOnce'
  BY <1>1, <1>6 DEF HeldOnce, Free
<1>10. HeldOpen'
  <2>1. \A n \in Free : row[n].status \in {"PENDING", "FAILED"} /\ row[n].retries < MaxRetries
    BY DEF Free, Due
  <2> QED
    BY <1>1, <1>6, <2>1 DEF HeldOpen, Claim
<1>11. WrittenGood'
  BY <1>2, <1>4, <1>5 DEF WrittenGood, Claim, GoodRow
<1> QED
  BY <1>7, <1>8, <1>9, <1>10, <1>11

LEMMA SendKeeps ==
    ASSUME OutboxInv, NEW w \in Runs, Send(w)
    PROVE  OutboxInv'
<1> USE DEF OutboxInv
<1>1. PICK n \in run[w].todo :
         /\ \/ /\ accepted' = [accepted EXCEPT ![n] = @ + 1]
               /\ Writes(w, n, Sent(n)) \/ Writes(w, n, Failed(n, run[w].age))
            \/ /\ Writes(w, n, Failed(n, run[w].age))
               /\ UNCHANGED accepted
         /\ UNCHANGED <<row, crashes, resends>>
  BY DEF Send
<1>2. n \in Notices /\ n \in Locked(w) /\ run[w].age \in 0..RetryMax
  BY DEF TypeOK, Run, Locked
<1>3. row[n].status \in {"PENDING", "FAILED"} /\ row[n].retries < MaxRetries
  BY <1>2 DEF HeldOpen
<1>4. /\ accepted' \in [Notices -> Nat]
      /\ \A m \in Notices : accepted[m] > 0 => accepted'[m] > 0
      /\ \A m \in Notices : m # n => accepted'[m] = accepted[m]
  BY <1>1, <1>2 DEF TypeOK
<1>5. PICK r \in Row :
         Writes(w, n, r) /\ r.status \in {"FAILED", "SENT"} /\ GoodRow(r, accepted'[n])
  <2>1. CASE Writes(w, n, Failed(n, run[w].age))
    <3>1. /\ Failed(n, run[w].age) \in Row
          /\ Failed(n, run[w].age).status = "FAILED"
          /\ Failed(n, run[w].age).wait = Never
                <=> Failed(n, run[w].age).retries = MaxRetries
      BY <1>2, <1>3, FailedType
    <3> QED
      BY <2>1, <3>1 DEF GoodRow
  <2>2. CASE /\ accepted' = [accepted EXCEPT ![n] = @ + 1]
             /\ Writes(w, n, Sent(n))
    <3>1. Sent(n) \in Row /\ Sent(n).status = "SENT" /\ Sent(n).wait = Never
      BY <1>2 DEF Sent, TypeOK, Row
    <3>2. accepted'[n] > 0
      BY <1>2, <2>2 DEF TypeOK
    <3> QED
      BY <2>2, <3>1, <3>2 DEF GoodRow
  <2> QED
    BY <1>1, <2>1, <2>2
<1>6. /\ run'[w].todo = run[w].todo \ {n}
      /\ run'[w].wrote = [run[w].wrote EXCEPT ![n] = r]
      /\ run'[w].age = run[w].age
      /\ \A v \in Runs : v # w => run'[v] = run[v]
  BY <1>5 DEF Writes, TypeOK, Run
<1>7. r # Unsent
  BY <1>5 DEF Unsent
<1>8. Written(w)' = Written(w) \cup {n} /\ \A v \in Runs : v # w => Written(v)' = Written(v)
  BY <1>2, <1>6, <1>7 DEF Written, TypeOK, Run
<1>9. \A v \in Runs : Locked(v)' = Locked(v)
  BY <1>1, <1>6, <1>8 DEF Locked
<1>10. TypeOK'
  BY <1>1, <1>2, <1>4, <1>5 DEF Writes, TypeOK, Run
<1>11. RowsGood'
  BY <1>1, <1>4 DEF RowsGood, GoodRow
<1>12. HeldOnce' /\ HeldOpen'
  BY <1>1, <1>9 DEF HeldOnce, HeldOpen
<1>13. WrittenGood'
  <2> SUFFICES ASSUME NEW v \in Runs, NEW m \in Written(v)'
               PROVE  /\ m \notin run'[v].todo
                      /\ run'[v].wrote[m].status \in {"FAILED", "SENT"}
                      /\ GoodRow(run'[v].wrote[m], accepted'[m])
    BY DEF WrittenGood
  <2>1. CASE v = w /\ m = n
    BY <1>2, <1>5, <1>6, <2>1 DEF TypeOK, Run
  <2>2. CASE ~(v = w /\ m = n)
    <3>1. m \in Written(v) /\ m \in Notices
      BY <1>8, <2>2 DEF Written
    <3>2. run'[v].wrote[m] = run[v].wrote[m] /\ run'[v].todo \subseteq run[v].todo
      BY <1>6, <2>2, <3>1 DEF TypeOK, Run
    <3> QED
      BY <1>4, <3>1, <3>2 DEF WrittenGood, GoodRow
  <2> QED
    BY <2>1, <2>2
<1> QED
  BY <1>10, <1>11, <1>12, <1>13

\* A run that lets go of its rows, whether or not it wrote them.
LEMMA EndOfRun ==
    ASSUME OutboxInv, NEW w \in Runs,
           run' = [run EXCEPT ![w] = NoRun], UNCHANGED accepted,
           row' \in [Notices -> Row],
           \A n \in Notices : \/ row'[n] = row[n]
                              \/ n \in Written(w) /\ row'[n] = run[w].wrote[n],
           crashes' \in 0..MaxCrashes, resends' \in 0..MaxResends
    PROVE  OutboxInv'
<1> USE DEF OutboxInv
<1>1. NoRun \in Run
  BY NotificationsAssumption DEF NoRun, Run, Row, Unsent
<1>2. run'[w] = NoRun /\ \A v \in Runs : v # w => run'[v] = run[v]
  BY DEF TypeOK
<1>3. Written(w)' = {} /\ Locked(w)' = {}
  BY <1>2 DEF Written, Locked, NoRun
<1>4. \A v \in Runs : v # w => Written(v)' = Written(v) /\ Locked(v)' = Locked(v)
  BY <1>2 DEF Written, Locked
<1>5. TypeOK'
  BY <1>1 DEF TypeOK
<1>6. RowsGood'
  <2> SUFFICES ASSUME NEW n \in Notices PROVE GoodRow(row'[n], accepted'[n])
    BY DEF RowsGood
  <2> QED
    BY DEF RowsGood, WrittenGood
<1>7. HeldOnce'
  BY <1>3, <1>4 DEF HeldOnce
<1>8. HeldOpen'
  <2> SUFFICES ASSUME NEW v \in Runs, NEW n \in Locked(v)'
               PROVE  row'[n].status \in {"PENDING", "FAILED"} /\ row'[n].retries < MaxRetries
    BY DEF HeldOpen
  <2>1. v # w /\ n \in Locked(v)
    BY <1>3, <1>4
  <2>2. n \notin Written(w) /\ n \in Notices
    BY <2>1 DEF HeldOnce, Locked, Written, TypeOK, Run
  <2> QED
    BY <2>1, <2>2 DEF HeldOpen
<1>9. WrittenGood'
  BY <1>2, <1>3, <1>4 DEF WrittenGood
<1> QED
  BY <1>5, <1>6, <1>7, <1>8, <1>9

LEMMA CommitKeeps ==
    ASSUME OutboxInv, NEW w \in Runs, Commit(w)
    PROVE  OutboxInv'
<1>1. row' \in [Notices -> Row]
  BY DEF Commit, OutboxInv, TypeOK, Run
<1>2. \A n \in Notices : \/ row'[n] = row[n]
                         \/ n \in Written(w) /\ row'[n] = run[w].wrote[n]
  BY DEF Commit
<1> QED
  BY <1>1, <1>2, EndOfRun DEF Commit, OutboxInv, TypeOK

LEMMA CrashKeeps ==
    ASSUME OutboxInv, NEW w \in Runs, Crash(w)
    PROVE  OutboxInv'
<1>1. row' \in [Notices -> Row] /\ resends' \in 0..MaxResends
  BY DEF Crash, OutboxInv, TypeOK
<1>2. crashes' \in 0..MaxCrashes
  BY NotificationsAssumption DEF Crash, OutboxInv, TypeOK
<1> QED
  BY <1>1, <1>2, EndOfRun DEF Crash

LEMMA TickKeeps ==
    ASSUME OutboxInv, Tick
    PROVE  OutboxInv'
<1> USE DEF OutboxInv
<1>1. ASSUME NEW n \in Notices
      PROVE  /\ row'[n] \in Row /\ row'[n].status = row[n].status
             /\ row'[n].retries = row[n].retries
             /\ row'[n].wait = Never <=> row[n].wait = Never
  BY LaterType DEF Tick, TypeOK
<1>2. ASSUME NEW w \in Runs
      PROVE  /\ run'[w] \in Run /\ run'[w].todo = run[w].todo
             /\ \A n \in Notices :
                   /\ run'[w].wrote[n].status = run[w].wrote[n].status
                   /\ run'[w].wrote[n].retries = run[w].wrote[n].retries
                   /\ run'[w].wrote[n].wait = Never <=> run[w].wrote[n].wait = Never
                   /\ run[w].wrote[n].wait = Never =>
                         run'[w].wrote[n] = run[w].wrote[n]
  <2>1. CASE run[w] = NoRun
    BY <2>1 DEF Tick, TypeOK
  <2>2. CASE run[w] # NoRun
    <3>1. run'[w] = [run[w] EXCEPT !.age = IF @ < RetryMax THEN @ + 1 ELSE @,
                                   !.wrote = [n \in Notices |-> Later(@[n])]]
      BY <2>2 DEF Tick
    <3>2. /\ run'[w].todo = run[w].todo
          /\ run'[w].wrote = [n \in Notices |-> Later(run[w].wrote[n])]
          /\ run'[w].age \in 0..RetryMax
      BY <3>1, NotificationsAssumption DEF TypeOK, Run
    <3>3. run[w].wrote \in [Notices -> Row] /\ run[w].todo \in SUBSET Notices
      BY DEF TypeOK, Run
    <3>4. run'[w].wrote \in [Notices -> Row]
      BY <3>2, <3>3, LaterType
    <3>5. run'[w] \in Run
      BY <3>1, <3>2, <3>3, <3>4 DEF Run, TypeOK
    <3> QED
      BY <3>2, <3>3, <3>5, LaterType
  <2> QED
    BY <2>1, <2>2
<1>3. \A w \in Runs : Written(w)' = Written(w)
  <2> SUFFICES ASSUME NEW w \in Runs, NEW n \in Notices
               PROVE  run'[w].wrote[n] = Unsent <=> run[w].wrote[n] = Unsent
    BY DEF Written
  <2>1. run[w].wrote[n] \in Row /\ run'[w].wrote[n] \in Row
    BY <1>2 DEF TypeOK, Run
  <2>2. Unsent.wait = Never
    BY DEF Unsent
  <2>3. run'[w].wrote[n].wait = Never => run'[w].wrote[n] = run[w].wrote[n]
    BY <1>2
  <2> QED
    BY <1>2, <2>2, <2>3
<1>4. \A w \in Runs : Locked(w)' = Locked(w)
  BY <1>2, <1>3 DEF Locked
<1>5. row' \in [Notices -> Row] /\ run' \in [Runs -> Run]
  BY <1>1, <1>2 DEF Tick
<1>6. TypeOK'
  BY <1>5 DEF Tick, TypeOK
<1>7. RowsGood'
  BY <1>1 DEF Tick, RowsGood, GoodRow
<1>8. HeldOnce'
  BY <1>4 DEF HeldOnce
<1>9. HeldOpen'
  <2>1. \A w \in Runs : Locked(w) \subseteq Notices
    BY DEF Locked, Written, TypeOK, Run
  <2> QED
    BY <1>1, <1>4, <2>1 DEF HeldOpen
<1>10. WrittenGood'
  <2> SUFFICES ASSUME NEW w \in Runs, NEW n \in Written(w)
               PROVE  /\ n \notin run'[w].todo
                      /\ run'[w].wrote[n].status \in {"FAILED", "SENT"}
                      /\ GoodRow(run'[w].wrote[n], accepted'[n])
    BY <1>3 DEF WrittenGood
  <2>1. n \in Notices /\ accepted' = accepted
    BY DEF Written, Tick
  <2>2. /\ n \notin run[w].todo
        /\ run[w].wrote[n].status \in {"FAILED", "SENT"}
        /\ GoodRow(run[w].wrote[n], accepted[n])
    BY DEF WrittenGood
  <2> QED
    BY <1>2, <2>1, <2>2 DEF GoodRow
<1> QED
  BY <1>6, <1>7, <1>8, <1>9, <1>10

\* So does every step of the dispatcher, of a resend and of a crash.
THEOREM OutboxInductive == OutboxInv /\ [Next]_vars => OutboxInv'
<1> SUFFICES ASSUME OutboxInv, [Next]_vars PROVE OutboxInv'
  OBVIOUS
<1>1. ASSUME NEW n \in Notices, Enqueue(n) PROVE OutboxInv'
  BY <1>1, EnqueueKeeps
<1>2. ASSUME NEW n \in Notices, Resend(n) PROVE OutboxInv'
  BY <1>2, ResendKeeps
<1>3. ASSUME NEW w \in Runs, Claim(w) PROVE OutboxInv'
  BY <1>3, ClaimKeeps
<1>4. ASSUME NEW w \in Runs, Send(w) PROVE OutboxInv'
  BY <1>4, SendKeeps
<1>5. ASSUME NEW w \in Runs, Commit(w) PROVE OutboxInv'
  BY <1>5, CommitKeeps
<1>6. ASSUME NEW w \in Runs, Crash(w) PROVE OutboxInv'
  BY <1>6, CrashKeeps
<1>7. CASE Tick
  BY <1>7, TickKeeps
<1>8. CASE UNCHANGED vars
  BY <1>8 DEF vars, OutboxInv, TypeOK, RowsGood, GoodRow, HeldOnce, HeldOpen,
              WrittenGood, Locked, Written
<1> QED
  BY <1>1, <1>2, <1>3, <1>4, <1>5, <1>6, <1>7, <1>8 DEF Next

\* No notice is ever stranded, however runs, crashes and resends interleave
\* (NotificationService.dispatch_due and resend).
THEOREM NoNoticeStranded == Spec => []NeverStranded
<1>1. OutboxInv => NeverStranded
  BY DEF OutboxInv, RowsGood, GoodRow, NeverStranded, GivenUp
<1> QED
  BY <1>1, Initially, OutboxInductive, PTL DEF Spec

\* What a step does to a row that is recorded as sent.
LEMMA SentStays ==
    ASSUME OutboxInv, [Next]_vars, NEW n \in Notices, row[n].status = "SENT"
    PROVE  accepted[n] > 0 /\ accepted'[n] = accepted[n] /\ row'[n] = row[n]
<1> USE DEF OutboxInv
<1>1. accepted[n] > 0 /\ row[n].wait = Never /\ row[n] \in Row
  BY DEF RowsGood, GoodRow, TypeOK
<1>2. \A w \in Runs : n \notin Locked(w)
  BY DEF HeldOpen
<1>3. ASSUME NEW m \in Notices, Enqueue(m) \/ Resend(m)
      PROVE  accepted'[n] = accepted[n] /\ row'[n] = row[n]
  BY <1>3 DEF Enqueue, Resend, TypeOK
<1>4. ASSUME NEW w \in Runs, Claim(w) \/ Crash(w)
      PROVE  accepted'[n] = accepted[n] /\ row'[n] = row[n]
  BY <1>4 DEF Claim, Crash
<1>5. ASSUME NEW w \in Runs, Send(w)
      PROVE  accepted'[n] = accepted[n] /\ row'[n] = row[n]
  BY <1>2, <1>5 DEF Send, Locked, TypeOK
<1>6. ASSUME NEW w \in Runs, Commit(w)
      PROVE  accepted'[n] = accepted[n] /\ row'[n] = row[n]
  BY <1>2, <1>6 DEF Commit, Locked
<1>7. CASE Tick
  BY <1>1, <1>7, LaterType DEF Tick
<1>8. CASE UNCHANGED vars
  BY <1>1, <1>8 DEF vars
<1> QED
  BY <1>1, <1>3, <1>4, <1>5, <1>6, <1>7, <1>8 DEF Next

\* A notice recorded as sent was accepted by the gateway and is never sent
\* again, by any number of concurrent runs.
THEOREM SentForGood == Spec => SentIsFinal
<1>1. OutboxInv /\ [Next]_vars =>
        [\A n \in Notices : row[n].status = "SENT" =>
           accepted[n] > 0 /\ accepted'[n] = accepted[n] /\ row'[n] = row[n]]_vars
  BY SentStays
<1> QED
  BY <1>1, Initially, OutboxInductive, PTL DEF Spec, SentIsFinal
=============================================================================
