---------------------------- MODULE Notifications ----------------------------
(***************************************************************************)
(* The notification outbox: the rows a completed request leaves behind,    *)
(* the runs that send them (app/workers/notifications.py, or an            *)
(* administrator's dispatch-due) and the administrator's resend.           *)
(*                                                                         *)
(* A run is one transaction around all of its HTTP calls: it locks the due *)
(* rows nobody holds (FOR UPDATE SKIP LOCKED), sends them one after the    *)
(* other and commits what became of them at the end, so a crash forgets    *)
(* every row of the run and takes back no call.                            *)
(*                                                                         *)
(* Times are relative: "wait" is what is left until next_retry_at, "age"   *)
(* how long ago the run read its clock.                                    *)
(***************************************************************************)
EXTENDS Integers, FiniteSets

CONSTANTS
    Count,          \* the rows are 1..Count, in the order of created_at
    Runs,           \* dispatch transactions that can be open at the same time
    BatchSize,      \* notification_worker_batch_size
    MaxRetries,     \* notification_max_retries
    RetryBase,      \* notification_retry_base_seconds
    RetryMax,       \* notification_retry_max_seconds
    MaxCrashes,     \* bound: runs that end without a commit
    MaxResends      \* bound: resends

ASSUME NotificationsAssumption ==
    /\ Count \in Nat /\ BatchSize \in Nat \ {0}
    /\ MaxRetries \in Nat \ {0}
    /\ RetryBase \in Nat /\ RetryMax \in Nat
    /\ MaxCrashes \in Nat /\ MaxResends \in Nat

Notices == 1..Count

VARIABLES
    row,        \* notification_outbox as committed
    run,        \* the open transaction of each run
    accepted,   \* how often the gateway has accepted each notice
    crashes, resends

vars == <<row, run, accepted, crashes, resends>>

Never == -1     \* next_retry_at IS NULL

Row == [status : {"ABSENT", "PENDING", "FAILED", "SENT"},
        retries : 0..MaxRetries, wait : 0..RetryMax \cup {Never}]

Unsent == [status |-> "ABSENT", retries |-> 0, wait |-> Never]

\* todo is claimed and not yet sent; wrote is what the run will commit, Unsent
\* for the rows it has not written.
Run == [age : 0..RetryMax, todo : SUBSET Notices, wrote : [Notices -> Row]]

NoRun == [age |-> 0, todo |-> {}, wrote |-> [n \in Notices |-> Unsent]]

Written(w) == {n \in Notices : run[w].wrote[n] # Unsent}

Locked(w) == run[w].todo \cup Written(w)

TypeOK ==
    /\ row \in [Notices -> Row]
    /\ run \in [Runs -> Run]
    /\ accepted \in [Notices -> Nat]
    /\ crashes \in 0..MaxCrashes /\ resends \in 0..MaxResends

Init ==
    /\ row = [n \in Notices |-> Unsent]
    /\ run = [w \in Runs |-> NoRun]
    /\ accepted = [n \in Notices |-> 0]
    /\ crashes = 0 /\ resends = 0

-----------------------------------------------------------------------------
\* _create_completion_notifications
Enqueue(n) ==
    /\ row[n].status = "ABSENT"
    /\ \A m \in 1..(n - 1) : row[m].status # "ABSENT"
    /\ row' = [row EXCEPT ![n] = [Unsent EXCEPT !.status = "PENDING"]]
    /\ UNCHANGED <<run, accepted, crashes, resends>>

-----------------------------------------------------------------------------
(***************************************************************************)
(* A run.                                                                  *)
(***************************************************************************)
Due(n) ==
    /\ row[n].retries < MaxRetries
    /\ \/ row[n].status = "PENDING"
       \/ row[n].status = "FAILED" /\ row[n].wait = 0

Free == {n \in Notices : Due(n) /\ \A w \in Runs : n \notin Locked(w)}

\* The oldest of a set of rows, as many as a batch holds.
Batch(S) == {n \in S : Cardinality({m \in S : m < n}) < BatchSize}

\* Fault: the rows are read without FOR UPDATE.
ClaimUnlocked(w) ==
    /\ run[w] = NoRun
    /\ {n \in Notices : Due(n)} # {}
    /\ run' = [run EXCEPT ![w].todo = Batch({n \in Notices : Due(n)})]
    /\ UNCHANGED <<row, accepted, crashes, resends>>

\* claim_due; a run that finds nothing changes nothing.
Claim(w) ==
    /\ run[w] = NoRun
    /\ Free # {}
    /\ run' = [run EXCEPT ![w].todo = Batch(Free)]
    /\ UNCHANGED <<row, accepted, crashes, resends>>

RetryDelay(retries) ==
    LET delay == RetryBase * 2 ^ (retries - 1)
    IN  IF delay \in 0..RetryMax THEN delay ELSE RetryMax

\* What is left of the k-th delay, which counts from the time the run began.
WaitAfter(k, age) == IF RetryDelay(k) > age THEN RetryDelay(k) - age ELSE 0

\* Fault: the last retry is followed by a delay as well.
FailedOnceMore(n, age) ==
    [status |-> "FAILED", retries |-> row[n].retries + 1,
     wait |-> WaitAfter(row[n].retries + 1, age)]

Failed(n, age) ==
    LET k == row[n].retries + 1
    IN  [status |-> "FAILED", retries |-> k,
         wait |-> IF k >= MaxRetries THEN Never ELSE WaitAfter(k, age)]

Sent(n) == [row[n] EXCEPT !.status = "SENT", !.wait = Never]

Writes(w, n, r) ==
    run' = [run EXCEPT ![w].todo = @ \ {n}, ![w].wrote = [@ EXCEPT ![n] = r]]

\* The oldest notice of the run: the gateway accepts it, or accepts it and the
\* answer is lost, or does not get it.
Send(w) ==
    \E n \in run[w].todo :
        /\ \A m \in run[w].todo : n <= m
        /\ \/ /\ accepted' = [accepted EXCEPT ![n] = @ + 1]
              /\ Writes(w, n, Sent(n)) \/ Writes(w, n, Failed(n, run[w].age))
           \/ /\ Writes(w, n, Failed(n, run[w].age))
              /\ UNCHANGED accepted
        /\ UNCHANGED <<row, crashes, resends>>

Commit(w) ==
    /\ run[w] # NoRun /\ run[w].todo = {}
    /\ row' = [n \in Notices |-> IF n \in Written(w) THEN run[w].wrote[n] ELSE row[n]]
    /\ run' = [run EXCEPT ![w] = NoRun]
    /\ UNCHANGED <<accepted, crashes, resends>>

\* The process dies, or the database refuses the flush.
Crash(w) ==
    /\ run[w] # NoRun /\ crashes < MaxCrashes
    /\ run' = [run EXCEPT ![w] = NoRun]
    /\ crashes' = crashes + 1
    /\ UNCHANGED <<row, accepted, resends>>

-----------------------------------------------------------------------------
\* Fault: a resent row keeps its retries.
ResendKeepsCount(n) ==
    /\ resends < MaxResends
    /\ \A w \in Runs : n \notin Locked(w)
    /\ row[n].status = "FAILED"
    /\ row' = [row EXCEPT ![n].status = "PENDING", ![n].wait = Never]
    /\ resends' = resends + 1
    /\ UNCHANGED <<run, accepted, crashes>>

\* An administrator's resend waits for the row's lock and reads it FOR UPDATE.  The
\* row it adds to the request's log is Procurement's ResendNotification.
Resend(n) ==
    /\ resends < MaxResends
    /\ \A w \in Runs : n \notin Locked(w)
    /\ row[n].status = "FAILED"
    /\ row' = [row EXCEPT ![n] = [Unsent EXCEPT !.status = "PENDING"]]
    /\ resends' = resends + 1
    /\ UNCHANGED <<run, accepted, crashes>>

Later(r) == IF r.wait > 0 THEN [r EXCEPT !.wait = @ - 1] ELSE r

\* Time passes: for the rows, and for the runs that began before.
Tick ==
    /\ row' = [n \in Notices |-> Later(row[n])]
    /\ run' = [w \in Runs |->
                 IF run[w] = NoRun THEN NoRun
                 ELSE [run[w] EXCEPT
                         !.age = IF @ < RetryMax THEN @ + 1 ELSE @,
                         !.wrote = [n \in Notices |-> Later(@[n])]]]
    /\ UNCHANGED <<accepted, crashes, resends>>

Next ==
    \/ \E n \in Notices : Enqueue(n) \/ Resend(n)
    \/ \E w \in Runs : Claim(w) \/ Send(w) \/ Commit(w) \/ Crash(w)
    \/ Tick

Spec == Init /\ [][Next]_vars

\* Time passes, someone starts runs, and a run's calls time out.
Fairness ==
    /\ WF_vars(Tick)
    /\ WF_vars(\E w \in Runs : Claim(w))
    /\ \A w \in Runs : WF_vars(Send(w)) /\ WF_vars(Commit(w))

FairSpec == Spec /\ Fairness

-----------------------------------------------------------------------------
(***************************************************************************)
(* Properties.                                                             *)
(***************************************************************************)

GivenUp(n) == row[n].status = "FAILED" /\ row[n].wait = Never

\* What the outbox calls sent has been accepted by the gateway, and from then
\* on no run sends it again or gives it another status, whatever runs were
\* under way.
SentIsFinal ==
    [][\A n \in Notices : row[n].status = "SENT" =>
          accepted[n] > 0 /\ accepted'[n] = accepted[n] /\ row'[n] = row[n]]_vars

\* No notice is stranded: a pending one has retries left, a failed one is
\* given up exactly when it has none, and only a failed one, which an
\* administrator may resend, is ever given up.
NeverStranded ==
    \A n \in Notices :
        /\ row[n].status = "PENDING" => row[n].retries < MaxRetries
        /\ row[n].status = "FAILED" => (GivenUp(n) <=> row[n].retries = MaxRetries)

\* Every notice of a completed request is sent or given up after its retries.
EventuallySettled ==
    \A n \in Notices :
        row[n].status = "PENDING" ~> row[n].status = "SENT" \/ GivenUp(n)
=============================================================================
