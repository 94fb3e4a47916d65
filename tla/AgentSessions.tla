---------------------------- MODULE AgentSessions ----------------------------
(***************************************************************************)
(* The agent sessions one employee opens under one external conversation   *)
(* id (app/services/agent_sessions.py): rows and snapshots in MySQL, the   *)
(* working state in Redis.                                                 *)
(*                                                                         *)
(* A request's first query fixes the view all its plain reads come from.   *)
(* SELECT ... FOR UPDATE reads the rows of the moment and locks them until *)
(* the transaction ends; Redis is written at once and never rolled back.   *)
(***************************************************************************)
EXTENDS Integers, FiniteSets, Sequences

CONSTANTS
    Requests,       \* HTTP requests, each made once
    Openers,        \* those of them that open a session
    MaxSessions,    \* bound: sessions opened
    MaxSaves,       \* bound: states saved in one session
    MaxLosses,      \* bound: states Redis loses or lets expire
    MaxCrashes      \* bound: requests cut off before their commit

ASSUME SessionsAssumption ==
    /\ Openers \subseteq Requests
    /\ MaxSessions \in Nat /\ MaxSaves \in Nat
    /\ MaxLosses \in Nat /\ MaxCrashes \in Nat

Sessions == 1..MaxSessions

\* A state is the number it was saved under and whether fields are missing: the
\* snapshot keeps the two in separate columns.
State == [data : Nat, missing : BOOLEAN]

Initial == [data |-> 0, missing |-> FALSE]

Lost == [data |-> 0, missing |-> TRUE]      \* no state in Redis: none is saved so

VARIABLES
    status,     \* of the sessions, committed
    snapshot,   \* the row of agent_session_state, committed
    message,    \* whether the message that is delivered again is stored
    redis,      \* agent:session:{id}
    history,    \* the states saved in each session, in their order
    opened,     \* ids given out
    request, rowLock, employeeLock,
    losses, crashes

vars == <<status, snapshot, message, redis, history, opened, request, rowLock,
          employeeLock, losses, crashes>>

Statuses == {"ABSENT", "ACTIVE", "COMPLETED"}

View == [status : [Sessions -> Statuses], snapshot : [Sessions -> State],
         message : [Sessions -> BOOLEAN]]

EmptyView == [status |-> [s \in Sessions |-> "ABSENT"],
              snapshot |-> [s \in Sessions |-> Initial],
              message |-> [s \in Sessions |-> FALSE]]

Operations == {"open", "message", "get", "save", "snapshot", "complete"}

\* read is the state the request found and works with.
Request == [pc : {"unsent", "begun", "restore", "writeback", "insert", "persist",
                  "commit", "done"},
            op : Operations \cup {"none"}, session : 0..MaxSessions, view : View,
            read : State, answer : {"none", "ok", "duplicate", "refused", "error"}]

TypeOK ==
    /\ status \in [Sessions -> Statuses]
    /\ snapshot \in [Sessions -> State]
    /\ message \in [Sessions -> BOOLEAN]
    /\ redis \in [Sessions -> State]
    /\ history \in [Sessions -> Seq(State)]
    /\ opened \in 0..MaxSessions
    /\ request \in [Requests -> Request]
    /\ rowLock \in [Sessions -> SUBSET Requests]
    /\ employeeLock \in SUBSET Requests
    /\ losses \in 0..MaxLosses /\ crashes \in 0..MaxCrashes

Init ==
    /\ status = EmptyView.status /\ snapshot = EmptyView.snapshot
    /\ message = EmptyView.message
    /\ redis = [s \in Sessions |-> Lost]
    /\ history = [s \in Sessions |-> <<>>]
    /\ opened = 0
    /\ request = [r \in Requests |->
         [pc |-> "unsent", op |-> "none", session |-> 0, view |-> EmptyView,
          read |-> Initial, answer |-> "none"]]
    /\ rowLock = [s \in Sessions |-> {}] /\ employeeLock = {}
    /\ losses = 0 /\ crashes = 0

Current == [status |-> status, snapshot |-> snapshot, message |-> message]

Moves(r, pc) == request' = [request EXCEPT ![r].pc = pc]

Finds(r, s, pc, state) ==
    request' = [request EXCEPT ![r] =
                  [@ EXCEPT !.pc = pc, !.session = s, !.read = state]]

\* What a request that has ended had read no longer matters.
Ends(r, answer) ==
    request' = [request EXCEPT ![r] =
                  [@ EXCEPT !.pc = "done", !.answer = answer, !.view = EmptyView,
                            !.read = Initial]]

Unlock(r) ==
    /\ rowLock' = [s \in Sessions |-> rowLock[s] \ {r}]
    /\ employeeLock' = employeeLock \ {r}

-----------------------------------------------------------------------------
\* get_current_user is the first query. A session's id is known once it is there.
Begin(r) ==
    /\ request[r].pc = "unsent"
    /\ \E op \in Operations, s \in 0..MaxSessions :
         /\ (op = "open") <=> (r \in Openers)
         /\ IF op = "open" THEN s = 0 ELSE s # 0 /\ status[s] # "ABSENT"
         /\ request' = [request EXCEPT ![r] =
              [@ EXCEPT !.pc = "begun", !.op = op, !.session = s, !.view = Current]]
    /\ UNCHANGED <<status, snapshot, message, redis, history, opened, rowLock,
                   employeeLock, losses, crashes>>

-----------------------------------------------------------------------------
(***************************************************************************)
(* get_or_create_active: under the lock of the employee's row.             *)
(***************************************************************************)
\* get_active_by_external_id is a plain read.
OpenSessions(r) == {s \in Sessions : request[r].view.status[s] = "ACTIVE"}

\* Fault: the snapshot is preferred to the state in Redis.
ReadStateOfSnapshot(r, s, next) ==
    Finds(r, s, "restore", request[r].view.snapshot[s])

\* _get_or_restore_state: from Redis, else from the snapshot of the view, which
\* it puts back into Redis.
ReadState(r, s, next) ==
    IF redis[s] # Lost THEN Finds(r, s, next, redis[s])
    ELSE Finds(r, s, "restore", request[r].view.snapshot[s])

OpenFound(r) ==
    \E s \in OpenSessions(r) :
        /\ ReadState(r, s, "writeback")
        /\ UNCHANGED <<redis, history, opened>>

\* The rows are inserted and the state is set; the rows are not yet committed.
OpenNew(r) ==
    LET s == opened + 1 IN
    /\ OpenSessions(r) = {}
    /\ opened < MaxSessions
    /\ opened' = s
    /\ redis' = [redis EXCEPT ![s] = Initial]
    /\ history' = [history EXCEPT ![s] = <<Initial>>]
    /\ Finds(r, s, "insert", Initial)

Open(r) ==
    /\ request[r].pc = "begun" /\ request[r].op = "open"
    /\ employeeLock = {}
    /\ employeeLock' = {r}
    /\ OpenFound(r) \/ OpenNew(r)
    /\ UNCHANGED <<status, snapshot, message, rowLock, losses, crashes>>

\* The new rows are committed.
CommitNew(r) ==
    LET s == request[r].session IN
    /\ request[r].pc = "insert"
    /\ status' = [status EXCEPT ![s] = "ACTIVE"]
    /\ snapshot' = [snapshot EXCEPT ![s] = Initial]
    /\ Ends(r, "ok") /\ Unlock(r)
    /\ UNCHANGED <<message, redis, history, opened, losses, crashes>>

\* The session was there: its state is set again, and the transaction ends.
WriteBack(r) ==
    /\ request[r].pc = "writeback"
    /\ redis' = [redis EXCEPT ![request[r].session] = request[r].read]
    /\ Ends(r, "ok") /\ Unlock(r)
    /\ UNCHANGED <<status, snapshot, message, history, opened, losses, crashes>>

-----------------------------------------------------------------------------
(***************************************************************************)
(* Requests about one session. All but get lock its row first.             *)
(***************************************************************************)
\* Fault: the status is the one the request's view shows.
LockedActiveInView(r) ==
    LET s == request[r].session IN
    rowLock[s] = {} /\ request[r].view.status[s] = "ACTIVE"

\* Fault: the row is read without FOR UPDATE.
ActiveUnlocked(r) == status[request[r].session] = "ACTIVE"

\* _owned_conversation(for_update=True) and _require_active.
LockedActive(r) ==
    LET s == request[r].session IN rowLock[s] = {} /\ status[s] = "ACTIVE"

\* The row is locked, and the session has been completed.
Refused(r) ==
    LET s == request[r].session IN
    /\ request[r].pc = "begun"
    /\ \/ /\ request[r].op \in {"message", "save", "snapshot", "complete"}
          /\ rowLock[s] = {} /\ status[s] # "ACTIVE"
       \/ request[r].op = "get" /\ request[r].view.status[s] # "ACTIVE"
    /\ Ends(r, "refused")
    /\ UNCHANGED <<status, snapshot, message, redis, history, opened, rowLock,
                   employeeLock, losses, crashes>>

\* add_message: looked up in the view, inserted under a unique key, committed.
AddMessage(r) ==
    LET s == request[r].session IN
    /\ request[r].pc = "begun" /\ request[r].op = "message"
    /\ LockedActive(r)
    /\ IF request[r].view.message[s]
       THEN Ends(r, "duplicate") /\ UNCHANGED message
       ELSE /\ message' = [message EXCEPT ![s] = TRUE]
            /\ Ends(r, IF message[s] THEN "error" ELSE "ok")
    /\ UNCHANGED <<status, snapshot, redis, history, opened, rowLock, employeeLock,
                   losses, crashes>>

\* save_state: the state of the moment is in Redis only.
SaveState(r) ==
    LET s == request[r].session IN
    /\ request[r].pc = "begun" /\ request[r].op = "save"
    /\ LockedActive(r)
    /\ Len(history[s]) <= MaxSaves
    /\ \E missing \in BOOLEAN :
         LET state == [data |-> Len(history[s]), missing |-> missing] IN
         /\ redis' = [redis EXCEPT ![s] = state]
         /\ history' = [history EXCEPT ![s] = Append(@, state)]
    /\ Ends(r, "ok")
    /\ UNCHANGED <<status, snapshot, message, opened, rowLock, employeeLock, losses,
                   crashes>>

\* get_state reads the session's row from the view and takes no lock.
GetState(r) ==
    LET s == request[r].session IN
    /\ request[r].pc = "begun" /\ request[r].op = "get"
    /\ request[r].view.status[s] = "ACTIVE"
    /\ IF redis[s] # Lost THEN Ends(r, "ok") ELSE ReadState(r, s, "restore")
    /\ UNCHANGED <<status, snapshot, message, redis, history, opened, rowLock,
                   employeeLock, losses, crashes>>

\* save_snapshot and complete: the state is read under the lock.
ReadLocked(r) ==
    LET s == request[r].session IN
    /\ request[r].pc = "begun" /\ request[r].op \in {"snapshot", "complete"}
    /\ LockedActive(r)
    /\ rowLock' = [rowLock EXCEPT ![s] = {r}]
    /\ ReadState(r, s, "persist")
    /\ UNCHANGED <<status, snapshot, message, redis, history, opened, employeeLock,
                   losses, crashes>>

\* The state of the snapshot is put back into Redis.
Restore(r) ==
    /\ request[r].pc = "restore"
    /\ redis' = [redis EXCEPT ![request[r].session] = request[r].read]
    /\ CASE request[r].op = "open" -> Moves(r, "writeback")
         [] request[r].op = "get"  -> Ends(r, "ok")
         [] OTHER                  -> Moves(r, "persist")
    /\ UNCHANGED <<status, snapshot, message, history, opened, rowLock, employeeLock,
                   losses, crashes>>

\* Of the row it loaded from its view, an UPDATE writes the columns that differ;
\* snapshot_reason is part of the first, and may.
Updated(row, loaded, state) ==
    {[data |-> d, missing |-> IF state.missing = loaded.missing THEN row.missing
                              ELSE state.missing] :
       d \in {state.data} \cup (IF state.data = loaded.data THEN {row.data} ELSE {})}

Persists(r, s) ==
    \E row \in Updated(snapshot[s], request[r].view.snapshot[s], request[r].read) :
        snapshot' = [snapshot EXCEPT ![s] = row]

SaveSnapshot(r) ==
    /\ request[r].pc = "persist" /\ request[r].op = "snapshot"
    /\ Persists(r, request[r].session)
    /\ Ends(r, "ok") /\ Unlock(r)
    /\ UNCHANGED <<status, message, redis, history, opened, losses, crashes>>

\* complete deletes the state from Redis before it commits.
DeleteState(r) ==
    /\ request[r].pc = "persist" /\ request[r].op = "complete"
    /\ redis' = [redis EXCEPT ![request[r].session] = Lost]
    /\ Moves(r, "commit")
    /\ UNCHANGED <<status, snapshot, message, history, opened, rowLock, employeeLock,
                   losses, crashes>>

Complete(r) ==
    /\ request[r].pc = "commit"
    /\ Persists(r, request[r].session)
    /\ status' = [status EXCEPT ![request[r].session] = "COMPLETED"]
    /\ Ends(r, "ok") /\ Unlock(r)
    /\ UNCHANGED <<message, redis, history, opened, losses, crashes>>

-----------------------------------------------------------------------------
\* The process ends, or the database refuses: MySQL rolls back, Redis does not.
Crash(r) ==
    /\ request[r].pc \in {"restore", "writeback", "insert", "persist", "commit"}
    /\ crashes < MaxCrashes /\ crashes' = crashes + 1
    /\ Ends(r, "error") /\ Unlock(r)
    /\ UNCHANGED <<status, snapshot, message, redis, history, opened, losses>>

\* Redis restarts empty, or the state is 72 hours old.
Lose(s) ==
    /\ losses < MaxLosses /\ losses' = losses + 1
    /\ redis[s] # Lost
    /\ redis' = [redis EXCEPT ![s] = Lost]
    /\ UNCHANGED <<status, snapshot, message, history, opened, request, rowLock,
                   employeeLock, crashes>>

Next ==
    \/ \E r \in Requests :
         \/ Begin(r) \/ Open(r) \/ CommitNew(r) \/ WriteBack(r) \/ Refused(r)
         \/ AddMessage(r) \/ SaveState(r) \/ GetState(r) \/ ReadLocked(r)
         \/ Restore(r) \/ SaveSnapshot(r) \/ DeleteState(r) \/ Complete(r) \/ Crash(r)
    \/ \E s \in Sessions : Lose(s)

Spec == Init /\ [][Next]_vars

-----------------------------------------------------------------------------
(***************************************************************************)
(* Properties.                                                             *)
(***************************************************************************)

\* Nothing is added to a session that was completed, however long before a
\* request began and whatever it read then.
CompletedIsFinal ==
    [][\A s \in Sessions : status[s] = "COMPLETED" =>
          /\ status'[s] = status[s] /\ snapshot'[s] = snapshot[s]
          /\ message'[s] = message[s] /\ history'[s] = history[s]]_vars

\* What an active session's next reader finds in Redis is what was saved last.
StateIsLatest ==
    \A s \in Sessions :
        status[s] = "ACTIVE" /\ rowLock[s] = {} /\ redis[s] # Lost =>
            redis[s] = history[s][Len(history[s])]

\* Nothing was lost or cut off, and the session was not opened again.
Undisturbed ==
    /\ losses = 0 /\ crashes = 0
    /\ \A q, r \in Openers :
         request[q].pc # "unsent" /\ request[r].pc # "unsent" => q = r

\* However its reads, saves, snapshots and completion overlap, a session's
\* readers get the state that was saved last, and its final snapshot keeps it.
LatestIsKept ==
    Undisturbed =>
        /\ StateIsLatest
        /\ \A s \in Sessions : status[s] = "COMPLETED" =>
             snapshot[s].data = Len(history[s]) - 1

\* An employee has one active session for an external conversation.
OneActive ==
    \A s, t \in Sessions : status[s] = "ACTIVE" /\ status[t] = "ACTIVE" => s = t
=============================================================================
