------------------------- MODULE AgentSessionsProofs -------------------------
(***************************************************************************)
(* Theorems about AgentSessions for any number of requests, sessions and   *)
(* saved states.                                                           *)
(***************************************************************************)
EXTENDS AgentSessions, TLAPS

-----------------------------------------------------------------------------
(***************************************************************************)
(* The locks: who has read a session's state to write it holds the lock of *)
(* its row, and the session is active until the lock is released.          *)
(***************************************************************************)
Working(x) == x.pc \in {"restore", "persist", "commit"} /\ x.op \in {"snapshot", "complete"}

Consistent(r) ==
    LET x == request[r] IN
    /\ x.pc # "unsent" => x.op \in Operations /\ (x.op = "open" <=> r \in Openers)
    /\ x.pc # "unsent" /\ x.op # "open" => x.session \in Sessions
    /\ x.pc = "restore" =>
        x.op \in {"open", "get", "snapshot", "complete"} /\ x.session \in Sessions
    /\ x.pc = "persist" => x.op \in {"snapshot", "complete"}
    /\ x.pc = "commit" => x.op = "complete"
    /\ x.pc \in {"writeback", "insert"} => x.op = "open" /\ x.session \in Sessions
    /\ Working(x) => rowLock[x.session] = {r} /\ status[x.session] = "ACTIVE"
    /\ x.pc = "insert" =>
        employeeLock = {r} /\ x.session = opened /\ status[x.session] = "ABSENT"
    /\ \A s \in Sessions : x.view.status[s] # "ABSENT" => status[s] # "ABSENT"

LocksInv ==
    /\ TypeOK
    /\ \A r \in Requests : Consistent(r)
    /\ \A s \in Sessions : s > opened => status[s] = "ABSENT"

LEMMA Numbers ==
    /\ MaxSessions \in Nat /\ MaxSaves \in Nat /\ MaxLosses \in Nat /\ MaxCrashes \in Nat
    /\ Sessions \subseteq Nat /\ 0 \notin Sessions
    /\ \A s \in Sessions : s \in 0..MaxSessions
  BY SessionsAssumption DEF Sessions

LEMMA States ==
    /\ Initial \in State /\ Lost \in State /\ Initial # Lost
    /\ Initial.data = 0 /\ EmptyView \in View
    /\ \A s \in Sessions : EmptyView.status[s] = "ABSENT" /\ EmptyView.snapshot[s] = Initial
  BY DEF Initial, Lost, State, EmptyView, View, Statuses

\* What a request's record becomes, and the other ones stay
Becomes(r, x) ==
    /\ request' \in [Requests -> Request]
    /\ request'[r] = x
    /\ \A q \in Requests : q # r => request'[q] = request[q]

LEMMA Replaces ==
    ASSUME TypeOK, NEW r \in Requests, NEW x \in Request,
           request' = [request EXCEPT ![r] = x]
    PROVE  Becomes(r, x)
  BY DEF TypeOK, Becomes

LEMMA FindsBecomes ==
    ASSUME TypeOK, NEW r \in Requests, NEW s \in Sessions, NEW state \in State,
           NEW pc \in {"restore", "writeback", "insert", "persist"}, Finds(r, s, pc, state)
    PROVE  \E x \in Request :
            /\ Becomes(r, x)
            /\ x.pc = pc /\ x.op = request[r].op /\ x.session = s
            /\ x.view = request[r].view /\ x.read = state
<1> DEFINE x == [request[r] EXCEPT !.pc = pc, !.session = s, !.read = state]
<1>1. request[r] \in Request
  BY DEF TypeOK
<1>2. /\ x \in Request /\ x.pc = pc /\ x.op = request[r].op /\ x.session = s
      /\ x.view = request[r].view /\ x.read = state
  BY <1>1, Numbers DEF Request
<1>3. request' = [request EXCEPT ![r] = x]
  BY DEF Finds
<1> HIDE DEF x
<1>4. Becomes(r, x)
  BY <1>2, <1>3, Replaces
<1>5. QED
  BY <1>2, <1>4

LEMMA EndsBecomes ==
    ASSUME TypeOK, NEW r \in Requests,
           NEW answer \in {"none", "ok", "duplicate", "refused", "error"}, Ends(r, answer)
    PROVE  \E x \in Request :
            /\ Becomes(r, x)
            /\ x.pc = "done" /\ x.op = request[r].op /\ x.session = request[r].session
            /\ x.view = EmptyView /\ x.read = Initial
<1> DEFINE x == [request[r] EXCEPT !.pc = "done", !.answer = answer, !.view = EmptyView,
                                   !.read = Initial]
<1>1. request[r] \in Request
  BY DEF TypeOK
<1>2. /\ x \in Request /\ x.pc = "done" /\ x.op = request[r].op
      /\ x.session = request[r].session /\ x.view = EmptyView /\ x.read = Initial
  BY <1>1, States DEF Request
<1>3. request' = [request EXCEPT ![r] = x]
  BY DEF Ends
<1> HIDE DEF x
<1>4. Becomes(r, x)
  BY <1>2, <1>3, Replaces
<1>5. QED
  BY <1>2, <1>4

LEMMA MovesBecomes ==
    ASSUME TypeOK, NEW r \in Requests,
           NEW pc \in {"writeback", "persist", "commit"}, Moves(r, pc)
    PROVE  \E x \in Request :
            /\ Becomes(r, x)
            /\ x.pc = pc /\ x.op = request[r].op /\ x.session = request[r].session
            /\ x.view = request[r].view /\ x.read = request[r].read
<1> DEFINE x == [request[r] EXCEPT !.pc = pc]
<1>1. request[r] \in Request
  BY DEF TypeOK
<1>2. /\ x \in Request /\ x.pc = pc /\ x.op = request[r].op
      /\ x.session = request[r].session
      /\ x.view = request[r].view /\ x.read = request[r].read
  BY <1>1 DEF Request
<1>3. request' = [request EXCEPT ![r] = x]
  BY DEF Moves
<1> HIDE DEF x
<1>4. Becomes(r, x)
  BY <1>2, <1>3, Replaces
<1>5. QED
  BY <1>2, <1>4

\* The locks of the other requests stay.
OthersHold(r) ==
    /\ \A s \in Sessions, q \in Requests :
        q # r /\ rowLock[s] = {q} => rowLock'[s] = {q}
    /\ \A q \in Requests : q # r /\ employeeLock = {q} => employeeLock' = {q}

LEMMA UnlockFrees ==
    ASSUME TypeOK, NEW r \in Requests, Unlock(r)
    PROVE  /\ OthersHold(r)
           /\ rowLock' \in [Sessions -> SUBSET Requests] /\ employeeLock' \in SUBSET Requests
  BY DEF TypeOK, Unlock, OthersHold

\* A session becomes active by the hand of who holds the employee's row, and
\* completed by the hand of who holds its own.
StatusMoves(r) ==
    \A s \in Sessions :
        \/ status'[s] = status[s]
        \/ status[s] = "ABSENT" /\ status'[s] = "ACTIVE" /\ employeeLock = {r}
        \/ status[s] = "ACTIVE" /\ status'[s] = "COMPLETED" /\ rowLock[s] = {r}

\* What r does leaves the others where they are.
LEMMA OthersStay ==
    ASSUME LocksInv, NEW r \in Requests, NEW x \in Request, Becomes(r, x),
           OthersHold(r), StatusMoves(r), opened' = opened \/ employeeLock = {},
           NEW q \in Requests, q # r
    PROVE  Consistent(q)'
<1> DEFINE y == request[q]
<1>1. request'[q] = y /\ Consistent(q) /\ y \in Request
  BY DEF Becomes, LocksInv, TypeOK
<1>2. /\ y.pc # "unsent" => y.op \in Operations /\ (y.op = "open" <=> q \in Openers)
      /\ y.pc # "unsent" /\ y.op # "open" => y.session \in Sessions
      /\ y.pc = "restore" =>
            y.op \in {"open", "get", "snapshot", "complete"} /\ y.session \in Sessions
      /\ y.pc = "persist" => y.op \in {"snapshot", "complete"}
      /\ y.pc = "commit" => y.op = "complete"
      /\ y.pc \in {"writeback", "insert"} => y.op = "open" /\ y.session \in Sessions
  BY <1>1 DEF Consistent
<1>3. Working(y) => rowLock'[y.session] = {q} /\ status'[y.session] = "ACTIVE"
  <2> SUFFICES ASSUME Working(y) PROVE rowLock'[y.session] = {q} /\ status'[y.session] = "ACTIVE"
    OBVIOUS
  <2>1. y.session \in Sessions
    BY <1>2 DEF Working
  <2>2. rowLock[y.session] = {q} /\ status[y.session] = "ACTIVE"
    BY <1>1 DEF Consistent
  <2>3. {q} # {r}
    OBVIOUS
  <2>4. QED
    BY <2>1, <2>2, <2>3 DEF OthersHold, StatusMoves
<1>4. y.pc = "insert" =>
        employeeLock' = {q} /\ y.session = opened' /\ status'[y.session] = "ABSENT"
  <2> SUFFICES ASSUME y.pc = "insert"
               PROVE  employeeLock' = {q} /\ y.session = opened' /\ status'[y.session] = "ABSENT"
    OBVIOUS
  <2>1. y.session \in Sessions
    BY <1>2
  <2>2. employeeLock = {q} /\ y.session = opened /\ status[y.session] = "ABSENT"
    BY <1>1 DEF Consistent
  <2>3. {q} # {r} /\ {q} # {}
    OBVIOUS
  <2>4. QED
    BY <2>1, <2>2, <2>3 DEF OthersHold, StatusMoves
<1>5. \A s \in Sessions : y.view.status[s] # "ABSENT" => status'[s] # "ABSENT"
  BY <1>1 DEF Consistent, StatusMoves
<1> HIDE DEF y
<1>6. QED
  BY <1>1, <1>2, <1>3, <1>4, <1>5 DEF Consistent

\* The end of a request leaves all as it was.
LEMMA EndStays ==
    ASSUME LocksInv, NEW r \in Requests, request[r].pc # "unsent",
           NEW answer \in {"none", "ok", "duplicate", "refused", "error"}, Ends(r, answer),
           OthersHold(r), StatusMoves(r), opened' = opened
    PROVE  /\ request' \in [Requests -> Request]
           /\ \A q \in Requests : Consistent(q)'
<1>1. TypeOK
  BY DEF LocksInv
<1>2. PICK x \in Request :
        /\ Becomes(r, x)
        /\ x.pc = "done" /\ x.op = request[r].op /\ x.session = request[r].session
        /\ x.view = EmptyView /\ x.read = Initial
  BY <1>1, EndsBecomes
<1>3. Consistent(r)'
  <2>1. Consistent(r) /\ request'[r] = x
    BY <1>2 DEF LocksInv, Becomes
  <2>2. ~ Working(x)
    BY <1>2 DEF Working
  <2>3. QED
    BY <1>2, <2>1, <2>2, States DEF Consistent
<1>4. QED
  BY <1>2, <1>3, OthersStay DEF Becomes

\* So does a request that goes on with a session, whose locks are kept.
LEMMA LocksStay ==
    ASSUME NEW r \in Requests, UNCHANGED <<rowLock, employeeLock>>
    PROVE  OthersHold(r)
  BY DEF OthersHold

LEMMA StatusStays ==
    ASSUME NEW r \in Requests, UNCHANGED status
    PROVE  StatusMoves(r)
  BY DEF StatusMoves

LEMMA Beginning ==
    ASSUME LocksInv, NEW r \in Requests, Begin(r)
    PROVE  LocksInv'
<1> USE DEF LocksInv
<1>1. PICK op \in Operations, s \in 0..MaxSessions :
        /\ (op = "open") <=> (r \in Openers)
        /\ IF op = "open" THEN s = 0 ELSE s # 0 /\ status[s] # "ABSENT"
        /\ request' = [request EXCEPT ![r] =
             [@ EXCEPT !.pc = "begun", !.op = op, !.session = s, !.view = Current]]
  BY DEF Begin
<1> DEFINE x == [request[r] EXCEPT !.pc = "begun", !.op = op, !.session = s,
                                   !.view = Current]
<1>2. Current \in View /\ Current.status = status
  BY DEF Current, View, TypeOK
<1>3. request[r] \in Request
  BY DEF TypeOK
<1>4. /\ x \in Request /\ x.pc = "begun" /\ x.op = op /\ x.session = s
      /\ x.view.status = status
  BY <1>2, <1>3 DEF Request
<1>5. request' = [request EXCEPT ![r] = x]
  BY <1>1
<1> HIDE DEF x
<1>6. Becomes(r, x)
  BY <1>4, <1>5, Replaces
<1>7. /\ UNCHANGED <<status, snapshot, message, redis, history, opened, rowLock,
                     employeeLock, losses, crashes>>
  BY DEF Begin
<1>8. Consistent(r)'
  <2>1. s # 0 => s \in Sessions
    BY Numbers DEF Sessions
  <2>2. ~ Working(x)
    BY <1>4 DEF Working
  <2>3. request'[r] = x
    BY <1>6 DEF Becomes
  <2>4. QED
    BY <1>1, <1>4, <1>7, <2>1, <2>2, <2>3 DEF Consistent
<1>9. \A q \in Requests : Consistent(q)'
  BY <1>4, <1>6, <1>7, <1>8, OthersStay, LocksStay, StatusStays
<1>10. TypeOK'
  BY <1>6, <1>7 DEF TypeOK, Becomes
<1>11. QED
  BY <1>7, <1>9, <1>10

\* What reading a session's state gives, and where the request goes on
LEMMA ReadsState ==
    ASSUME TypeOK, NEW r \in Requests, NEW s \in Sessions,
           NEW next \in {"writeback", "restore", "persist"}, ReadState(r, s, next)
    PROVE  \E x \in Request :
            /\ Becomes(r, x)
            /\ x.op = request[r].op /\ x.session = s /\ x.view = request[r].view
            /\ \/ redis[s] # Lost /\ x.pc = next /\ x.read = redis[s]
               \/ redis[s] = Lost /\ x.pc = "restore" /\ x.read = request[r].view.snapshot[s]
<1>1. redis[s] \in State /\ request[r].view.snapshot[s] \in State
  BY DEF TypeOK, Request, View
<1>2. CASE redis[s] # Lost
  <2>1. Finds(r, s, next, redis[s])
    BY <1>2 DEF ReadState
  <2>2. QED
    BY <1>1, <1>2, <2>1, FindsBecomes
<1>3. CASE redis[s] = Lost
  <2>1. Finds(r, s, "restore", request[r].view.snapshot[s])
    BY <1>3 DEF ReadState
  <2>2. QED
    BY <1>1, <1>3, <2>1, FindsBecomes
<1>4. QED
  BY <1>2, <1>3

LEMMA Opening ==
    ASSUME LocksInv, NEW r \in Requests, Open(r)
    PROVE  LocksInv'
<1> USE DEF LocksInv
<1>1. /\ request[r].pc = "begun" /\ request[r].op = "open" /\ employeeLock = {}
      /\ employeeLock' = {r}
      /\ UNCHANGED <<status, snapshot, message, rowLock, losses, crashes>>
  BY DEF Open
<1>2. OthersHold(r) /\ StatusMoves(r)
  <2>1. \A q \in Requests : {q} # {}
    OBVIOUS
  <2>2. QED
    BY <1>1, <2>1, StatusStays DEF OthersHold
<1>3. CASE OpenFound(r)
  <2>1. PICK s \in OpenSessions(r) :
          ReadState(r, s, "writeback") /\ UNCHANGED <<redis, history, opened>>
    BY <1>3 DEF OpenFound
  <2>2. s \in Sessions
    BY DEF OpenSessions
  <2>3. PICK x \in Request :
          /\ Becomes(r, x)
          /\ x.op = request[r].op /\ x.session = s /\ x.view = request[r].view
          /\ \/ redis[s] # Lost /\ x.pc = "writeback" /\ x.read = redis[s]
             \/ redis[s] = Lost /\ x.pc = "restore" /\ x.read = request[r].view.snapshot[s]
    BY <2>1, <2>2, ReadsState
  <2>4. Consistent(r)'
    <3>1. request'[r] = x /\ Consistent(r)
      BY <2>3 DEF Becomes
    <3>2. ~ Working(x)
      BY <1>1, <2>3 DEF Working
    <3>3. QED
      BY <1>1, <2>2, <2>3, <3>1, <3>2 DEF Consistent, Operations
  <2>5. \A q \in Requests : Consistent(q)'
    BY <1>2, <2>1, <2>3, <2>4, OthersStay
  <2>6. TypeOK'
    BY <1>1, <2>1, <2>3 DEF TypeOK, Becomes
  <2>7. QED
    BY <1>1, <2>1, <2>5, <2>6
<1>4. CASE OpenNew(r)
  <2> DEFINE s == opened + 1
  <2>1. /\ opened < MaxSessions /\ opened' = s
        /\ redis' = [redis EXCEPT ![s] = Initial]
        /\ history' = [history EXCEPT ![s] = <<Initial>>]
        /\ Finds(r, s, "insert", Initial)
    BY <1>4 DEF OpenNew
  <2>2. s \in Sessions /\ opened \in 0..MaxSessions /\ s \in 0..MaxSessions
    BY <2>1, Numbers DEF TypeOK, Sessions
  <2>3. s > opened /\ \A t \in Sessions : t > s => t > opened
    BY <2>2, Numbers
  <2> HIDE DEF s
  <2>4. PICK x \in Request :
          /\ Becomes(r, x)
          /\ x.pc = "insert" /\ x.op = request[r].op /\ x.session = s
          /\ x.view = request[r].view /\ x.read = Initial
    BY <2>1, <2>2, States, FindsBecomes
  <2>5. Consistent(r)'
    <3>1. request'[r] = x /\ Consistent(r)
      BY <2>4 DEF Becomes
    <3>2. ~ Working(x)
      BY <2>4 DEF Working
    <3>3. status[s] = "ABSENT"
      BY <2>2, <2>3
    <3>4. QED
      BY <1>1, <2>1, <2>2, <2>4, <3>1, <3>2, <3>3 DEF Consistent, Operations
  <2>6. \A q \in Requests : Consistent(q)'
    BY <1>1, <1>2, <2>4, <2>5, OthersStay
  <2>7. TypeOK'
    <3>1. <<Initial>> \in Seq(State)
      BY States
    <3>2. QED
      BY <1>1, <2>1, <2>2, <2>4, <3>1, States DEF TypeOK, Becomes
  <2>8. QED
    BY <1>1, <2>1, <2>3, <2>6, <2>7
<1>5. QED
  BY <1>3, <1>4 DEF Open

LEMMA CommittingNew ==
    ASSUME LocksInv, NEW r \in Requests, CommitNew(r)
    PROVE  LocksInv'
<1> USE DEF LocksInv
<1> DEFINE s == request[r].session
<1>1. /\ request[r].pc = "insert"
      /\ status' = [status EXCEPT ![s] = "ACTIVE"]
      /\ snapshot' = [snapshot EXCEPT ![s] = Initial]
      /\ Ends(r, "ok") /\ Unlock(r)
      /\ UNCHANGED <<message, redis, history, opened, losses, crashes>>
  BY DEF CommitNew
<1>2. s \in Sessions /\ employeeLock = {r} /\ s = opened /\ status[s] = "ABSENT"
  BY <1>1 DEF Consistent
<1> HIDE DEF s
<1>3. StatusMoves(r)
  BY <1>1, <1>2 DEF StatusMoves, TypeOK
<1>4. OthersHold(r) /\ rowLock' \in [Sessions -> SUBSET Requests] /\ employeeLock' \in SUBSET Requests
  BY <1>1, UnlockFrees
<1>5. request' \in [Requests -> Request] /\ \A q \in Requests : Consistent(q)'
  BY <1>1, <1>3, <1>4, EndStays
<1>6. TypeOK'
  BY <1>1, <1>2, <1>4, <1>5, States DEF TypeOK, Statuses
<1>7. \A t \in Sessions : t > opened => t # s
  BY <1>2, Numbers
<1>8. QED
  BY <1>1, <1>2, <1>5, <1>6, <1>7 DEF TypeOK

LEMMA WritingBack ==
    ASSUME LocksInv, NEW r \in Requests, WriteBack(r)
    PROVE  LocksInv'
<1> USE DEF LocksInv
<1>1. /\ request[r].pc = "writeback"
      /\ redis' = [redis EXCEPT ![request[r].session] = request[r].read]
      /\ Ends(r, "ok") /\ Unlock(r)
      /\ UNCHANGED <<status, snapshot, message, history, opened, losses, crashes>>
  BY DEF WriteBack
<1>2. OthersHold(r) /\ rowLock' \in [Sessions -> SUBSET Requests] /\ employeeLock' \in SUBSET Requests
  BY <1>1, UnlockFrees
<1>3. request' \in [Requests -> Request] /\ \A q \in Requests : Consistent(q)'
  BY <1>1, <1>2, EndStays, StatusStays
<1>4. request[r].read \in State
  BY DEF TypeOK, Request
<1>5. TypeOK'
  BY <1>1, <1>2, <1>3, <1>4 DEF TypeOK
<1>6. QED
  BY <1>1, <1>3, <1>5

LEMMA Refusing ==
    ASSUME LocksInv, NEW r \in Requests, Refused(r)
    PROVE  LocksInv'
<1> USE DEF LocksInv
<1>1. /\ request[r].pc = "begun" /\ Ends(r, "refused")
      /\ UNCHANGED <<status, snapshot, message, redis, history, opened, rowLock,
                     employeeLock, losses, crashes>>
  BY DEF Refused
<1>2. request' \in [Requests -> Request] /\ \A q \in Requests : Consistent(q)'
  BY <1>1, EndStays, StatusStays, LocksStay
<1>3. TypeOK'
  BY <1>1, <1>2 DEF TypeOK
<1>4. QED
  BY <1>1, <1>2, <1>3

LEMMA Adding ==
    ASSUME LocksInv, NEW r \in Requests, AddMessage(r)
    PROVE  LocksInv'
<1> USE DEF LocksInv
<1> DEFINE s == request[r].session
<1>1. /\ request[r].pc = "begun" /\ request[r].op = "message"
      /\ UNCHANGED <<status, snapshot, redis, history, opened, rowLock, employeeLock,
                     losses, crashes>>
  BY DEF AddMessage
<1>2. /\ message' = message \/ message' = [message EXCEPT ![s] = TRUE]
      /\ \E answer \in {"duplicate", "error", "ok"} : Ends(r, answer)
  BY DEF AddMessage
<1>3. request' \in [Requests -> Request] /\ \A q \in Requests : Consistent(q)'
  BY <1>1, <1>2, EndStays, StatusStays, LocksStay
<1> HIDE DEF s
<1>4. message' \in [Sessions -> BOOLEAN]
  BY <1>2 DEF TypeOK
<1>5. TypeOK'
  BY <1>1, <1>3, <1>4 DEF TypeOK
<1>6. QED
  BY <1>1, <1>3, <1>5

\* A saved state is a state, and comes last.
LEMMA Saved ==
    ASSUME LocksInv, NEW r \in Requests, SaveState(r)
    PROVE  \E state \in State :
            LET s == request[r].session IN
            /\ s \in Sessions
            /\ state.data = Len(history[s])
            /\ redis' = [redis EXCEPT ![s] = state]
            /\ history' = [history EXCEPT ![s] = Append(history[s], state)]
<1> DEFINE s == request[r].session
<1>1. request[r].pc = "begun" /\ request[r].op = "save"
  BY DEF SaveState
<1>2. s \in Sessions
  BY <1>1 DEF LocksInv, Consistent
<1>3. PICK missing \in BOOLEAN :
        /\ redis' = [redis EXCEPT ![s] = [data |-> Len(history[s]), missing |-> missing]]
        /\ history' = [history EXCEPT ![s] =
             Append(@, [data |-> Len(history[s]), missing |-> missing])]
  BY DEF SaveState
<1>4. history[s] \in Seq(State)
  BY <1>2 DEF LocksInv, TypeOK
<1> DEFINE state == [data |-> Len(history[s]), missing |-> missing]
<1>5. state \in State /\ state.data = Len(history[s])
  BY <1>4 DEF State
<1>6. history' = [history EXCEPT ![s] = Append(history[s], state)]
  BY <1>3
<1>7. redis' = [redis EXCEPT ![s] = state]
  BY <1>3
<1> HIDE DEF state, s
<1>8. QED
  BY <1>2, <1>5, <1>6, <1>7 DEF s

LEMMA Saving ==
    ASSUME LocksInv, NEW r \in Requests, SaveState(r)
    PROVE  LocksInv'
<1> USE DEF LocksInv
<1> DEFINE s == request[r].session
<1>1. /\ request[r].pc = "begun" /\ Ends(r, "ok")
      /\ UNCHANGED <<status, snapshot, message, opened, rowLock, employeeLock, losses,
                     crashes>>
  BY DEF SaveState
<1>2. PICK state \in State :
        /\ s \in Sessions
        /\ redis' = [redis EXCEPT ![s] = state]
        /\ history' = [history EXCEPT ![s] = Append(history[s], state)]
  BY Saved
<1> HIDE DEF s
<1>3. request' \in [Requests -> Request] /\ \A q \in Requests : Consistent(q)'
  BY <1>1, EndStays, StatusStays, LocksStay
<1>4. Append(history[s], state) \in Seq(State)
  BY <1>2 DEF TypeOK
<1>5. history' \in [Sessions -> Seq(State)] /\ redis' \in [Sessions -> State]
  BY <1>2, <1>4 DEF TypeOK
<1>6. TypeOK'
  BY <1>1, <1>3, <1>5 DEF TypeOK
<1>7. QED
  BY <1>1, <1>3, <1>6

LEMMA Getting ==
    ASSUME LocksInv, NEW r \in Requests, GetState(r)
    PROVE  LocksInv'
<1> USE DEF LocksInv
<1> DEFINE s == request[r].session
<1>1. /\ request[r].pc = "begun" /\ request[r].op = "get"
      /\ UNCHANGED <<status, snapshot, message, redis, history, opened, rowLock,
                     employeeLock, losses, crashes>>
  BY DEF GetState
<1>2. s \in Sessions
  BY <1>1 DEF Consistent
<1>3. request' \in [Requests -> Request] /\ \A q \in Requests : Consistent(q)'
  <2>1. CASE Ends(r, "ok")
    BY <1>1, <2>1, EndStays, StatusStays, LocksStay
  <2>2. CASE ReadState(r, s, "restore")
    <3>1. PICK x \in Request :
            /\ Becomes(r, x)
            /\ x.op = request[r].op /\ x.session = s /\ x.view = request[r].view
            /\ x.pc = "restore"
      BY <1>2, <2>2, ReadsState
    <3>2. Consistent(r)'
      <4>1. request'[r] = x /\ Consistent(r)
        BY <3>1 DEF Becomes
      <4>2. ~ Working(x)
        BY <1>1, <3>1 DEF Working
      <4>3. QED
        BY <1>1, <1>2, <3>1, <4>1, <4>2 DEF Consistent
    <3>3. QED
      BY <1>1, <3>1, <3>2, OthersStay, StatusStays, LocksStay DEF Becomes
  <2>3. QED
    BY <2>1, <2>2 DEF GetState
<1>4. TypeOK'
  BY <1>1, <1>3 DEF TypeOK
<1>5. QED
  BY <1>1, <1>3, <1>4

LEMMA ReadingLocked ==
    ASSUME LocksInv, NEW r \in Requests, ReadLocked(r)
    PROVE  LocksInv'
<1> USE DEF LocksInv
<1> DEFINE s == request[r].session
<1>1. /\ request[r].pc = "begun" /\ request[r].op \in {"snapshot", "complete"}
      /\ rowLock[s] = {} /\ status[s] = "ACTIVE"
      /\ rowLock' = [rowLock EXCEPT ![s] = {r}]
      /\ ReadState(r, s, "persist")
      /\ UNCHANGED <<status, snapshot, message, redis, history, opened, employeeLock,
                     losses, crashes>>
  BY DEF ReadLocked, LockedActive
<1>2. s \in Sessions
  BY <1>1 DEF Consistent
<1>3. PICK x \in Request :
        /\ Becomes(r, x)
        /\ x.op = request[r].op /\ x.session = s /\ x.view = request[r].view
        /\ x.pc \in {"persist", "restore"}
  BY <1>1, <1>2, ReadsState
<1> HIDE DEF s
<1>4. OthersHold(r)
  <2>1. \A q \in Requests : {q} # {}
    OBVIOUS
  <2>2. QED
    BY <1>1, <2>1 DEF OthersHold, TypeOK
<1>5. Consistent(r)'
  <2>1. request'[r] = x /\ Consistent(r)
    BY <1>3 DEF Becomes
  <2>2. rowLock'[s] = {r} /\ status'[s] = "ACTIVE"
    BY <1>1, <1>2 DEF TypeOK
  <2>3. QED
    BY <1>1, <1>2, <1>3, <2>1, <2>2 DEF Consistent
<1>6. \A q \in Requests : Consistent(q)'
  BY <1>1, <1>3, <1>4, <1>5, OthersStay, StatusStays
<1>7. TypeOK'
  BY <1>1, <1>2, <1>3 DEF TypeOK, Becomes
<1>8. QED
  BY <1>1, <1>6, <1>7

LEMMA Restoring ==
    ASSUME LocksInv, NEW r \in Requests, Restore(r)
    PROVE  LocksInv'
<1> USE DEF LocksInv
<1>1. /\ request[r].pc = "restore"
      /\ redis' = [redis EXCEPT ![request[r].session] = request[r].read]
      /\ UNCHANGED <<status, snapshot, message, history, opened, rowLock, employeeLock,
                     losses, crashes>>
  BY DEF Restore
<1>2. \/ request[r].op = "open" /\ Moves(r, "writeback")
      \/ request[r].op = "get" /\ Ends(r, "ok")
      \/ request[r].op \in {"snapshot", "complete"} /\ Moves(r, "persist")
  BY <1>1 DEF Restore, Consistent
<1>3. request' \in [Requests -> Request] /\ \A q \in Requests : Consistent(q)'
  <2>1. CASE request[r].op = "get" /\ Ends(r, "ok")
    BY <1>1, <2>1, EndStays, StatusStays, LocksStay
  <2>2. CASE \/ request[r].op = "open" /\ Moves(r, "writeback")
             \/ request[r].op \in {"snapshot", "complete"} /\ Moves(r, "persist")
    <3>1. PICK x \in Request :
            /\ Becomes(r, x)
            /\ x.op = request[r].op /\ x.session = request[r].session
            /\ x.view = request[r].view
            /\ \/ x.op = "open" /\ x.pc = "writeback"
               \/ x.op \in {"snapshot", "complete"} /\ x.pc = "persist"
      BY <2>2, MovesBecomes
    <3>2. Consistent(r)'
      <4>1. request'[r] = x /\ Consistent(r)
        BY <3>1 DEF Becomes
      <4>2. Working(x) => Working(request[r])
        BY <1>1, <3>1 DEF Working
      <4>3. QED
        BY <1>1, <3>1, <4>1, <4>2 DEF Consistent
    <3>3. QED
      BY <1>1, <3>1, <3>2, OthersStay, StatusStays, LocksStay DEF Becomes
  <2>3. QED
    BY <1>2, <2>1, <2>2
<1>4. request[r].read \in State
  BY DEF TypeOK, Request
<1>5. TypeOK'
  BY <1>1, <1>3, <1>4 DEF TypeOK
<1>6. QED
  BY <1>1, <1>3, <1>5

\* The columns an UPDATE may leave in a row
LEMMA Persisted ==
    ASSUME TypeOK, NEW r \in Requests, NEW s \in Sessions, Persists(r, s)
    PROVE  \E row \in State :
            /\ snapshot' = [snapshot EXCEPT ![s] = row]
            /\ \/ row.data = request[r].read.data
               \/ /\ row.data = snapshot[s].data
                  /\ request[r].read.data = request[r].view.snapshot[s].data
<1>1. /\ snapshot[s] \in State /\ request[r].read \in State
      /\ request[r].view.snapshot[s] \in State
  BY DEF TypeOK, Request, View
<1>2. PICK row \in Updated(snapshot[s], request[r].view.snapshot[s], request[r].read) :
        snapshot' = [snapshot EXCEPT ![s] = row]
  BY DEF Persists
<1>3. row \in State /\ \/ row.data = request[r].read.data
                       \/ /\ row.data = snapshot[s].data
                          /\ request[r].read.data = request[r].view.snapshot[s].data
  BY <1>1, <1>2 DEF Updated, State
<1>4. QED
  BY <1>2, <1>3

LEMMA SavingSnapshot ==
    ASSUME LocksInv, NEW r \in Requests, SaveSnapshot(r)
    PROVE  LocksInv'
<1> USE DEF LocksInv
<1>1. /\ request[r].pc = "persist" /\ request[r].op = "snapshot"
      /\ Persists(r, request[r].session)
      /\ Ends(r, "ok") /\ Unlock(r)
      /\ UNCHANGED <<status, message, redis, history, opened, losses, crashes>>
  BY DEF SaveSnapshot
<1>2. OthersHold(r) /\ rowLock' \in [Sessions -> SUBSET Requests] /\ employeeLock' \in SUBSET Requests
  BY <1>1, UnlockFrees
<1>3. request' \in [Requests -> Request] /\ \A q \in Requests : Consistent(q)'
  BY <1>1, <1>2, EndStays, StatusStays
<1>4. request[r].session \in Sessions
  BY <1>1 DEF Consistent
<1>5. snapshot' \in [Sessions -> State]
  BY <1>1, <1>4, Persisted DEF TypeOK
<1>6. TypeOK'
  BY <1>1, <1>2, <1>3, <1>5 DEF TypeOK
<1>7. QED
  BY <1>1, <1>3, <1>6

LEMMA DeletingState ==
    ASSUME LocksInv, NEW r \in Requests, DeleteState(r)
    PROVE  LocksInv'
<1> USE DEF LocksInv
<1>1. /\ request[r].pc = "persist" /\ request[r].op = "complete"
      /\ redis' = [redis EXCEPT ![request[r].session] = Lost]
      /\ Moves(r, "commit")
      /\ UNCHANGED <<status, snapshot, message, history, opened, rowLock, employeeLock,
                     losses, crashes>>
  BY DEF DeleteState
<1>2. PICK x \in Request :
        /\ Becomes(r, x)
        /\ x.pc = "commit" /\ x.op = request[r].op /\ x.session = request[r].session
        /\ x.view = request[r].view
  BY <1>1, MovesBecomes
<1>3. Consistent(r)'
  <2>1. request'[r] = x /\ Consistent(r)
    BY <1>2 DEF Becomes
  <2>2. Working(request[r])
    BY <1>1 DEF Working
  <2>3. QED
    BY <1>1, <1>2, <2>1, <2>2 DEF Consistent
<1>4. \A q \in Requests : Consistent(q)'
  BY <1>1, <1>2, <1>3, OthersStay, StatusStays, LocksStay
<1>5. TypeOK'
  BY <1>1, <1>2, States DEF TypeOK, Becomes
<1>6. QED
  BY <1>1, <1>4, <1>5

LEMMA Completing ==
    ASSUME LocksInv, NEW r \in Requests, Complete(r)
    PROVE  LocksInv'
<1> USE DEF LocksInv
<1> DEFINE s == request[r].session
<1>1. /\ request[r].pc = "commit" /\ Persists(r, s)
      /\ status' = [status EXCEPT ![s] = "COMPLETED"]
      /\ Ends(r, "ok") /\ Unlock(r)
      /\ UNCHANGED <<message, redis, history, opened, losses, crashes>>
  BY DEF Complete
<1>2. s \in Sessions /\ rowLock[s] = {r} /\ status[s] = "ACTIVE"
  BY <1>1 DEF Consistent, Working
<1>3. snapshot' \in [Sessions -> State]
  BY <1>1, <1>2, Persisted DEF TypeOK
<1> HIDE DEF s
<1>4. StatusMoves(r)
  BY <1>1, <1>2 DEF StatusMoves, TypeOK
<1>5. OthersHold(r) /\ rowLock' \in [Sessions -> SUBSET Requests] /\ employeeLock' \in SUBSET Requests
  BY <1>1, UnlockFrees
<1>6. request' \in [Requests -> Request] /\ \A q \in Requests : Consistent(q)'
  BY <1>1, <1>4, <1>5, EndStays
<1>7. TypeOK'
  BY <1>1, <1>3, <1>5, <1>6 DEF TypeOK, Statuses
<1>8. QED
  BY <1>1, <1>2, <1>6, <1>7 DEF TypeOK

LEMMA Crashing ==
    ASSUME LocksInv, NEW r \in Requests, Crash(r)
    PROVE  LocksInv'
<1> USE DEF LocksInv
<1>1. /\ request[r].pc # "unsent" /\ crashes < MaxCrashes /\ crashes' = crashes + 1
      /\ Ends(r, "error") /\ Unlock(r)
      /\ UNCHANGED <<status, snapshot, message, redis, history, opened, losses>>
  BY DEF Crash
<1>2. OthersHold(r) /\ rowLock' \in [Sessions -> SUBSET Requests] /\ employeeLock' \in SUBSET Requests
  BY <1>1, UnlockFrees
<1>3. request' \in [Requests -> Request] /\ \A q \in Requests : Consistent(q)'
  BY <1>1, <1>2, EndStays, StatusStays
<1>4. crashes' \in 0..MaxCrashes
  BY <1>1, Numbers DEF TypeOK
<1>5. TypeOK'
  BY <1>1, <1>2, <1>3, <1>4 DEF TypeOK
<1>6. QED
  BY <1>1, <1>3, <1>5

LEMMA Losing ==
    ASSUME LocksInv, NEW s \in Sessions, Lose(s)
    PROVE  LocksInv'
<1>1. /\ losses < MaxLosses /\ losses' = losses + 1
      /\ redis' = [redis EXCEPT ![s] = Lost]
      /\ UNCHANGED <<status, snapshot, message, history, opened, request, rowLock,
                     employeeLock, crashes>>
  BY DEF Lose
<1>2. losses' \in 0..MaxLosses
  BY <1>1, Numbers DEF LocksInv, TypeOK
<1>3. TypeOK'
  BY <1>1, <1>2, States DEF LocksInv, TypeOK
<1>4. \A q \in Requests : Consistent(q)'
  BY <1>1 DEF LocksInv, Consistent
<1>5. QED
  BY <1>1, <1>3, <1>4 DEF LocksInv

LEMMA LocksHold == Spec => []LocksInv
<1>1. Init => LocksInv
  <2> SUFFICES ASSUME Init PROVE LocksInv
    OBVIOUS
  <2> DEFINE x == [pc |-> "unsent", op |-> "none", session |-> 0, view |-> EmptyView,
                   read |-> Initial, answer |-> "none"]
  <2>1. x \in Request /\ x.pc = "unsent" /\ x.view = EmptyView
    BY Numbers, States DEF Request
  <2>2. request = [r \in Requests |-> x]
    BY DEF Init
  <2> HIDE DEF x
  <2>3. TypeOK
    <3>1. <<>> \in Seq(State) /\ "ABSENT" \in Statuses
      BY DEF Statuses
    <3>2. EmptyView.status \in [Sessions -> Statuses] /\ EmptyView.snapshot \in [Sessions -> State]
          /\ EmptyView.message \in [Sessions -> BOOLEAN]
      BY States DEF View
    <3>3. QED
      BY <2>1, <2>2, <3>1, <3>2, States, Numbers DEF TypeOK, Init
  <2>4. ASSUME NEW r \in Requests PROVE Consistent(r)
    <3>1. request[r] = x /\ ~ Working(x)
      BY <2>1, <2>2 DEF Working
    <3>2. QED
      BY <2>1, <3>1, States DEF Consistent
  <2>5. \A s \in Sessions : status[s] = "ABSENT"
    BY States DEF Init
  <2>6. QED
    BY <2>3, <2>4, <2>5 DEF LocksInv
<1>2. LocksInv /\ [Next]_vars => LocksInv'
  <2> SUFFICES ASSUME LocksInv, [Next]_vars PROVE LocksInv'
    OBVIOUS
  <2>1. CASE UNCHANGED vars
    BY <2>1 DEF vars, LocksInv, TypeOK, Consistent
  <2>2. ASSUME NEW r \in Requests,
               \/ Begin(r) \/ Open(r) \/ CommitNew(r) \/ WriteBack(r) \/ Refused(r)
               \/ AddMessage(r) \/ SaveState(r) \/ GetState(r) \/ ReadLocked(r)
               \/ Restore(r) \/ SaveSnapshot(r) \/ DeleteState(r) \/ Complete(r) \/ Crash(r)
        PROVE  LocksInv'
    BY <2>2, Beginning, Opening, CommittingNew, WritingBack, Refusing, Adding, Saving,
       Getting, ReadingLocked, Restoring, SavingSnapshot, DeletingState, Completing, Crashing
  <2>3. ASSUME NEW s \in Sessions, Lose(s) PROVE LocksInv'
    BY <2>3, Losing
  <2>4. QED
    BY <2>1, <2>2, <2>3 DEF Next
<1>3. QED
  BY <1>1, <1>2, PTL DEF Spec

\* Every variable keeps to its type.
THEOREM SessionsTypeOK == Spec => []TypeOK
<1>1. LocksInv => TypeOK
  BY DEF LocksInv
<1>2. QED
  BY <1>1, LocksHold, PTL

\* Nothing is added to a session that was completed: every request that writes
\* to one of its rows holds its lock, and has found it active under that lock.
THEOREM NothingAfterCompletion == Spec => CompletedIsFinal
<1>1. LocksInv /\ [Next]_vars =>
        [\A s \in Sessions : status[s] = "COMPLETED" =>
            /\ status'[s] = status[s] /\ snapshot'[s] = snapshot[s]
            /\ message'[s] = message[s] /\ history'[s] = history[s]]_vars
  <2> SUFFICES ASSUME LocksInv, Next, NEW s \in Sessions, status[s] = "COMPLETED"
               PROVE  /\ status'[s] = status[s] /\ snapshot'[s] = snapshot[s]
                      /\ message'[s] = message[s] /\ history'[s] = history[s]
    OBVIOUS
  <2> USE DEF LocksInv
  <2> DEFINE Stays == /\ status'[s] = status[s] /\ snapshot'[s] = snapshot[s]
                      /\ message'[s] = message[s] /\ history'[s] = history[s]
  <2>1. ASSUME NEW r \in Requests,
               \/ Begin(r) \/ WriteBack(r) \/ Refused(r) \/ GetState(r) \/ ReadLocked(r)
               \/ Restore(r) \/ DeleteState(r) \/ Crash(r)
        PROVE  Stays
    BY <2>1 DEF Begin, WriteBack, Refused, GetState, ReadLocked, Restore, DeleteState, Crash
  <2>2. ASSUME NEW r \in Requests, Open(r) PROVE Stays
    <3>1. UNCHANGED <<status, snapshot, message>>
      BY <2>2 DEF Open
    <3>2. OpenFound(r) => UNCHANGED history
      BY DEF OpenFound
    <3>3. OpenNew(r) => history'[s] = history[s]
      <4>1. s \in Nat /\ ~ (s > opened)
        BY Numbers
      <4>2. opened \in Nat /\ s # opened + 1
        BY <4>1, Numbers DEF TypeOK
      <4>3. QED
        BY <4>2 DEF OpenNew, TypeOK
    <3>4. QED
      BY <2>2, <3>1, <3>2, <3>3 DEF Open
  <2>3. ASSUME NEW r \in Requests, CommitNew(r) PROVE Stays
    <3>1. request[r].session # s
      BY <2>3 DEF CommitNew, Consistent
    <3>2. QED
      BY <2>3, <3>1 DEF CommitNew, TypeOK
  <2>4. ASSUME NEW r \in Requests, AddMessage(r) \/ SaveState(r) PROVE Stays
    <3>1. request[r].session # s
      BY <2>4 DEF AddMessage, SaveState, LockedActive
    <3>2. QED
      BY <2>4, <3>1 DEF AddMessage, SaveState, TypeOK
  <2>5. ASSUME NEW r \in Requests, SaveSnapshot(r) \/ Complete(r) PROVE Stays
    <3>1. request[r].session \in Sessions /\ request[r].session # s
      BY <2>5 DEF SaveSnapshot, Complete, Consistent, Working
    <3>2. snapshot'[s] = snapshot[s]
      BY <2>5, <3>1, Persisted DEF SaveSnapshot, Complete, TypeOK
    <3>3. status'[s] = status[s] /\ UNCHANGED <<message, history>>
      BY <2>5, <3>1 DEF SaveSnapshot, Complete, TypeOK
    <3>4. QED
      BY <3>2, <3>3
  <2>6. ASSUME NEW t \in Sessions, Lose(t) PROVE Stays
    BY <2>6 DEF Lose
  <2>7. QED
    BY <2>1, <2>2, <2>3, <2>4, <2>5, <2>6 DEF Next
<1>2. QED
  BY <1>1, LocksHold, PTL DEF Spec, CompletedIsFinal

-----------------------------------------------------------------------------
(***************************************************************************)
(* The states of a session, while nothing is lost or cut off and it is not *)
(* opened again.                                                           *)
(***************************************************************************)
Latest(s) == history[s][Len(history[s])]

\* The states are numbered as they are saved, from the initial one on.
Numbered(s) ==
    /\ \A i \in 1..Len(history[s]) : history[s][i].data = i - 1
    /\ Len(history[s]) > 0 => history[s][1] = Initial
    /\ status[s] # "ABSENT" => Len(history[s]) > 0

\* A request is made about a session that is there.
Founded(r) ==
    LET x == request[r] IN
    /\ x.pc # "unsent" /\ x.op # "open" => status[x.session] # "ABSENT"
    /\ x.pc = "insert" => history[x.session] = <<Initial>>

HistoryInv ==
    /\ \A s \in Sessions : Numbered(s)
    /\ \A r \in Requests : Founded(r)

\* The state was deleted, and the completion is about to be committed.
Committing(s) == \E q \in Requests : request[q].pc = "commit" /\ request[q].session = s

\* The one request that opens a session finds none.
OpenedOnce ==
    /\ (\A q \in Openers : request[q].pc \in {"unsent", "begun"}) => opened = 0
    /\ \A q \in Openers : request[q].pc \notin {"restore", "writeback"}

Kept(s) ==
    /\ status[s] = "ACTIVE" => redis[s] = Latest(s) \/ Committing(s)
    /\ status[s] = "COMPLETED" => snapshot[s].data = Len(history[s]) - 1
    /\ status[s] = "ABSENT" => snapshot[s].data = 0
    /\ status[s] # "ABSENT" => snapshot[s].data <= Len(history[s]) - 1

\* A snapshot written under the lock is not older than what any view shows of it.
ReadIsLatest(r) ==
    LET x == request[r] IN
    /\ x.pc = "insert" => redis[x.session] = Initial
    /\ x.pc = "restore" =>
        x.op = "get" /\ (status[x.session] = "COMPLETED" \/ Committing(x.session))
    /\ x.pc \in {"persist", "commit"} => x.read = Latest(x.session)
    /\ \A s \in Sessions : x.view.snapshot[s].data <= snapshot[s].data

KeptInv ==
    /\ OpenedOnce
    /\ \A s \in Sessions : Kept(s)
    /\ \A r \in Requests : ReadIsLatest(r)

SessionsInv == LocksInv /\ HistoryInv /\ (Undisturbed => KeptInv)

\* What a request that has begun, and opened what it opens, does
Proceeds(r) ==
    \/ CommitNew(r) \/ WriteBack(r) \/ Refused(r) \/ AddMessage(r) \/ SaveState(r)
    \/ GetState(r) \/ ReadLocked(r) \/ Restore(r) \/ SaveSnapshot(r) \/ DeleteState(r)
    \/ Complete(r) \/ Crash(r)

\* It stays with its session.
LEMMA StaysWithSession ==
    ASSUME LocksInv, NEW r \in Requests, Proceeds(r)
    PROVE  /\ request[r].pc \notin {"unsent", "done"}
           /\ \E x \in Request :
               /\ Becomes(r, x)
               /\ x.op = request[r].op /\ x.session = request[r].session
               /\ x.pc \in {"done", "restore", "writeback", "persist", "commit"}
               /\ x.view = request[r].view \/ x.view = EmptyView
<1>1. TypeOK
  BY DEF LocksInv
<1>2. request[r].pc \notin {"unsent", "done"}
  BY DEF Proceeds, CommitNew, WriteBack, Refused, AddMessage, SaveState, GetState, ReadLocked,
     Restore, SaveSnapshot, DeleteState, Complete, Crash
<1>3. CASE \E answer \in {"none", "ok", "duplicate", "refused", "error"} : Ends(r, answer)
  BY <1>1, <1>2, <1>3, EndsBecomes
<1>4. CASE \E pc \in {"writeback", "persist", "commit"} : Moves(r, pc)
  BY <1>1, <1>2, <1>4, MovesBecomes
<1>5. CASE /\ request[r].session \in Sessions
           /\ \E next \in {"restore", "persist"} : ReadState(r, request[r].session, next)
  <2>1. PICK next \in {"restore", "persist"} : ReadState(r, request[r].session, next)
    BY <1>5
  <2>2. PICK x \in Request :
          /\ Becomes(r, x)
          /\ x.op = request[r].op /\ x.session = request[r].session
          /\ x.view = request[r].view
          /\ x.pc = next \/ x.pc = "restore"
    BY <1>1, <1>5, <2>1, ReadsState
  <2>3. QED
    BY <1>2, <2>1, <2>2
<1>6. \/ \E answer \in {"none", "ok", "duplicate", "refused", "error"} : Ends(r, answer)
      \/ \E pc \in {"writeback", "persist", "commit"} : Moves(r, pc)
      \/ /\ request[r].session \in Sessions
         /\ \E next \in {"restore", "persist"} : ReadState(r, request[r].session, next)
  <2>1. CASE CommitNew(r) \/ WriteBack(r) \/ Refused(r) \/ SaveState(r) \/ SaveSnapshot(r)
             \/ Complete(r) \/ Crash(r)
    BY <2>1 DEF CommitNew, WriteBack, Refused, SaveState, SaveSnapshot, Complete, Crash
  <2>2. CASE AddMessage(r)
    BY <2>2 DEF AddMessage
  <2>3. CASE Restore(r) \/ DeleteState(r)
    BY <2>3 DEF Restore, DeleteState
  <2>4. CASE GetState(r) \/ ReadLocked(r)
    <3>1. request[r].session \in Sessions
      BY <2>4 DEF GetState, ReadLocked, LocksInv, Consistent
    <3>2. QED
      BY <2>4, <3>1 DEF GetState, ReadLocked
  <2>5. QED
    BY <2>1, <2>2, <2>3, <2>4 DEF Proceeds
<1>7. QED
  BY <1>3, <1>4, <1>5, <1>6

LEMMA OthersFounded ==
    ASSUME LocksInv, HistoryInv, NEW r \in Requests, NEW x \in Request, Becomes(r, x),
           \A s \in Sessions : status[s] # "ABSENT" => status'[s] # "ABSENT",
           NEW q \in Requests, q # r,
           \A s \in Sessions :
              request[q].pc = "insert" /\ request[q].session = s => history'[s] = history[s]
    PROVE  Founded(q)'
<1>1. request'[q] = request[q] /\ Founded(q) /\ Consistent(q)
  BY DEF Becomes, HistoryInv, LocksInv
<1>2. QED
  BY <1>1 DEF Founded, Consistent

LEMMA HistoryStays ==
    ASSUME LocksInv, HistoryInv, NEW r \in Requests, Proceeds(r), UNCHANGED history
    PROVE  HistoryInv'
<1>1. PICK x \in Request :
        /\ Becomes(r, x)
        /\ x.op = request[r].op /\ x.session = request[r].session
        /\ x.pc \in {"done", "restore", "writeback", "persist", "commit"}
  BY StaysWithSession
<1>2. request[r].pc # "unsent" /\ Consistent(r) /\ Founded(r)
  BY StaysWithSession DEF LocksInv, HistoryInv
<1>3. \A s \in Sessions : status[s] # "ABSENT" => status'[s] # "ABSENT"
  BY DEF Proceeds, CommitNew, WriteBack, Refused, AddMessage, SaveState, GetState, ReadLocked,
     Restore, SaveSnapshot, DeleteState, Complete, Crash, LocksInv, TypeOK
<1>4. \A s \in Sessions : status[s] = "ABSENT" =>
        status'[s] = "ABSENT" \/ Len(history[s]) > 0
  <2> SUFFICES ASSUME NEW s \in Sessions, status[s] = "ABSENT", status'[s] # "ABSENT"
               PROVE  Len(history[s]) > 0
    OBVIOUS
  <2>1. CASE CommitNew(r)
    <3>1. s = request[r].session /\ request[r].pc = "insert"
      BY <2>1 DEF CommitNew, LocksInv, TypeOK
    <3>2. history[s] = <<Initial>>
      BY <1>2, <3>1 DEF Founded
    <3>3. QED
      BY <3>2
  <2>2. CASE Complete(r)
    <3>1. s = request[r].session /\ request[r].pc = "commit"
      BY <2>2 DEF Complete, LocksInv, TypeOK
    <3>2. QED
      BY <1>2, <3>1 DEF Consistent, Working
  <2>3. QED
    BY <2>1, <2>2 DEF Proceeds, WriteBack, Refused, AddMessage, SaveState, GetState,
       ReadLocked, Restore, SaveSnapshot, DeleteState, Crash
<1>5. \A s \in Sessions : Numbered(s)'
  BY <1>3, <1>4 DEF HistoryInv, Numbered
<1>6. Founded(r)'
  <2>1. request'[r] = x
    BY <1>1 DEF Becomes
  <2>2. QED
    BY <1>1, <1>2, <1>3, <2>1 DEF Founded, Consistent
<1>7. \A q \in Requests : Founded(q)'
  BY <1>1, <1>3, <1>6, OthersFounded
<1>8. QED
  BY <1>5, <1>7 DEF HistoryInv

LEMMA HistoryGrows ==
    ASSUME LocksInv, HistoryInv, NEW r \in Requests, SaveState(r)
    PROVE  HistoryInv'
<1> PICK s : s = request[r].session
  OBVIOUS
<1>1. PICK state \in State :
        /\ s \in Sessions
        /\ state.data = Len(history[s])
        /\ history' = [history EXCEPT ![s] = Append(history[s], state)]
  BY Saved
<1>2. status[s] = "ACTIVE" /\ UNCHANGED status
  BY DEF SaveState, LockedActive
<1>3. PICK x \in Request :
        /\ Becomes(r, x)
        /\ x.op = request[r].op /\ x.session = request[r].session
        /\ x.pc \in {"done", "restore", "writeback", "persist", "commit"}
  BY StaysWithSession DEF Proceeds
<1>4. request[r].pc # "unsent" /\ Consistent(r) /\ Founded(r)
  BY StaysWithSession DEF LocksInv, HistoryInv, Proceeds
<1>5. Founded(r)'
  <2>1. request'[r] = x
    BY <1>3 DEF Becomes
  <2>2. QED
    BY <1>2, <1>3, <1>4, <2>1 DEF Founded, Consistent
<1>6. \A t \in Sessions : t # s => history'[t] = history[t]
  BY <1>1 DEF LocksInv, TypeOK
<1>7. \A q \in Requests : Founded(q)'
  <2>1. \A q \in Requests : request[q].pc = "insert" => request[q].session # s
    BY <1>2 DEF LocksInv, Consistent
  <2>2. QED
    BY <1>2, <1>3, <1>5, <1>6, <2>1, OthersFounded
<1>8. history[s] \in Seq(State) /\ history'[s] = Append(history[s], state)
  BY <1>1 DEF LocksInv, TypeOK
<1>9. Numbered(s)'
  <2>1. Numbered(s)
    BY <1>1 DEF HistoryInv
  <2>2. /\ Len(history'[s]) = Len(history[s]) + 1 /\ Len(history[s]) \in Nat
        /\ \A i \in 1..Len(history[s]) : history'[s][i] = history[s][i]
        /\ history'[s][Len(history[s]) + 1] = state
    BY <1>8
  <2>3. Len(history[s]) > 0
    BY <1>1, <1>2, <2>1 DEF Numbered
  <2>4. \A i \in 1..Len(history'[s]) : i \in 1..Len(history[s]) \/ i = Len(history[s]) + 1
    BY <2>2
  <2>5. \A i \in 1..Len(history'[s]) : history'[s][i].data = i - 1
    <3> SUFFICES ASSUME NEW i \in 1..Len(history'[s]) PROVE history'[s][i].data = i - 1
      OBVIOUS
    <3>1. CASE i \in 1..Len(history[s])
      BY <2>1, <2>2, <3>1 DEF Numbered
    <3>2. CASE i = Len(history[s]) + 1
      BY <1>1, <2>2, <3>2
    <3>3. QED
      BY <2>4, <3>1, <3>2
  <2>6. history'[s][1] = Initial
    BY <2>1, <2>2, <2>3 DEF Numbered
  <2>7. QED
    BY <2>2, <2>5, <2>6 DEF Numbered
<1>10. \A t \in Sessions : Numbered(t)'
  BY <1>2, <1>6, <1>9 DEF HistoryInv, Numbered
<1>11. QED
  BY <1>7, <1>10 DEF HistoryInv

LEMMA HistoryBegins ==
    ASSUME LocksInv, HistoryInv, NEW r \in Requests, Open(r)
    PROVE  HistoryInv'
<1>1. UNCHANGED status /\ request[r].op = "open" /\ employeeLock = {}
  BY DEF Open
<1>2. CASE OpenFound(r)
  <2>1. PICK s \in OpenSessions(r) :
          ReadState(r, s, "writeback") /\ UNCHANGED <<redis, history, opened>>
    BY <1>2 DEF OpenFound
  <2>2. PICK x \in Request :
          /\ Becomes(r, x) /\ x.op = request[r].op /\ x.pc \in {"writeback", "restore"}
    BY <2>1, ReadsState DEF LocksInv, OpenSessions
  <2>3. Founded(r)'
    BY <1>1, <2>2 DEF Becomes, Founded
  <2>4. \A q \in Requests : Founded(q)'
    BY <1>1, <2>1, <2>2, <2>3, OthersFounded
  <2>5. QED
    BY <1>1, <2>1, <2>4 DEF HistoryInv, Numbered
<1>3. CASE OpenNew(r)
  <2> PICK s : s = opened + 1
    OBVIOUS
  <2>1. /\ opened < MaxSessions
        /\ history' = [history EXCEPT ![s] = <<Initial>>]
        /\ Finds(r, s, "insert", Initial)
    BY <1>3 DEF OpenNew
  <2>2. s \in Sessions
    BY <2>1, Numbers DEF LocksInv, TypeOK, Sessions
  <2>3. PICK x \in Request :
          Becomes(r, x) /\ x.pc = "insert" /\ x.op = request[r].op /\ x.session = s
    BY <2>1, <2>2, States, FindsBecomes DEF LocksInv
  <2>4. history'[s] = <<Initial>> /\ \A t \in Sessions : t # s => history'[t] = history[t]
    BY <2>1, <2>2 DEF LocksInv, TypeOK
  <2>5. Founded(r)'
    BY <1>1, <2>2, <2>3, <2>4 DEF Becomes, Founded
  <2>6. \A q \in Requests : request[q].pc # "insert"
    <3>1. \A q \in Requests : {q} # {}
      OBVIOUS
    <3>2. QED
      BY <1>1, <3>1 DEF LocksInv, Consistent
  <2>7. \A q \in Requests : Founded(q)'
    BY <1>1, <2>3, <2>5, <2>6, OthersFounded
  <2>8. Numbered(s)'
    <3>1. /\ Len(<<Initial>>) = 1 /\ <<Initial>>[1] = Initial /\ 1..1 = {1}
      OBVIOUS
    <3>2. QED
      BY <2>4, <3>1, States DEF Numbered
  <2>9. \A t \in Sessions : Numbered(t)'
    BY <1>1, <2>4, <2>8 DEF HistoryInv, Numbered
  <2>10. QED
    BY <2>7, <2>9 DEF HistoryInv
<1>4. QED
  BY <1>2, <1>3 DEF Open

\* What a request begins with
LEMMA Begun ==
    ASSUME LocksInv, NEW r \in Requests, Begin(r)
    PROVE  \E x \in Request :
            /\ Becomes(r, x)
            /\ x.pc = "begun" /\ x.view.snapshot = snapshot
            /\ x.op # "open" => x.session \in Sessions /\ status[x.session] # "ABSENT"
<1>1. PICK op \in Operations, s \in 0..MaxSessions :
        /\ IF op = "open" THEN s = 0 ELSE s # 0 /\ status[s] # "ABSENT"
        /\ request' = [request EXCEPT ![r] =
             [@ EXCEPT !.pc = "begun", !.op = op, !.session = s, !.view = Current]]
  BY DEF Begin
<1> DEFINE x == [request[r] EXCEPT !.pc = "begun", !.op = op, !.session = s,
                                   !.view = Current]
<1>2. Current \in View /\ Current.snapshot = snapshot
  BY DEF Current, View, LocksInv, TypeOK
<1>3. request[r] \in Request
  BY DEF LocksInv, TypeOK
<1>4. /\ x \in Request /\ x.pc = "begun" /\ x.op = op /\ x.session = s
      /\ x.view.snapshot = snapshot
  BY <1>2, <1>3 DEF Request
<1>5. request' = [request EXCEPT ![r] = x]
  BY <1>1
<1> HIDE DEF x
<1>6. Becomes(r, x)
  BY <1>4, <1>5, Replaces DEF LocksInv
<1>7. s # 0 => s \in Sessions
  BY Numbers DEF Sessions
<1>8. QED
  BY <1>1, <1>4, <1>6, <1>7

LEMMA HistoryStep == LocksInv /\ HistoryInv /\ [Next]_vars => HistoryInv'
<1> SUFFICES ASSUME LocksInv, HistoryInv, [Next]_vars PROVE HistoryInv'
  OBVIOUS
<1>1. CASE UNCHANGED vars
  BY <1>1 DEF vars, HistoryInv, Numbered, Founded
<1>2. ASSUME NEW r \in Requests, Begin(r) PROVE HistoryInv'
  <2>1. UNCHANGED <<status, history>>
    BY <1>2 DEF Begin
  <2>2. PICK x \in Request :
          /\ Becomes(r, x)
          /\ x.pc = "begun"
          /\ x.op # "open" => x.session \in Sessions /\ status[x.session] # "ABSENT"
    BY <1>2, Begun
  <2>3. Founded(r)'
    BY <2>1, <2>2 DEF Becomes, Founded
  <2>4. \A q \in Requests : Founded(q)'
    BY <2>1, <2>2, <2>3, OthersFounded
  <2>5. QED
    BY <2>1, <2>4 DEF HistoryInv, Numbered
<1>3. ASSUME NEW r \in Requests, Open(r) PROVE HistoryInv'
  BY <1>3, HistoryBegins
<1>4. ASSUME NEW r \in Requests, Proceeds(r) PROVE HistoryInv'
  <2>1. SaveState(r) \/ UNCHANGED history
    BY <1>4 DEF Proceeds, CommitNew, WriteBack, Refused, AddMessage, GetState, ReadLocked,
       Restore, SaveSnapshot, DeleteState, Complete, Crash
  <2>2. QED
    BY <1>4, <2>1, HistoryStays, HistoryGrows
<1>5. ASSUME NEW s \in Sessions, Lose(s) PROVE HistoryInv'
  BY <1>5 DEF Lose, HistoryInv, Numbered, Founded
<1>6. QED
  BY <1>1, <1>2, <1>3, <1>4, <1>5 DEF Next, Proceeds

\* What has been disturbed stays so.
LEMMA UndisturbedBefore ==
    LocksInv /\ Next /\ Undisturbed' =>
        Undisturbed /\ losses' = losses /\ crashes' = crashes
<1> SUFFICES ASSUME LocksInv, Next, Undisturbed'
             PROVE  Undisturbed /\ losses' = losses /\ crashes' = crashes
  OBVIOUS
<1>1. losses' = losses \/ losses' = losses + 1
  BY DEF Next, Begin, Open, CommitNew, WriteBack, Refused, AddMessage, SaveState, GetState,
     ReadLocked, Restore, SaveSnapshot, DeleteState, Complete, Crash, Lose
<1>2. crashes' = crashes \/ crashes' = crashes + 1
  BY DEF Next, Begin, Open, CommitNew, WriteBack, Refused, AddMessage, SaveState, GetState,
     ReadLocked, Restore, SaveSnapshot, DeleteState, Complete, Crash, Lose
<1>3. losses \in Nat /\ crashes \in Nat
  BY Numbers DEF LocksInv, TypeOK
<1>4. losses' = 0 /\ crashes' = 0
  BY DEF Undisturbed
<1>5. losses = 0 /\ crashes = 0 /\ losses' = losses /\ crashes' = crashes
  BY <1>1, <1>2, <1>3, <1>4
<1>6. \A q \in Requests : request[q].pc # "unsent" => request'[q].pc # "unsent"
  <2>1. ASSUME NEW r \in Requests, Begin(r)
        PROVE  \A q \in Requests : request[q].pc # "unsent" => request'[q].pc # "unsent"
    BY <2>1, Begun DEF Becomes
  <2>2. ASSUME NEW r \in Requests, Open(r)
        PROVE  \A q \in Requests : request[q].pc # "unsent" => request'[q].pc # "unsent"
    <3>1. \E s \in Sessions, pc \in {"restore", "writeback", "insert"}, state \in State :
            Finds(r, s, pc, state)
      <4>1. CASE OpenFound(r)
        <5>1. PICK s \in Sessions : ReadState(r, s, "writeback")
          BY <4>1 DEF OpenFound, OpenSessions
        <5>2. redis[s] \in State /\ request[r].view.snapshot[s] \in State
          BY DEF LocksInv, TypeOK, Request, View
        <5>3. QED
          BY <5>1, <5>2 DEF ReadState
      <4>2. CASE OpenNew(r)
        <5>1. opened + 1 \in Sessions
          BY <4>2, Numbers DEF OpenNew, LocksInv, TypeOK, Sessions
        <5>2. QED
          BY <4>2, <5>1, States DEF OpenNew
      <4>3. QED
        BY <2>2, <4>1, <4>2 DEF Open
    <3>2. QED
      BY <3>1, FindsBecomes DEF Becomes, LocksInv
  <2>3. ASSUME NEW r \in Requests, Proceeds(r)
        PROVE  \A q \in Requests : request[q].pc # "unsent" => request'[q].pc # "unsent"
    BY <2>3, StaysWithSession DEF Becomes
  <2>4. ASSUME NEW s \in Sessions, Lose(s)
        PROVE  \A q \in Requests : request[q].pc # "unsent" => request'[q].pc # "unsent"
    BY <2>4 DEF Lose
  <2>5. QED
    BY <2>1, <2>2, <2>3, <2>4 DEF Next, Proceeds
<1>7. Openers \subseteq Requests
  BY SessionsAssumption
<1>8. QED
  BY <1>5, <1>6, <1>7 DEF Undisturbed

\* What was saved last is a state that was saved.
LEMMA LatestIsSaved ==
    ASSUME LocksInv, HistoryInv, NEW s \in Sessions, status[s] # "ABSENT"
    PROVE  /\ Len(history[s]) \in Nat /\ Len(history[s]) > 0
           /\ Latest(s).data = Len(history[s]) - 1 /\ Latest(s) # Lost
<1>1. history[s] \in Seq(State) /\ Numbered(s)
  BY DEF LocksInv, TypeOK, HistoryInv
<1>2. Len(history[s]) \in Nat /\ Len(history[s]) > 0
  BY <1>1 DEF Numbered
<1>3. Latest(s).data = Len(history[s]) - 1
  BY <1>1, <1>2 DEF Numbered, Latest
<1>4. Latest(s) # Lost
  <2>1. CASE Len(history[s]) = 1
    BY <1>1, <2>1, States DEF Numbered, Latest
  <2>2. CASE Len(history[s]) # 1
    <3>1. Latest(s).data # 0
      BY <1>2, <1>3, <2>2
    <3>2. Lost.data = 0
      BY DEF Lost
    <3>3. QED
      BY <3>1, <3>2
  <2>3. QED
    BY <2>1, <2>2
<1>5. QED
  BY <1>2, <1>3, <1>4

\* Who completes a session holds its row.
LEMMA CommittingHolds ==
    ASSUME LocksInv, NEW s \in Sessions, Committing(s)
    PROVE  status[s] = "ACTIVE" /\ rowLock[s] # {}
<1>1. PICK q \in Requests : request[q].pc = "commit" /\ request[q].session = s
  BY DEF Committing
<1>2. rowLock[s] = {q} /\ status[s] = "ACTIVE"
  BY <1>1 DEF LocksInv, Consistent, Working
<1>3. QED
  BY <1>2

LEMMA CommittingStays ==
    ASSUME NEW r \in Requests, NEW x, Becomes(r, x), NEW s \in Sessions, Committing(s),
           request[r].pc = "commit" => request[r].session # s
    PROVE  Committing(s)'
  BY DEF Committing, Becomes

LEMMA OthersRead ==
    ASSUME LocksInv, KeptInv, NEW r \in Requests, NEW x, Becomes(r, x),
           NEW q \in Requests, q # r,
           \A s \in Sessions :
              /\ request[q].pc = "insert" /\ request[q].session = s => redis'[s] = redis[s]
              /\ request[q].pc \in {"persist", "commit"} /\ request[q].session = s =>
                    history'[s] = history[s]
              /\ snapshot[s].data <= snapshot'[s].data /\ snapshot'[s].data \in Nat
              /\ status[s] = "COMPLETED" => status'[s] = "COMPLETED"
              /\ Committing(s) => status'[s] = "COMPLETED" \/ Committing(s)'
    PROVE  ReadIsLatest(q)'
<1> PICK y : y = request[q]
  OBVIOUS
<1>1. request'[q] = y /\ ReadIsLatest(q) /\ Consistent(q) /\ y \in Request
  BY DEF Becomes, KeptInv, LocksInv, TypeOK
<1>2. y.pc = "insert" => redis'[y.session] = Initial
  BY <1>1 DEF ReadIsLatest, Consistent
<1>3. y.pc = "restore" =>
        y.op = "get" /\ (status'[y.session] = "COMPLETED" \/ Committing(y.session)')
  <2> SUFFICES ASSUME y.pc = "restore"
               PROVE  y.op = "get" /\ (status'[y.session] = "COMPLETED" \/ Committing(y.session)')
    OBVIOUS
  <2> PICK s : s = y.session
    OBVIOUS
  <2>1. s \in Sessions /\ y.op = "get" /\ (status[s] = "COMPLETED" \/ Committing(s))
    BY <1>1 DEF ReadIsLatest, Consistent
  <2>2. status'[s] = "COMPLETED" \/ Committing(s)'
    BY <2>1
  <2>3. QED
    BY <2>1, <2>2
<1>4. y.pc \in {"persist", "commit"} => y.read = history'[y.session][Len(history'[y.session])]
  <2> SUFFICES ASSUME y.pc \in {"persist", "commit"}
               PROVE  y.read = history'[y.session][Len(history'[y.session])]
    OBVIOUS
  <2>1. y.session \in Sessions
    BY <1>1 DEF Consistent
  <2>2. y.read = history[y.session][Len(history[y.session])]
    BY <1>1 DEF ReadIsLatest, Latest
  <2>3. history'[y.session] = history[y.session]
    BY <2>1
  <2>4. QED
    BY <2>2, <2>3
<1>5. \A s \in Sessions : y.view.snapshot[s].data <= snapshot'[s].data
  <2> SUFFICES ASSUME NEW s \in Sessions PROVE y.view.snapshot[s].data <= snapshot'[s].data
    OBVIOUS
  <2>1. y.view.snapshot[s].data \in Nat /\ snapshot[s].data \in Nat
    BY <1>1 DEF LocksInv, TypeOK, Request, View, State
  <2>2. y.view.snapshot[s].data <= snapshot[s].data
    BY <1>1 DEF ReadIsLatest
  <2>3. snapshot[s].data <= snapshot'[s].data /\ snapshot'[s].data \in Nat
    OBVIOUS
  <2>4. QED
    BY <2>1, <2>2, <2>3
<1>6. QED
  BY <1>1, <1>2, <1>3, <1>4, <1>5 DEF ReadIsLatest, Latest

\* A session that r does not work with is kept as it was.
LEMMA OthersKept ==
    ASSUME LocksInv, KeptInv, NEW r \in Requests, NEW x, Becomes(r, x), NEW s \in Sessions,
           request[r].pc = "commit" => request[r].session # s,
           status'[s] = status[s], redis'[s] = redis[s], history'[s] = history[s],
           snapshot'[s] = snapshot[s]
    PROVE  Kept(s)'
<1>1. Kept(s) /\ (Committing(s) => Committing(s)')
  BY CommittingStays DEF KeptInv
<1>2. QED
  BY <1>1 DEF Kept, Latest

\* Only those that open a session begin or end with none.
LEMMA OpenedOnceStays ==
    ASSUME KeptInv, NEW r \in Requests, NEW x, Becomes(r, x), opened' = opened,
           r \notin Openers
    PROVE  OpenedOnce'
  BY SessionsAssumption DEF KeptInv, OpenedOnce, Becomes

LEMMA SnapshotsAreNumbered ==
    ASSUME TypeOK
    PROVE  \A s \in Sessions : snapshot[s].data \in Nat /\ snapshot[s].data <= snapshot[s].data
  BY DEF TypeOK, State

-----------------------------------------------------------------------------
(***************************************************************************)
(* Step by step.                                                           *)
(***************************************************************************)
AllInv == LocksInv /\ HistoryInv /\ KeptInv

LEMMA BeginKeeps ==
    ASSUME AllInv, NEW r \in Requests, Begin(r)
    PROVE  KeptInv'
<1> USE DEF AllInv
<1>1. /\ request[r].pc = "unsent"
      /\ UNCHANGED <<status, snapshot, redis, history, opened>>
  BY DEF Begin
<1>2. PICK x \in Request :
        Becomes(r, x) /\ x.pc = "begun" /\ x.view.snapshot = snapshot
  BY Begun
<1>3. TypeOK
  BY DEF LocksInv
<1>4. OpenedOnce'
  BY <1>1, <1>2, SessionsAssumption DEF KeptInv, OpenedOnce, Becomes
<1>5. \A s \in Sessions : Kept(s)'
  BY <1>1, <1>2, OthersKept
<1>6. ReadIsLatest(r)'
  BY <1>1, <1>2, <1>3, SnapshotsAreNumbered DEF ReadIsLatest, Becomes
<1>7. \A s \in Sessions : Committing(s) => Committing(s)'
  BY <1>1, <1>2, CommittingStays
<1>8. \A q \in Requests : ReadIsLatest(q)'
  BY <1>1, <1>2, <1>3, <1>6, <1>7, OthersRead, SnapshotsAreNumbered
<1>9. QED
  BY <1>4, <1>5, <1>8 DEF KeptInv

LEMMA OpenKeeps ==
    ASSUME AllInv, Undisturbed, NEW r \in Requests, Open(r)
    PROVE  KeptInv'
<1> USE DEF AllInv
<1>1. /\ request[r].pc = "begun" /\ request[r].op = "open" /\ employeeLock = {}
      /\ UNCHANGED <<status, snapshot>>
  BY DEF Open
<1>2. r \in Openers
  BY <1>1 DEF LocksInv, Consistent
<1>3. opened = 0
  <2>1. \A q \in Openers : request[q].pc \in {"unsent", "begun"}
    BY <1>1, <1>2 DEF Undisturbed
  <2>2. QED
    BY <2>1 DEF KeptInv, OpenedOnce
<1>4. \A s \in Sessions : status[s] = "ABSENT" /\ request[r].view.status[s] = "ABSENT"
  <2>1. \A s \in Sessions : s > 0
    BY Numbers
  <2>2. QED
    BY <1>3, <2>1 DEF LocksInv, Consistent
<1>5. OpenNew(r)
  <2>1. OpenSessions(r) = {}
    BY <1>4 DEF OpenSessions
  <2>2. QED
    BY <2>1 DEF Open, OpenFound
<1> PICK s : s = opened + 1
  OBVIOUS
<1>6. /\ opened < MaxSessions
      /\ redis' = [redis EXCEPT ![s] = Initial]
      /\ history' = [history EXCEPT ![s] = <<Initial>>]
      /\ Finds(r, s, "insert", Initial)
  BY <1>5 DEF OpenNew
<1>7. s \in Sessions /\ TypeOK
  BY <1>6, Numbers DEF LocksInv, TypeOK, Sessions
<1>8. PICK x \in Request :
        /\ Becomes(r, x)
        /\ x.pc = "insert" /\ x.session = s /\ x.view = request[r].view
  BY <1>6, <1>7, States, FindsBecomes
<1>9. OpenedOnce'
  <2>1. request'[r].pc = "insert" /\ \A q \in Openers : q # r => request'[q] = request[q]
    BY <1>8, SessionsAssumption DEF Becomes
  <2>2. QED
    BY <1>2, <2>1 DEF KeptInv, OpenedOnce
<1>10. redis'[s] = Initial /\ \A t \in Sessions : t # s => redis'[t] = redis[t] /\ history'[t] = history[t]
  BY <1>6, <1>7 DEF TypeOK
<1>11. \A t \in Sessions : Kept(t)'
  BY <1>1, <1>4 DEF Kept, KeptInv
<1>12. ReadIsLatest(r)'
  <2>1. request'[r] = x
    BY <1>8 DEF Becomes
  <2>2. ReadIsLatest(r)
    BY DEF KeptInv
  <2>3. QED
    BY <1>1, <1>8, <1>10, <2>1, <2>2 DEF ReadIsLatest
<1>13. \A q \in Requests : q # r => ReadIsLatest(q)'
  <2>1. \A t \in Sessions : ~ Committing(t)
    BY <1>4, CommittingHolds
  <2>2. \A q \in Requests : request[q].pc # "insert"
    <3>1. \A q \in Requests : {q} # {}
      OBVIOUS
    <3>2. QED
      BY <1>1, <3>1 DEF LocksInv, Consistent
  <2>3. \A q \in Requests : request[q].pc \notin {"persist", "commit"}
    BY <1>4 DEF LocksInv, Consistent, Working
  <2>4. QED
    BY <1>1, <1>7, <1>8, <1>10, <2>1, <2>2, <2>3, OthersRead, SnapshotsAreNumbered
<1>14. QED
  BY <1>9, <1>11, <1>12, <1>13 DEF KeptInv

LEMMA CommitNewKeeps ==
    ASSUME AllInv, NEW r \in Requests, CommitNew(r)
    PROVE  KeptInv'
<1> USE DEF AllInv
<1> PICK s : s = request[r].session
  OBVIOUS
<1>1. /\ request[r].pc = "insert"
      /\ status' = [status EXCEPT ![s] = "ACTIVE"]
      /\ snapshot' = [snapshot EXCEPT ![s] = Initial]
      /\ Ends(r, "ok")
      /\ UNCHANGED <<redis, history, opened>>
  BY DEF CommitNew
<1>2. /\ s \in Sessions /\ employeeLock = {r} /\ status[s] = "ABSENT" /\ r \in Openers
      /\ history[s] = <<Initial>> /\ redis[s] = Initial /\ TypeOK
  BY <1>1 DEF LocksInv, Consistent, HistoryInv, Founded, KeptInv, ReadIsLatest, Operations
<1>3. PICK x \in Request :
        Becomes(r, x) /\ x.pc = "done" /\ x.view = EmptyView
  BY <1>1, <1>2, EndsBecomes
<1>4. OpenedOnce'
  <2>1. request'[r].pc = "done" /\ \A q \in Openers : q # r => request'[q] = request[q]
    BY <1>3, SessionsAssumption DEF Becomes
  <2>2. QED
    BY <1>2, <2>1 DEF KeptInv, OpenedOnce
<1>5. /\ status'[s] = "ACTIVE" /\ snapshot'[s] = Initial
      /\ \A t \in Sessions : t # s => status'[t] = status[t] /\ snapshot'[t] = snapshot[t]
  BY <1>1, <1>2 DEF TypeOK
<1>6. Kept(s)'
  <2>1. /\ history'[s][Len(history'[s])] = Initial /\ Len(history'[s]) = 1
    BY <1>1, <1>2
  <2>2. QED
    BY <1>1, <1>2, <1>5, <2>1, States DEF Kept, Latest
<1>7. \A t \in Sessions : Kept(t)'
  BY <1>1, <1>3, <1>5, <1>6, OthersKept
<1>8. \A t \in Sessions : snapshot[t].data <= snapshot'[t].data /\ snapshot'[t].data \in Nat
  <2>1. snapshot[s].data = 0
    BY <1>2 DEF KeptInv, Kept
  <2>2. QED
    BY <1>2, <1>5, <2>1, States, SnapshotsAreNumbered
<1>9. ReadIsLatest(r)'
  BY <1>3, <1>8, States DEF Becomes, ReadIsLatest, LocksInv, TypeOK
<1>10. \A t \in Sessions : Committing(t) => Committing(t)'
  BY <1>1, <1>3, CommittingStays
<1>11. \A q \in Requests : ReadIsLatest(q)'
  BY <1>1, <1>2, <1>3, <1>5, <1>8, <1>9, <1>10, OthersRead
<1>12. QED
  BY <1>4, <1>7, <1>11 DEF KeptInv

LEMMA NoWriteBack ==
    ASSUME AllInv, NEW r \in Requests
    PROVE  ~ WriteBack(r)
  BY DEF AllInv, KeptInv, OpenedOnce, WriteBack, LocksInv, Consistent

\* A request that ends, and changed no state
LEMMA EndKeeps ==
    ASSUME AllInv, NEW r \in Requests,
           NEW answer \in {"none", "ok", "duplicate", "refused", "error"}, Ends(r, answer),
           r \notin Openers, request[r].pc # "commit",
           UNCHANGED <<status, snapshot, redis, history, opened>>
    PROVE  KeptInv'
<1> USE DEF AllInv
<1>1. TypeOK
  BY DEF LocksInv
<1>2. PICK x \in Request :
        Becomes(r, x) /\ x.pc = "done" /\ x.view = EmptyView
  BY <1>1, EndsBecomes
<1>3. OpenedOnce'
  BY <1>2, OpenedOnceStays
<1>4. \A s \in Sessions : Kept(s)'
  BY <1>2, OthersKept
<1>5. \A s \in Sessions : 0 <= snapshot[s].data
  BY <1>1, SnapshotsAreNumbered
<1>6. ReadIsLatest(r)'
  BY <1>2, <1>5, States DEF Becomes, ReadIsLatest
<1>7. \A s \in Sessions : Committing(s) => Committing(s)'
  BY <1>2, CommittingStays
<1>8. \A q \in Requests : ReadIsLatest(q)'
  BY <1>1, <1>2, <1>6, <1>7, OthersRead, SnapshotsAreNumbered
<1>9. QED
  BY <1>3, <1>4, <1>8 DEF KeptInv

LEMMA RefuseOrAddKeeps ==
    ASSUME AllInv, NEW r \in Requests, Refused(r) \/ AddMessage(r)
    PROVE  KeptInv'
<1>1. /\ request[r].pc = "begun" /\ request[r].op # "open"
      /\ UNCHANGED <<status, snapshot, redis, history, opened>>
      /\ \E answer \in {"duplicate", "refused", "error", "ok"} : Ends(r, answer)
  BY DEF Refused, AddMessage
<1>2. r \notin Openers
  BY <1>1 DEF AllInv, LocksInv, Consistent
<1>3. QED
  BY <1>1, <1>2, EndKeeps

LEMMA SaveKeeps ==
    ASSUME AllInv, NEW r \in Requests, SaveState(r)
    PROVE  KeptInv'
<1> USE DEF AllInv
<1> PICK s : s = request[r].session
  OBVIOUS
<1>1. /\ request[r].pc = "begun" /\ request[r].op = "save" /\ Ends(r, "ok")
      /\ rowLock[s] = {} /\ status[s] = "ACTIVE"
      /\ UNCHANGED <<status, snapshot, opened>>
  BY DEF SaveState, LockedActive
<1>2. PICK state \in State :
        /\ s \in Sessions
        /\ redis' = [redis EXCEPT ![s] = state]
        /\ history' = [history EXCEPT ![s] = Append(history[s], state)]
  BY Saved
<1>3. r \notin Openers /\ TypeOK
  BY <1>1 DEF LocksInv, Consistent
<1>4. PICK x \in Request :
        Becomes(r, x) /\ x.pc = "done" /\ x.view = EmptyView
  BY <1>1, <1>3, EndsBecomes
<1>5. OpenedOnce'
  BY <1>1, <1>3, <1>4, OpenedOnceStays
<1>6. /\ redis'[s] = state /\ history'[s] = Append(history[s], state)
      /\ \A t \in Sessions : t # s => redis'[t] = redis[t] /\ history'[t] = history[t]
  BY <1>2, <1>3 DEF TypeOK
<1>7. Kept(s)'
  <2>1. history[s] \in Seq(State) /\ Kept(s) /\ snapshot[s].data \in Nat
    BY <1>2, <1>3, SnapshotsAreNumbered DEF TypeOK, KeptInv
  <2>2. /\ Len(history'[s]) = Len(history[s]) + 1 /\ Len(history[s]) \in Nat
        /\ history'[s][Len(history'[s])] = state
    BY <1>6, <2>1
  <2>3. snapshot'[s].data <= Len(history'[s]) - 1
    BY <1>1, <2>1, <2>2 DEF Kept
  <2>4. QED
    BY <1>1, <1>6, <2>2, <2>3 DEF Kept, Latest
<1>8. \A t \in Sessions : Kept(t)'
  BY <1>1, <1>4, <1>6, <1>7, OthersKept
<1>9. \A t \in Sessions : 0 <= snapshot[t].data
  BY <1>3, SnapshotsAreNumbered
<1>10. ReadIsLatest(r)'
  BY <1>1, <1>4, <1>9, States DEF Becomes, ReadIsLatest
<1>11. \A t \in Sessions : Committing(t) => Committing(t)'
  BY <1>1, <1>4, CommittingStays
<1>12. \A q \in Requests : q # r => ReadIsLatest(q)'
  <2> SUFFICES ASSUME NEW q \in Requests, q # r PROVE ReadIsLatest(q)'
    OBVIOUS
  <2>1. request[q].pc \in {"insert", "persist", "commit"} => request[q].session # s
    <3>1. {q} # {} /\ Consistent(q)
      BY DEF LocksInv
    <3>2. QED
      BY <1>1, <3>1 DEF Consistent, Working
  <2>2. QED
    BY <1>1, <1>3, <1>4, <1>6, <1>11, <2>1, OthersRead, SnapshotsAreNumbered
<1>13. QED
  BY <1>5, <1>8, <1>10, <1>12 DEF KeptInv

\* A request goes on with what it read, and changed no state.
LEMMA ReadKeeps ==
    ASSUME AllInv, NEW r \in Requests, NEW x \in Request, Becomes(r, x),
           x.view = request[r].view, r \notin Openers, request[r].pc # "commit",
           UNCHANGED <<status, snapshot, redis, history, opened>>,
           \/ /\ x.pc = "restore" /\ x.op = "get" /\ x.session \in Sessions
              /\ status[x.session] = "COMPLETED" \/ Committing(x.session)
           \/ x.pc = "persist" /\ x.read = Latest(x.session)
    PROVE  KeptInv'
<1> USE DEF AllInv
<1>1. TypeOK
  BY DEF LocksInv
<1>2. OpenedOnce'
  BY OpenedOnceStays
<1>3. \A s \in Sessions : Kept(s)'
  BY OthersKept
<1>4. \A s \in Sessions : Committing(s) => Committing(s)'
  BY CommittingStays
<1>5. ReadIsLatest(r)'
  <2>1. request'[r] = x /\ ReadIsLatest(r)
    BY DEF Becomes, KeptInv
  <2>2. x.pc = "restore" => x.op = "get" /\ (status'[x.session] = "COMPLETED" \/ Committing(x.session)')
    BY <1>4
  <2>3. x.pc \in {"persist", "commit"} => x.read = history'[x.session][Len(history'[x.session])]
    BY DEF Latest
  <2>4. QED
    BY <2>1, <2>2, <2>3 DEF ReadIsLatest, Latest
<1>6. \A q \in Requests : ReadIsLatest(q)'
  BY <1>1, <1>4, <1>5, OthersRead, SnapshotsAreNumbered
<1>7. QED
  BY <1>2, <1>3, <1>6 DEF KeptInv

LEMMA GetKeeps ==
    ASSUME AllInv, NEW r \in Requests, GetState(r)
    PROVE  KeptInv'
<1> USE DEF AllInv
<1> PICK s : s = request[r].session
  OBVIOUS
<1>1. /\ request[r].pc = "begun" /\ request[r].op = "get"
      /\ request[r].view.status[s] = "ACTIVE"
      /\ UNCHANGED <<status, snapshot, redis, history, opened>>
  BY DEF GetState
<1>2. s \in Sessions /\ r \notin Openers /\ TypeOK /\ status[s] # "ABSENT"
  BY <1>1 DEF LocksInv, Consistent
<1>3. CASE redis[s] # Lost
  BY <1>1, <1>2, <1>3, EndKeeps DEF GetState
<1>4. CASE redis[s] = Lost
  <2>1. ReadState(r, s, "restore")
    BY <1>4 DEF GetState
  <2>2. PICK x \in Request :
          /\ Becomes(r, x)
          /\ x.op = request[r].op /\ x.session = s /\ x.view = request[r].view
          /\ x.pc = "restore"
    BY <1>2, <2>1, ReadsState
  <2>3. status[s] = "COMPLETED" \/ Committing(s)
    <3>1. status[s] \in Statuses /\ Kept(s)
      BY <1>2 DEF TypeOK, KeptInv
    <3>2. Latest(s) # Lost
      BY <1>2, LatestIsSaved
    <3>3. QED
      BY <1>2, <1>4, <3>1, <3>2 DEF Kept, Statuses
  <2>4. QED
    BY <1>1, <1>2, <2>2, <2>3, ReadKeeps
<1>5. QED
  BY <1>3, <1>4

LEMMA ReadLockedKeeps ==
    ASSUME AllInv, NEW r \in Requests, ReadLocked(r)
    PROVE  KeptInv'
<1> USE DEF AllInv
<1> PICK s : s = request[r].session
  OBVIOUS
<1>1. /\ request[r].pc = "begun" /\ request[r].op \in {"snapshot", "complete"}
      /\ rowLock[s] = {} /\ status[s] = "ACTIVE"
      /\ ReadState(r, s, "persist")
      /\ UNCHANGED <<status, snapshot, redis, history, opened>>
  BY DEF ReadLocked, LockedActive
<1>2. s \in Sessions /\ r \notin Openers /\ TypeOK
  BY <1>1 DEF LocksInv, Consistent
<1>3. redis[s] = Latest(s) /\ Latest(s) # Lost
  <2>1. ~ Committing(s)
    BY <1>1, <1>2, CommittingHolds
  <2>2. QED
    BY <1>1, <1>2, <2>1, LatestIsSaved DEF KeptInv, Kept
<1>4. PICK x \in Request :
        /\ Becomes(r, x)
        /\ x.op = request[r].op /\ x.session = s /\ x.view = request[r].view
        /\ x.pc = "persist" /\ x.read = redis[s]
  BY <1>1, <1>2, <1>3, ReadsState
<1>5. QED
  BY <1>1, <1>2, <1>3, <1>4, ReadKeeps

LEMMA RestoreKeeps ==
    ASSUME AllInv, NEW r \in Requests, Restore(r)
    PROVE  KeptInv'
<1> USE DEF AllInv
<1> PICK s : s = request[r].session
  OBVIOUS
<1>1. /\ request[r].pc = "restore"
      /\ redis' = [redis EXCEPT ![s] = request[r].read]
      /\ UNCHANGED <<status, snapshot, history, opened>>
  BY DEF Restore
<1>2. /\ request[r].op = "get" /\ s \in Sessions
      /\ status[s] = "COMPLETED" \/ Committing(s)
  BY <1>1 DEF KeptInv, ReadIsLatest, LocksInv, Consistent
<1>3. Ends(r, "ok") /\ r \notin Openers /\ TypeOK
  BY <1>1, <1>2 DEF Restore, LocksInv, Consistent
<1>4. PICK x \in Request :
        Becomes(r, x) /\ x.pc = "done" /\ x.view = EmptyView
  BY <1>3, EndsBecomes
<1>5. OpenedOnce'
  BY <1>1, <1>3, <1>4, OpenedOnceStays
<1>6. \A t \in Sessions : Committing(t) => Committing(t)'
  BY <1>1, <1>4, CommittingStays
<1>7. \A t \in Sessions : t # s => redis'[t] = redis[t]
  BY <1>1, <1>3 DEF TypeOK
<1>8. Kept(s)'
  BY <1>1, <1>2, <1>6 DEF KeptInv, Kept
<1>9. \A t \in Sessions : Kept(t)'
  BY <1>1, <1>4, <1>7, <1>8, OthersKept
<1>10. \A t \in Sessions : 0 <= snapshot[t].data
  BY <1>3, SnapshotsAreNumbered
<1>11. ReadIsLatest(r)'
  BY <1>1, <1>4, <1>10, States DEF Becomes, ReadIsLatest
<1>12. \A q \in Requests : q # r => ReadIsLatest(q)'
  <2>1. status[s] # "ABSENT"
    BY <1>2, CommittingHolds
  <2>2. \A q \in Requests : request[q].pc = "insert" => request[q].session # s
    BY <2>1 DEF LocksInv, Consistent
  <2>3. QED
    BY <1>1, <1>3, <1>4, <1>6, <1>7, <2>2, OthersRead, SnapshotsAreNumbered
<1>13. QED
  BY <1>5, <1>9, <1>11, <1>12 DEF KeptInv

\* The snapshot takes the state that was saved last, or keeps one as late.
LEMMA PersistsLatest ==
    ASSUME AllInv, NEW r \in Requests, NEW s \in Sessions, s = request[r].session,
           request[r].pc \in {"persist", "commit"}, Persists(r, s)
    PROVE  /\ r \notin Openers /\ status[s] = "ACTIVE" /\ rowLock[s] = {r}
           /\ \A t \in Sessions : t # s => snapshot'[t] = snapshot[t]
           /\ snapshot'[s].data = Len(history[s]) - 1
           /\ \A t \in Sessions : snapshot[t].data <= snapshot'[t].data /\ snapshot'[t].data \in Nat
<1> USE DEF AllInv
<1>1. /\ TypeOK /\ Consistent(r) /\ r \notin Openers /\ rowLock[s] = {r} /\ status[s] = "ACTIVE"
  BY DEF LocksInv, Consistent, Working
<1>2. PICK row \in State :
        /\ snapshot' = [snapshot EXCEPT ![s] = row]
        /\ \/ row.data = request[r].read.data
           \/ /\ row.data = snapshot[s].data
              /\ request[r].read.data = request[r].view.snapshot[s].data
  BY <1>1, Persisted
<1>3. snapshot'[s] = row /\ \A t \in Sessions : t # s => snapshot'[t] = snapshot[t]
  BY <1>1, <1>2 DEF TypeOK
<1>4. /\ request[r].read.data = Len(history[s]) - 1
      /\ request[r].view.snapshot[s].data <= snapshot[s].data
      /\ snapshot[s].data <= Len(history[s]) - 1
      /\ Len(history[s]) \in Nat
  <2>1. ReadIsLatest(r) /\ Kept(s)
    BY DEF KeptInv
  <2>2. Len(history[s]) \in Nat /\ Latest(s).data = Len(history[s]) - 1
    BY <1>1, LatestIsSaved
  <2>3. QED
    BY <1>1, <2>1, <2>2 DEF ReadIsLatest, Kept
<1>5. request[r].view.snapshot[s].data \in Nat /\ snapshot[s].data \in Nat /\ row.data \in Nat
  BY <1>1 DEF TypeOK, Request, View, State
<1>6. row.data = Len(history[s]) - 1
  BY <1>2, <1>4, <1>5
<1>7. snapshot[s].data <= snapshot'[s].data /\ snapshot'[s].data \in Nat
  BY <1>3, <1>4, <1>5, <1>6
<1>8. \A t \in Sessions : snapshot[t].data <= snapshot'[t].data /\ snapshot'[t].data \in Nat
  BY <1>1, <1>3, <1>7, SnapshotsAreNumbered
<1>9. QED
  BY <1>1, <1>3, <1>6, <1>8

LEMMA SaveSnapshotKeeps ==
    ASSUME AllInv, NEW r \in Requests, SaveSnapshot(r)
    PROVE  KeptInv'
<1> USE DEF AllInv
<1> PICK s : s = request[r].session
  OBVIOUS
<1>1. /\ request[r].pc = "persist" /\ Persists(r, s) /\ Ends(r, "ok")
      /\ UNCHANGED <<status, redis, history, opened>>
  BY DEF SaveSnapshot
<1>2. s \in Sessions /\ TypeOK
  BY <1>1 DEF LocksInv, Consistent
<1>3. /\ r \notin Openers /\ status[s] = "ACTIVE"
      /\ \A t \in Sessions : t # s => snapshot'[t] = snapshot[t]
      /\ snapshot'[s].data = Len(history[s]) - 1
      /\ \A t \in Sessions : snapshot[t].data <= snapshot'[t].data /\ snapshot'[t].data \in Nat
  BY <1>1, <1>2, PersistsLatest
<1>4. PICK x \in Request :
        Becomes(r, x) /\ x.pc = "done" /\ x.view = EmptyView
  BY <1>1, <1>2, EndsBecomes
<1>5. OpenedOnce'
  BY <1>1, <1>3, <1>4, OpenedOnceStays
<1>6. \A t \in Sessions : Committing(t) => Committing(t)'
  BY <1>1, <1>4, CommittingStays
<1>7. Kept(s)'
  <2>1. Kept(s) /\ Len(history[s]) \in Nat
    BY <1>2 DEF KeptInv, TypeOK
  <2>2. snapshot'[s].data <= Len(history[s]) - 1
    BY <1>3, <2>1
  <2>3. QED
    BY <1>1, <1>2, <1>3, <1>6, <2>1, <2>2 DEF Kept, Latest
<1>8. \A t \in Sessions : Kept(t)'
  BY <1>1, <1>3, <1>4, <1>7, OthersKept
<1>9. \A t \in Sessions : 0 <= snapshot'[t].data
  BY <1>3
<1>10. ReadIsLatest(r)'
  BY <1>4, <1>9, States DEF Becomes, ReadIsLatest
<1>11. \A q \in Requests : ReadIsLatest(q)'
  BY <1>1, <1>3, <1>4, <1>6, <1>10, OthersRead
<1>12. QED
  BY <1>5, <1>8, <1>11 DEF KeptInv

LEMMA DeleteKeeps ==
    ASSUME AllInv, NEW r \in Requests, DeleteState(r)
    PROVE  KeptInv'
<1> USE DEF AllInv
<1> PICK s : s = request[r].session
  OBVIOUS
<1>1. /\ request[r].pc = "persist" /\ Moves(r, "commit")
      /\ redis' = [redis EXCEPT ![s] = Lost]
      /\ UNCHANGED <<status, snapshot, history, opened>>
  BY DEF DeleteState
<1>2. s \in Sessions /\ TypeOK /\ r \notin Openers /\ status[s] = "ACTIVE"
  BY <1>1 DEF LocksInv, Consistent, Working
<1>3. PICK x \in Request :
        /\ Becomes(r, x)
        /\ x.pc = "commit" /\ x.session = s /\ x.view = request[r].view
        /\ x.read = request[r].read
  BY <1>1, <1>2, MovesBecomes
<1>4. OpenedOnce'
  BY <1>1, <1>2, <1>3, OpenedOnceStays
<1>5. Committing(s)' /\ \A t \in Sessions : Committing(t) => Committing(t)'
  <2>1. Committing(s)'
    BY <1>3 DEF Committing, Becomes
  <2>2. QED
    BY <1>1, <1>3, <2>1, CommittingStays
<1>6. \A t \in Sessions : t # s => redis'[t] = redis[t]
  BY <1>1, <1>2 DEF TypeOK
<1>7. Kept(s)'
  BY <1>1, <1>2, <1>5 DEF KeptInv, Kept
<1>8. \A t \in Sessions : Kept(t)'
  BY <1>1, <1>3, <1>6, <1>7, OthersKept
<1>9. ReadIsLatest(r)'
  <2>1. request'[r] = x /\ ReadIsLatest(r)
    BY <1>3 DEF Becomes, KeptInv
  <2>2. x.read = history'[s][Len(history'[s])]
    BY <1>1, <1>3, <2>1 DEF ReadIsLatest, Latest
  <2>3. QED
    BY <1>1, <1>3, <2>1, <2>2 DEF ReadIsLatest, Latest
<1>10. \A q \in Requests : q # r => ReadIsLatest(q)'
  <2>1. \A q \in Requests : request[q].pc = "insert" => request[q].session # s
    BY <1>2 DEF LocksInv, Consistent
  <2>2. QED
    BY <1>1, <1>2, <1>3, <1>5, <1>6, <2>1, OthersRead, SnapshotsAreNumbered
<1>11. QED
  BY <1>4, <1>8, <1>9, <1>10 DEF KeptInv

LEMMA CompleteKeeps ==
    ASSUME AllInv, NEW r \in Requests, Complete(r)
    PROVE  KeptInv'
<1> USE DEF AllInv
<1> PICK s : s = request[r].session
  OBVIOUS
<1>1. /\ request[r].pc = "commit" /\ Persists(r, s) /\ Ends(r, "ok")
      /\ status' = [status EXCEPT ![s] = "COMPLETED"]
      /\ UNCHANGED <<redis, history, opened>>
  BY DEF Complete
<1>2. s \in Sessions /\ TypeOK
  BY <1>1 DEF LocksInv, Consistent, Working
<1>3. /\ r \notin Openers /\ status[s] = "ACTIVE"
      /\ \A t \in Sessions : t # s => snapshot'[t] = snapshot[t]
      /\ snapshot'[s].data = Len(history[s]) - 1
      /\ \A t \in Sessions : snapshot[t].data <= snapshot'[t].data /\ snapshot'[t].data \in Nat
  BY <1>1, <1>2, PersistsLatest
<1>4. PICK x \in Request :
        Becomes(r, x) /\ x.pc = "done" /\ x.view = EmptyView
  BY <1>1, <1>2, EndsBecomes
<1>5. OpenedOnce'
  BY <1>1, <1>3, <1>4, OpenedOnceStays
<1>6. status'[s] = "COMPLETED" /\ \A t \in Sessions : t # s => status'[t] = status[t]
  BY <1>1, <1>2 DEF TypeOK
<1>7. \A t \in Sessions : Committing(t) => status'[t] = "COMPLETED" \/ Committing(t)'
  <2>1. \A t \in Sessions : t # s /\ Committing(t) => Committing(t)'
    BY <1>4, CommittingStays
  <2>2. QED
    BY <1>6, <2>1
<1>8. Kept(s)'
  <2>1. Len(history[s]) \in Nat
    BY <1>2 DEF TypeOK
  <2>2. snapshot'[s].data <= Len(history[s]) - 1
    BY <1>3, <2>1
  <2>3. QED
    BY <1>1, <1>3, <1>6, <2>2 DEF Kept
<1>9. \A t \in Sessions : Kept(t)'
  BY <1>1, <1>3, <1>4, <1>6, <1>8, OthersKept
<1>10. \A t \in Sessions : 0 <= snapshot'[t].data
  BY <1>3
<1>11. ReadIsLatest(r)'
  BY <1>4, <1>10, States DEF Becomes, ReadIsLatest
<1>12. \A q \in Requests : ReadIsLatest(q)'
  BY <1>1, <1>3, <1>4, <1>6, <1>7, <1>11, OthersRead
<1>13. QED
  BY <1>5, <1>9, <1>12 DEF KeptInv

LEMMA KeptStep == AllInv /\ Undisturbed /\ [Next]_vars /\ Undisturbed' => KeptInv'
<1> SUFFICES ASSUME AllInv, Undisturbed, [Next]_vars, Undisturbed' PROVE KeptInv'
  OBVIOUS
<1>1. CASE UNCHANGED vars
  BY <1>1 DEF vars, AllInv, KeptInv, OpenedOnce, Kept, ReadIsLatest, Committing, Latest
<1>2. CASE Next
  <2>1. losses' = losses /\ crashes' = crashes /\ losses \in Nat /\ crashes \in Nat
    BY <1>2, UndisturbedBefore, Numbers DEF AllInv, LocksInv, TypeOK
  <2>2. ASSUME NEW r \in Requests, Crash(r) PROVE FALSE
    BY <2>1, <2>2 DEF Crash
  <2>3. ASSUME NEW s \in Sessions, Lose(s) PROVE FALSE
    BY <2>1, <2>3 DEF Lose
  <2>4. PICK r \in Requests :
          \/ Begin(r) \/ Open(r) \/ CommitNew(r) \/ Refused(r)
          \/ AddMessage(r) \/ SaveState(r) \/ GetState(r) \/ ReadLocked(r)
          \/ Restore(r) \/ SaveSnapshot(r) \/ DeleteState(r) \/ Complete(r)
    BY <1>2, <2>2, <2>3, NoWriteBack DEF Next
  <2>5. QED
    BY <2>4, BeginKeeps, OpenKeeps, CommitNewKeeps, RefuseOrAddKeeps, SaveKeeps, GetKeeps,
       ReadLockedKeeps, RestoreKeeps, SaveSnapshotKeeps, DeleteKeeps, CompleteKeeps
<1>3. QED
  BY <1>1, <1>2

LEMMA SessionsHold == Spec => []SessionsInv
<1>1. Init => HistoryInv /\ KeptInv
  <2> SUFFICES ASSUME Init PROVE HistoryInv /\ KeptInv
    OBVIOUS
  <2>1. \A r \in Requests : request[r].pc = "unsent" /\ request[r].view = EmptyView
    BY DEF Init
  <2>2. \A s \in Sessions : status[s] = "ABSENT" /\ snapshot[s] = Initial /\ history[s] = <<>>
    BY States DEF Init
  <2>3. HistoryInv
    <3>1. Len(<<>>) = 0 /\ 1..0 = {}
      OBVIOUS
    <3>2. \A s \in Sessions : Numbered(s)
      BY <2>2, <3>1 DEF Numbered
    <3>3. QED
      BY <2>1, <3>2 DEF HistoryInv, Founded
  <2>4. \A s \in Sessions : Kept(s)
    BY <2>2, States DEF Kept
  <2>5. \A r \in Requests : ReadIsLatest(r)
    <3>1. \A s \in Sessions : EmptyView.snapshot[s].data <= snapshot[s].data
      BY <2>2, States
    <3>2. QED
      BY <2>1, <3>1 DEF ReadIsLatest
  <2>6. OpenedOnce
    BY <2>1, SessionsAssumption DEF OpenedOnce, Init
  <2>7. QED
    BY <2>3, <2>4, <2>5, <2>6 DEF KeptInv
<1>2. SessionsInv /\ LocksInv' /\ [Next]_vars => SessionsInv'
  <2> SUFFICES ASSUME SessionsInv, LocksInv', [Next]_vars PROVE SessionsInv'
    OBVIOUS
  <2>1. HistoryInv'
    BY HistoryStep DEF SessionsInv
  <2>2. Undisturbed' => Undisturbed
    <3>1. CASE UNCHANGED vars
      BY <3>1 DEF vars, Undisturbed
    <3>2. QED
      BY <3>1, UndisturbedBefore DEF SessionsInv
  <2>3. Undisturbed' => KeptInv'
    BY <2>2, KeptStep DEF SessionsInv, AllInv
  <2>4. QED
    BY <2>1, <2>3 DEF SessionsInv
<1>3. LocksInv /\ HistoryInv /\ KeptInv => SessionsInv
  BY DEF SessionsInv
<1>4. QED
  BY <1>1, <1>2, <1>3, LocksHold, PTL DEF Spec

\* However its reads, saves, snapshots and completion overlap, a session's
\* readers get the state that was saved last, and its final snapshot keeps it.
THEOREM ReadersGetTheLatest == Spec => []LatestIsKept
<1>1. SessionsInv => LatestIsKept
  <2> SUFFICES ASSUME SessionsInv, Undisturbed
               PROVE  /\ StateIsLatest
                      /\ \A s \in Sessions : status[s] = "COMPLETED" =>
                           snapshot[s].data = Len(history[s]) - 1
    BY DEF LatestIsKept
  <2>1. LocksInv /\ KeptInv
    BY DEF SessionsInv
  <2>2. StateIsLatest
    BY <2>1, CommittingHolds DEF StateIsLatest, KeptInv, Kept, Latest
  <2>3. QED
    BY <2>1, <2>2 DEF KeptInv, Kept
<1>2. QED
  BY <1>1, SessionsHold, PTL
=============================================================================
