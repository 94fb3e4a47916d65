------------------------- MODULE ConfirmationsProofs -------------------------
(***************************************************************************)
(* Theorems about Confirmations. The first two hold for every instance,    *)
(* the others for one lock: any number of overlapping turns and requests,  *)
(* whichever of their calls fail.                                          *)
(***************************************************************************)
EXTENDS Confirmations, TLAPS

-----------------------------------------------------------------------------
(***************************************************************************)
(* Type correctness.                                                       *)
(***************************************************************************)

\* TypeOK is not inductive: what a request records must be an outcome.
Recording ==
    \A d \in Decisions :
        decision[d].pc \in {"execute", "fill", "resolve"} => decision[d].outcome \in Outcomes

Typed == TypeOK /\ Recording

\* What an update of a request leaves of the requests.
LEMMA UpdateTyped ==
    ASSUME Typed, NEW d \in Decisions, NEW r \in Decision,
           decision' = [decision EXCEPT ![d] = r],
           r.pc \in {"execute", "fill", "resolve"} => r.outcome \in Outcomes
    PROVE  decision' \in [Decisions -> Decision] /\ Recording'
BY DEF Typed, TypeOK, Recording

LEMMA AnswerTyped ==
    ASSUME Typed, NEW d \in Decisions,
           NEW o \in Outcomes \cup {"NONE", "REFUSED", "ERROR"}, Answer(d, o)
    PROVE  /\ decision' \in [Decisions -> Decision] /\ Recording'
           /\ holder' \in [Locks -> SUBSET Decisions]
<1> DEFINE r == [decision[d] EXCEPT !.pc = "done", !.outcome = o]
<1>1. decision[d] \in Decision
  BY DEF Typed, TypeOK
<1>2. r \in Decision /\ r.pc = "done"
  BY <1>1 DEF Decision
<1>3. decision' = [decision EXCEPT ![d] = r]
  BY DEF Answer
<1>4. holder' \in [Locks -> SUBSET Decisions]
  BY DEF Answer, Typed, TypeOK
<1> HIDE DEF r
<1> QED
  BY <1>2, <1>3, <1>4, UpdateTyped

LEMMA LosesTyped ==
    ASSUME Typed, NEW d \in Decisions, Loses(d)
    PROVE  /\ decision' \in [Decisions -> Decision] /\ Recording'
           /\ holder' \in [Locks -> SUBSET Decisions]
           /\ lost' \in 0..MaxLost
<1>1. Answer(d, "ERROR") /\ lost < MaxLost /\ lost' = lost + 1
  BY DEF Loses
<1>2. lost' \in 0..MaxLost
  BY <1>1, ConfirmationsAssumption DEF Typed, TypeOK
<1> QED
  BY <1>1, <1>2, AnswerTyped

LEMMA ArrivesTyped ==
    ASSUME Typed, NEW d \in Decisions, NEW pc \in {"fill", "resolve"}, Arrives(d, pc),
           decision[d].pc \in {"execute", "fill", "resolve"}
    PROVE  /\ decision' \in [Decisions -> Decision] /\ Recording'
           /\ holder' \in [Locks -> SUBSET Decisions]
           /\ lost' \in 0..MaxLost
<1> DEFINE r == [decision[d] EXCEPT !.pc = pc]
<1>1. decision[d] \in Decision /\ decision[d].outcome \in Outcomes
  BY DEF Typed, TypeOK, Recording
<1>2. r \in Decision /\ r.outcome \in Outcomes
  BY <1>1 DEF Decision
<1>3. decision' = [decision EXCEPT ![d] = r] /\ UNCHANGED <<holder, lost>>
  BY DEF Arrives
<1> HIDE DEF r
<1> QED
  BY <1>2, <1>3, UpdateTyped DEF Typed, TypeOK

LEMMA ProceedTyped ==
    ASSUME Typed, NEW d \in Decisions, NEW pc \in {"execute", "resolve"},
           NEW o \in Outcomes, Proceed(d, pc, o), Takes(d)
    PROVE  /\ decision' \in [Decisions -> Decision] /\ Recording'
           /\ holder' \in [Locks -> SUBSET Decisions]
<1> DEFINE r == [decision[d] EXCEPT !.pc = pc, !.read = conv, !.outcome = o]
<1>1. decision[d] \in Decision /\ conv \in Conv
  BY DEF Typed, TypeOK
<1>2. r \in Decision /\ r.outcome \in Outcomes
  BY <1>1 DEF Decision
<1>3. decision' = [decision EXCEPT ![d] = r]
  BY DEF Proceed
<1>4. holder' \in [Locks -> SUBSET Decisions]
  BY DEF Takes, Typed, TypeOK
<1> HIDE DEF r
<1> QED
  BY <1>2, <1>3, <1>4, UpdateTyped

LEMMA LoadTyped ==
    ASSUME Typed, NEW d \in Decisions, Load(d)
    PROVE  /\ decision' \in [Decisions -> Decision] /\ Recording'
           /\ holder' \in [Locks -> SUBSET Decisions]
<1>1. CASE LoadPending(d)
  BY <1>1, ProceedTyped DEF LoadPending, Outcomes
<1>2. CASE LoadDecided(d)
  <2>1. conv.status \in Outcomes \cup {"NONE", "REFUSED", "ERROR"}
    BY DEF Typed, TypeOK, Conv
  <2> QED
    BY <1>2, <2>1, AnswerTyped DEF LoadDecided
<1>3. CASE LoadRefused(d)
  BY <1>3, AnswerTyped DEF LoadRefused
<1> QED
  BY <1>1, <1>2, <1>3 DEF Load

LEMMA TypeInductive == Typed /\ [Next]_vars => Typed'
<1> SUFFICES ASSUME Typed, [Next]_vars PROVE Typed'
  OBVIOUS
<1> USE ConfirmationsAssumption
<1>1. ASSUME NEW t \in Turns, Begin(t) \/ Save(t) \/ Draft(t) \/ Abandon(t)
      PROVE  Typed'
  <2>1. turn[t] \in Turn /\ conv \in Conv /\ turn[t].read \in Conv
    BY DEF Typed, TypeOK, Turn
  <2>2. turn' \in [Turns -> Turn]
    BY <1>1, <2>1 DEF Typed, TypeOK, Begin, Save, Draft, Abandon, Ends, Turn
  <2>3. conv' \in Conv /\ drafted' \in 0..MaxActions
    BY <1>1, <2>1 DEF Typed, TypeOK, Begin, Save, Draft, Abandon, Writes, Cleared, Conv, None
  <2>4. overtaken' \in BOOLEAN
    BY <1>1 DEF Typed, TypeOK, Begin, Save, Draft, Abandon, Writes
  <2>5. UNCHANGED <<expired, effects, decided, decision, holder, lost>>
    BY <1>1 DEF Begin, Save, Draft, Abandon
  <2> QED
    BY <2>2, <2>3, <2>4, <2>5 DEF Typed, TypeOK, Recording
<1>2. ASSUME NEW d \in Decisions, Click(d) PROVE Typed'
  <2>1. PICK a \in 1..drafted, right \in BOOLEAN, confirms \in BOOLEAN, l \in Locks :
          decision' = [decision EXCEPT ![d] =
            [@ EXCEPT !.pc = "waiting", !.at = l, !.confirms = confirms,
                      !.id = a, !.token = IF right THEN a ELSE None]]
    BY <1>2 DEF Click
  <2> DEFINE token == IF right THEN a ELSE None
  <2> DEFINE r == [decision[d] EXCEPT !.pc = "waiting", !.at = l, !.confirms = confirms,
                      !.id = a, !.token = token]
  <2>2. decision[d] \in Decision /\ a \in 0..MaxActions /\ token \in 0..MaxActions
    BY DEF Typed, TypeOK, None
  <2>4. decision' = [decision EXCEPT ![d] = r]
    BY <2>1
  <2> HIDE DEF token
  <2>3. r \in Decision /\ r.pc = "waiting"
    BY <2>2 DEF Decision
  <2> HIDE DEF r
  <2>5. decision' \in [Decisions -> Decision] /\ Recording'
    BY <2>3, <2>4, UpdateTyped
  <2> QED
    BY <1>2, <2>5 DEF Typed, TypeOK, Click
<1>3. ASSUME NEW d \in Decisions, Load(d) PROVE Typed'
  BY <1>3, LoadTyped DEF Typed, TypeOK, Load
<1>4. ASSUME NEW d \in Decisions, Execute(d) PROVE Typed'
  <2>1. effects' \in [Actions -> SUBSET Decisions]
    BY <1>4 DEF Typed, TypeOK, Execute
  <2>2. /\ decision' \in [Decisions -> Decision] /\ Recording'
        /\ holder' \in [Locks -> SUBSET Decisions] /\ lost' \in 0..MaxLost
    BY <1>4, ArrivesTyped, LosesTyped DEF Execute
  <2> QED
    BY <1>4, <2>1, <2>2 DEF Typed, TypeOK, Execute
<1>5. ASSUME NEW d \in Decisions, Fill(d) PROVE Typed'
  <2>1. /\ decision' \in [Decisions -> Decision] /\ Recording'
        /\ holder' \in [Locks -> SUBSET Decisions] /\ lost' \in 0..MaxLost
    BY <1>5, ArrivesTyped, LosesTyped DEF Fill
  <2> QED
    BY <1>5, <2>1 DEF Typed, TypeOK, Fill
<1>6. ASSUME NEW d \in Decisions, Unsent(d) PROVE Typed'
  BY <1>6, LosesTyped DEF Typed, TypeOK, Unsent
<1>7. ASSUME NEW d \in Decisions, Resolve(d) PROVE Typed'
  <2> DEFINE a == decision[d].read.pending
  <2>1. decision[d].outcome \in Outcomes /\ a \in 0..MaxActions
    BY <1>7 DEF Typed, TypeOK, Recording, Resolve, Decision, Conv
  <2>2. conv' \in Conv
    BY <1>7, <2>1 DEF Resolve, Writes, Resolved, Conv, None
  <2>3. decided' \in [Actions -> SUBSET Outcomes]
    BY <1>7, <2>1 DEF Resolve, Typed, TypeOK
  <2>4. /\ decision' \in [Decisions -> Decision] /\ Recording'
        /\ holder' \in [Locks -> SUBSET Decisions] /\ lost' \in 0..MaxLost
    <3>1. CASE Loses(d)
      BY <3>1, LosesTyped
    <3>2. CASE Answer(d, decision[d].outcome) /\ UNCHANGED lost
      BY <2>1, <3>2, AnswerTyped DEF Typed, TypeOK
    <3> QED
      BY <1>7, <3>1, <3>2 DEF Resolve
  <2>5. overtaken' \in BOOLEAN
    BY <1>7 DEF Resolve, Writes, Typed, TypeOK
  <2> QED
    BY <1>7, <2>2, <2>3, <2>4, <2>5 DEF Typed, TypeOK, Resolve
<1>8. ASSUME NEW a \in Actions, Expire(a) PROVE Typed'
  BY <1>8 DEF Typed, TypeOK, Expire, Recording
<1>9. CASE UNCHANGED vars
  BY <1>9 DEF Typed, TypeOK, vars, Recording
<1> QED
  BY <1>1, <1>2, <1>3, <1>4, <1>5, <1>6, <1>7, <1>8, <1>9 DEF Next

LEMMA TypeInit == Init => Typed
<1> SUFFICES ASSUME Init PROVE Typed
  OBVIOUS
<1> USE ConfirmationsAssumption
<1>1. EmptyConv \in Conv
  BY DEF EmptyConv, Conv, None
<1>2. decision \in [Decisions -> Decision] /\ Recording
  BY <1>1 DEF Init, Decision, Recording, None
<1>3. turn \in [Turns -> Turn]
  BY <1>1 DEF Init, Turn
<1>4. effects \in [Actions -> SUBSET Decisions] /\ decided \in [Actions -> SUBSET Outcomes]
  BY DEF Init
<1>5. holder \in [Locks -> SUBSET Decisions]
  BY DEF Init
<1>6. drafted \in 0..MaxActions /\ lost \in 0..MaxLost
  BY DEF Init
<1> QED
  BY <1>1, <1>2, <1>3, <1>4, <1>5, <1>6 DEF Init, Typed, TypeOK

\* Every state of the specification has the types of TypeOK.
THEOREM TypeCorrect == Spec => []TypeOK
<1>1. Typed => TypeOK
  BY DEF Typed
<1> QED
  BY <1>1, TypeInit, TypeInductive, PTL DEF Spec

-----------------------------------------------------------------------------
(***************************************************************************)
(* Every instance: only what was confirmed is carried out.                 *)
(***************************************************************************)

\* What Load judged by stays with the request until it calls the back end.
Judged ==
    \A d \in Decisions : decision[d].pc = "execute" =>
        /\ decision[d].confirms
        /\ decision[d].id = decision[d].read.pending
        /\ decision[d].token = decision[d].read.pending

\* What the ways to change a request leave of it and of the others.
LEMMA AnswerEnds ==
    ASSUME Typed, NEW e \in Decisions, NEW o, Answer(e, o)
    PROVE  /\ decision'[e].pc = "done" /\ decision'[e].outcome = o
           /\ decision'[e].id = decision[e].id
           /\ decision'[e].read = decision[e].read
           /\ \A d \in Decisions : d # e => decision'[d] = decision[d]
<1>1. decision \in [Decisions -> Decision]
  BY DEF Typed, TypeOK
<1> QED
  BY <1>1 DEF Answer, Decision

LEMMA ArrivesMoves ==
    ASSUME Typed, NEW e \in Decisions, NEW pc, Arrives(e, pc)
    PROVE  /\ decision'[e].pc = pc
           /\ decision'[e].id = decision[e].id
           /\ decision'[e].at = decision[e].at
           /\ decision'[e].read = decision[e].read
           /\ decision'[e].outcome = decision[e].outcome
           /\ \A d \in Decisions : d # e => decision'[d] = decision[d]
<1>1. decision \in [Decisions -> Decision]
  BY DEF Typed, TypeOK
<1> QED
  BY <1>1 DEF Arrives, Decision

LEMMA ProceedMoves ==
    ASSUME Typed, NEW e \in Decisions, NEW pc, NEW o, Proceed(e, pc, o)
    PROVE  /\ decision'[e].pc = pc /\ decision'[e].outcome = o
           /\ decision'[e].read = conv
           /\ decision'[e].id = decision[e].id
           /\ decision'[e].token = decision[e].token
           /\ decision'[e].at = decision[e].at
           /\ decision'[e].confirms = decision[e].confirms
           /\ \A d \in Decisions : d # e => decision'[d] = decision[d]
<1>1. decision \in [Decisions -> Decision]
  BY DEF Typed, TypeOK
<1> QED
  BY <1>1 DEF Proceed, Decision

\* A request that stops, fails or is answered ends; one whose call succeeds
\* moves on.
LEMMA CallMoves ==
    ASSUME Typed, NEW e \in Decisions, Execute(e) \/ Fill(e) \/ Unsent(e) \/ Resolve(e)
    PROVE  (\E o : Answer(e, o)) \/ Arrives(e, "fill") \/ Arrives(e, "resolve")
<1>1. CASE Execute(e)
  BY <1>1 DEF Execute, Loses
<1>2. CASE Fill(e)
  BY <1>2 DEF Fill, Loses
<1>3. CASE Unsent(e)
  BY <1>3 DEF Unsent, Loses
<1>4. CASE Resolve(e)
  BY <1>4 DEF Resolve, Loses
<1> QED
  BY <1>1, <1>2, <1>3, <1>4

\* Only Load sends a request on to the back end.
LEMMA OnlyLoadProceeds ==
    ASSUME Typed, Next, NEW d \in Decisions, decision'[d].pc = "execute"
    PROVE  decision'[d] = decision[d] \/ LoadPending(d)
<1>1. ASSUME NEW t \in Turns, Begin(t) \/ Save(t) \/ Draft(t) \/ Abandon(t)
      PROVE  decision'[d] = decision[d]
  BY <1>1 DEF Begin, Save, Draft, Abandon
<1>2. ASSUME NEW e \in Decisions, Click(e) PROVE decision'[d] = decision[d]
  <2>1. \E r : decision' = [decision EXCEPT ![e] = r] /\ r.pc = "waiting"
    <3>1. PICK a \in 1..drafted, right \in BOOLEAN, confirms \in BOOLEAN, l \in Locks :
            decision' = [decision EXCEPT ![e] =
              [@ EXCEPT !.pc = "waiting", !.at = l, !.confirms = confirms,
                        !.id = a, !.token = IF right THEN a ELSE None]]
      BY <1>2 DEF Click
    <3> DEFINE token == IF right THEN a ELSE None
    <3> DEFINE r == [decision[e] EXCEPT !.pc = "waiting", !.at = l,
                          !.confirms = confirms, !.id = a, !.token = token]
    <3>2. decision' = [decision EXCEPT ![e] = r]
      BY <3>1
    <3> HIDE DEF token
    <3>3. r.pc = "waiting"
      BY DEF Decision, Typed, TypeOK
    <3> QED BY <3>2, <3>3
  <2> QED BY <2>1 DEF Typed, TypeOK
<1>3. ASSUME NEW e \in Decisions, Load(e)
      PROVE  decision'[d] = decision[d] \/ LoadPending(d)
  <2>1. CASE LoadPending(e)
    BY <2>1, ProceedMoves DEF LoadPending
  <2>2. CASE \E o : Answer(e, o)
    BY <2>2, AnswerEnds
  <2> QED
    BY <1>3, <2>1, <2>2 DEF Load, LoadDecided, LoadRefused
<1>4. ASSUME NEW e \in Decisions, Execute(e) \/ Fill(e) \/ Unsent(e) \/ Resolve(e)
      PROVE  decision'[d] = decision[d]
  BY <1>4, CallMoves, AnswerEnds, ArrivesMoves
<1>5. ASSUME NEW a \in Actions, Expire(a) PROVE decision'[d] = decision[d]
  BY <1>5 DEF Expire
<1> QED
  BY <1>1, <1>2, <1>3, <1>4, <1>5 DEF Next

LEMMA JudgedInductive == Typed /\ Judged /\ [Next]_vars => Judged'
<1> SUFFICES ASSUME Typed, Judged, [Next]_vars,
                    NEW d \in Decisions, decision'[d].pc = "execute"
             PROVE  /\ decision'[d].confirms
                    /\ decision'[d].id = decision'[d].read.pending
                    /\ decision'[d].token = decision'[d].read.pending
  BY DEF Judged
<1>1. CASE decision'[d] = decision[d]
  BY <1>1 DEF Judged
<1>2. CASE LoadPending(d)
  <2>1. decision[d].confirms /\ Proceed(d, "execute", "EXECUTED")
    BY <1>2, ProceedMoves DEF LoadPending
  <2> QED
    BY <1>2, <2>1, ProceedMoves DEF LoadPending, Presented
<1>3. CASE UNCHANGED vars
  BY <1>3 DEF vars, Judged
<1> QED
  BY <1>1, <1>2, <1>3, OnlyLoadProceeds

LEMMA NothingSentYet ==
    ASSUME Init, NEW d \in Decisions
    PROVE  decision[d].pc = "unsent" /\ decision[d].read = EmptyConv
<1>1. PICK l \in Locks :
         decision = [e \in Decisions |->
            [pc |-> "unsent", at |-> l, confirms |-> TRUE, id |-> None,
             token |-> None, read |-> EmptyConv, outcome |-> "NONE"]]
  BY DEF Init
<1> QED
  BY <1>1

\* Only Execute has an effect, on the action its request judged by.
LEMMA EffectsOfExecute ==
    ASSUME Typed, Next, NEW a \in Actions, effects'[a] # effects[a]
    PROVE  \E d \in Decisions : Execute(d) /\ a = decision[d].read.pending
<1>1. PICK d \in Decisions : Execute(d)
  BY DEF Next, Begin, Save, Draft, Abandon, Click, Load, Fill, Unsent, Resolve, Expire
<1>2. a = decision[d].read.pending
  <2>1. effects' = [effects EXCEPT ![decision[d].read.pending] = @ \cup {d}]
    BY <1>1 DEF Execute
  <2> QED
    BY <2>1 DEF Typed, TypeOK
<1> QED
  BY <1>1, <1>2

\* Whatever is drafted, decided or replaced meanwhile, the back end carries out
\* only an action that some request confirmed by its id and with its token.
THEOREM OnlyConfirmed == Spec => ConfirmedOnly
<1>1. Init => Typed /\ Judged
  BY TypeInit, NothingSentYet DEF Judged
<1>2. Typed /\ Judged /\ [Next]_vars => (Typed /\ Judged)'
  BY TypeInductive, JudgedInductive
<1>3. Typed /\ Judged /\ [Next]_vars =>
        [\A a \in Actions : effects'[a] # effects[a] =>
           \E d \in Decisions :
              /\ decision[d].pc = "execute" /\ decision[d].confirms
              /\ decision[d].id = a /\ decision[d].token = a]_vars
  BY EffectsOfExecute DEF Judged, Execute
<1> QED
  BY <1>1, <1>2, <1>3, PTL DEF Spec, ConfirmedOnly

-----------------------------------------------------------------------------
(***************************************************************************)
(* One lock: until a write overtakes another, a decision at work is about  *)
(* an action that nothing was recorded for, and what is recorded for an    *)
(* action accounts for every request that carried it out.                  *)
(***************************************************************************)
OneLock == \A k, l \in Locks : k = l

Critical(d) == decision[d].pc \in {"execute", "fill", "resolve"}

\* The POST took effect and the answer is still to come.
Underway(d) ==
    \/ decision[d].pc = "fill"
    \/ decision[d].pc = "resolve" /\ decision[d].outcome = "EXECUTED"

Locked ==
    \A d \in Decisions : Critical(d) =>
        /\ holder[decision[d].at] = {d}
        /\ decision[d].id = decision[d].read.pending
        /\ decision[d].pc \in {"execute", "fill"} => decision[d].outcome = "EXECUTED"

Named ==
    /\ \A d \in Decisions : decision[d].pc # "unsent" =>
          decision[d].id \in Actions /\ decision[d].id <= drafted
    /\ \A a \in Actions : a > drafted => decided[a] = {}

Current ==
    /\ conv.pending # None =>
         conv.pending <= drafted /\ decided[conv.pending] = {}
    /\ conv.resolved # None =>
         conv.resolved <= drafted /\ decided[conv.resolved] = {conv.status}

Undecided ==
    \A d \in Decisions :
        /\ Critical(d) => decided[decision[d].id] = {}
        /\ Underway(d) => d \in effects[decision[d].id]

\* A request that carried an action out.
Accounted(a, e) ==
    /\ decision[e].id = a
    /\ \/ Failed(e)
       \/ Underway(e)
       \/ decision[e].pc = "done" /\ decided[a] = {"EXECUTED"}

\* What was recorded for an action.
Recorded(a) ==
    \/ decided[a] = {}
    \/ decided[a] = {"EXECUTED"} /\ effects[a] # {}
    \/ decided[a] \in {{"CANCELED"}, {"EXPIRED"}} /\ \A e \in effects[a] : Failed(e)

Account ==
    \A a \in Actions :
        /\ \A e \in effects[a] : Accounted(a, e)
        /\ Recorded(a)
        /\ \A d, e \in effects[a] : d = e \/ Failed(d) \/ Failed(e)

Answered ==
    \A d \in Decisions :
        decision[d].pc = "done" /\ decision[d].outcome \in Outcomes =>
            decided[decision[d].id] = {decision[d].outcome}

Faithful == Current /\ Undecided /\ Account /\ Answered

LockInv == Typed /\ Locked /\ Named /\ (~overtaken => Faithful)

LEMMA Types ==
    ASSUME Typed
    PROVE  /\ conv \in Conv
           /\ conv.pending \in 0..MaxActions /\ conv.resolved \in 0..MaxActions
           /\ conv.status \in Outcomes \cup {"NONE"}
           /\ drafted \in 0..MaxActions
           /\ effects \in [Actions -> SUBSET Decisions]
           /\ decided \in [Actions -> SUBSET Outcomes]
           /\ holder \in [Locks -> SUBSET Decisions]
           /\ decision \in [Decisions -> Decision] /\ turn \in [Turns -> Turn]
           /\ \A d \in Decisions : decision[d].at \in Locks /\ decision[d].id \in 0..MaxActions
BY DEF Typed, TypeOK, Conv, Decision

\* One request at a time is between its read and its answer.
LEMMA OneAtATime ==
    ASSUME OneLock, LockInv, NEW d \in Decisions,
           Critical(d) \/ LockFree(d)
    PROVE  \A e \in Decisions : Critical(e) => e = d /\ Critical(d)
<1>1. \A e \in Decisions : Critical(e) => holder[decision[e].at] = {e}
  BY DEF LockInv, Locked
<1>2. \A e \in Decisions : decision[e].at = decision[d].at
  BY Types DEF OneLock, LockInv
<1> QED
  BY <1>1, <1>2 DEF LockFree

\* A turn that writes over the state it read keeps the state about actions that
\* nothing was recorded for.
LEMMA TurnKeeps ==
    ASSUME LockInv, NEW t \in Turns, Begin(t) \/ Save(t) \/ Draft(t) \/ Abandon(t)
    PROVE  Locked' /\ Named' /\ (~overtaken' => Faithful')
<1> USE ConfirmationsAssumption
<1>1. UNCHANGED <<effects, decided, decision, holder>> /\ drafted' \in {drafted, drafted + 1}
  BY DEF Begin, Save, Draft, Abandon
<1>2. Locked'
  BY <1>1 DEF LockInv, Locked, Critical
<1>3. Named'
  BY <1>1, Types DEF LockInv, Named, Actions
<1>4. ASSUME ~overtaken' PROVE Faithful'
  <2>1. ~overtaken /\ (Begin(t) \/ Abandon(t) \/ turn[t].read = conv)
    <3>1. CASE Begin(t) \/ Abandon(t)
      BY <1>4, <3>1 DEF Begin, Abandon
    <3>2. CASE Save(t) \/ Draft(t)
      <4>1. overtaken' = (overtaken \/ turn[t].read # conv)
        BY <3>2 DEF Save, Draft, Writes
      <4> QED BY <1>4, <4>1
    <3> QED BY <3>1, <3>2
  <2>2. Undecided' /\ Account' /\ Answered'
    BY <1>1, <2>1 DEF LockInv, Faithful, Undecided, Account, Accounted, Recorded, Failed,
                       Underway, Answered, Critical
  <2>3. Current'
    <3>1. CASE Draft(t)
      <4>1. conv' = [conv EXCEPT !.pending = drafted + 1] /\ drafted' = drafted + 1
            /\ drafted < MaxActions
        BY <2>1, <3>1 DEF Draft, Writes, Begin, Abandon, Ends
      <4>2. conv'.pending = drafted + 1 /\ conv'.resolved = conv.resolved
            /\ conv'.status = conv.status
        BY <4>1, Types DEF LockInv, Conv
      <4>3. decided[drafted + 1] = {}
        BY <4>1, Types DEF LockInv, Named, Actions
      <4> QED
        BY <1>1, <2>1, <4>1, <4>2, <4>3, Types DEF LockInv, Faithful, Current, None
    <3>2. CASE Save(t)
      <4>1. conv' \in {conv, Cleared(conv)} /\ drafted' = drafted
        BY <2>1, <3>2 DEF Save, Writes, Begin, Abandon
      <4>2. /\ conv'.pending \in {conv.pending, None}
            /\ conv'.resolved = conv.resolved /\ conv'.status = conv.status
        BY <4>1, Types DEF Cleared, LockInv, Conv
      <4> QED
        BY <1>1, <2>1, <4>1, <4>2 DEF LockInv, Faithful, Current
    <3>3. CASE Begin(t) \/ Abandon(t)
      BY <1>1, <2>1, <3>3 DEF Begin, Abandon, LockInv, Faithful, Current
    <3> QED BY <3>1, <3>2, <3>3
  <2> QED
    BY <2>2, <2>3 DEF Faithful
<1> QED
  BY <1>2, <1>3, <1>4

\* What no request's step touches but its own: the others stay accounted for.
LEMMA OthersKept ==
    ASSUME NEW d \in Decisions, NEW e \in Decisions, decision'[e] = decision[e]
    PROVE  /\ Critical(e)' <=> Critical(e)
           /\ Underway(e)' <=> Underway(e)
           /\ Failed(e)' <=> Failed(e)
BY DEF Critical, Underway, Failed

\* A new request waits; the others are as they were.
LEMMA ClickKeeps ==
    ASSUME LockInv, NEW d \in Decisions, Click(d)
    PROVE  Locked' /\ Named' /\ (~overtaken' => Faithful')
<1> USE ConfirmationsAssumption
<1>1. PICK a \in 1..drafted, right \in BOOLEAN, confirms \in BOOLEAN, l \in Locks :
        decision' = [decision EXCEPT ![d] =
            [@ EXCEPT !.pc = "waiting", !.at = l, !.confirms = confirms,
                      !.id = a, !.token = IF right THEN a ELSE None]]
  BY DEF Click
<1>2. decision'[d].pc = "waiting" /\ decision'[d].id = a
  BY <1>1 DEF LockInv, Typed, TypeOK, Decision
<1>3. \A e \in Decisions : e # d => decision'[e] = decision[e]
  BY <1>1 DEF LockInv, Typed, TypeOK
<1>4. decision[d].pc = "unsent"
  BY DEF Click
<1>5. UNCHANGED <<conv, drafted, effects, decided, holder, overtaken>>
  BY DEF Click
<1>6. Locked'
  BY <1>2, <1>3, <1>5 DEF LockInv, Locked, Critical
<1>7. Named'
  BY <1>2, <1>3, <1>5, Types DEF LockInv, Named, Actions
<1>8. ASSUME ~overtaken PROVE Faithful'
  <2>1. Current' /\ Undecided' /\ Answered'
    BY <1>2, <1>3, <1>5, <1>8 DEF LockInv, Faithful, Current, Undecided, Answered,
                                    Critical, Underway
  <2>2. \A b \in Actions : d \notin effects[b]
    BY <1>4, <1>8 DEF LockInv, Faithful, Account, Accounted, Failed, Underway
  <2>3. Account'
    <3> SUFFICES ASSUME NEW b \in Actions
                 PROVE  /\ \A e \in effects[b] : Accounted(b, e)'
                        /\ Recorded(b)'
                        /\ \A c, e \in effects[b] : c = e \/ Failed(c)' \/ Failed(e)'
      BY <1>5 DEF Account
    <3>1. \A e \in effects[b] : decision'[e] = decision[e]
      BY <1>3, <2>2, Types DEF LockInv
    <3> QED
      BY <1>5, <1>8, <3>1 DEF LockInv, Faithful, Account, Accounted, Recorded, Failed, Underway
  <2> QED
    BY <2>1, <2>3 DEF Faithful
<1> QED
  BY <1>5, <1>6, <1>7, <1>8

\* A request that ends without a decision of its own: it is refused, repeats
\* what was decided, or fails.
LEMMA EndKeeps ==
    ASSUME OneLock, LockInv, NEW d \in Decisions, NEW o, Answer(d, o),
           Critical(d) \/ (decision[d].pc = "waiting" /\ LockFree(d)),
           Critical(d) => o = "ERROR",
           ~overtaken /\ o \in Outcomes => decided[decision[d].id] = {o},
           \/ UNCHANGED effects
           \/ Critical(d) /\ effects' = [effects EXCEPT ![decision[d].id] = @ \cup {d}],
           UNCHANGED <<conv, drafted, decided, overtaken>>
    PROVE  Locked' /\ Named' /\ (~overtaken' => Faithful')
<1>1. /\ decision'[d].pc = "done" /\ decision'[d].outcome = o
      /\ decision'[d].id = decision[d].id
      /\ \A e \in Decisions : e # d => decision'[e] = decision[e]
  BY AnswerEnds DEF LockInv
<1>2. \A e \in Decisions : ~Critical(e)'
  BY <1>1, OneAtATime DEF Critical
<1>3. Locked'
  BY <1>2 DEF Locked
<1>4. decision[d].pc \notin {"unsent", "done"}
  BY DEF Critical
<1>5. Named'
  BY <1>1, <1>4 DEF LockInv, Named
<1>6. ASSUME ~overtaken PROVE Faithful'
  <2>1. Current'
    BY <1>6 DEF LockInv, Faithful, Current
  <2>2. Undecided'
    BY <1>2 DEF Undecided, Critical, Underway
  <2>3. Answered'
    BY <1>1, <1>6 DEF LockInv, Faithful, Answered
  <2>4. ~Failed(d) /\ (Critical(d) => Failed(d)')
    BY <1>1, <1>4 DEF Failed
  <2>5. \A b \in Actions : effects'[b] \in {effects[b], effects[b] \cup {d}}
         /\ (~Critical(d) => effects'[b] = effects[b])
    BY Types DEF LockInv
  <2>6. Account'
    <3> SUFFICES ASSUME NEW b \in Actions
                 PROVE  /\ \A e \in effects'[b] : Accounted(b, e)'
                        /\ Recorded(b)'
                        /\ \A c, e \in effects'[b] : c = e \/ Failed(c)' \/ Failed(e)'
      BY DEF Account
    <3>1. effects[b] \subseteq Decisions
      BY Types DEF LockInv
    <3>2. /\ \A e \in effects[b] : Accounted(b, e)
          /\ Recorded(b)
          /\ \A c, e \in effects[b] : c = e \/ Failed(c) \/ Failed(e)
      BY <1>6 DEF LockInv, Faithful, Account
    <3>3. \A e \in effects[b] : e = d => Critical(d)
      BY <1>4, <3>2 DEF Accounted, Failed, Underway, Critical
    <3>4. \A e \in effects'[b] : e = d => Failed(d)' /\ decision[d].id = b
      <4>1. CASE UNCHANGED effects
        BY <2>4, <3>2, <3>3, <4>1 DEF Accounted
      <4>2. CASE Critical(d) /\ effects' = [effects EXCEPT ![decision[d].id] = @ \cup {d}]
        <5>1. ASSUME b # decision[d].id PROVE effects'[b] = effects[b]
          BY <4>2, <5>1, Types DEF LockInv
        <5> QED
          BY <2>4, <3>2, <4>2, <5>1 DEF Accounted
      <4> QED BY <4>1, <4>2
    <3>5. \A e \in effects'[b] : e # d => e \in effects[b] /\ decision'[e] = decision[e]
      BY <1>1, <2>5, <3>1
    <3>6. \A e \in effects[b] : Failed(e) => Failed(e)'
      BY <2>4, <3>1, <1>1 DEF Failed
    <3>7. \A e \in effects'[b] : Accounted(b, e)'
      BY <1>1, <3>2, <3>4, <3>5 DEF Accounted, Failed, Underway
    <3>8. Recorded(b)'
      <4>1. CASE \A e \in effects[b] : Failed(e)
        <5>1. \A e \in effects'[b] : Failed(e)'
          BY <3>4, <3>5, <3>6, <4>1
        <5>2. effects[b] # {} => effects'[b] # {}
          BY <2>5
        <5> QED
          BY <3>2, <5>1, <5>2 DEF Recorded
      <4>2. CASE ~\A e \in effects[b] : Failed(e)
        <5>1. effects[b] # {} => effects'[b] # {}
          BY <2>5
        <5> QED
          BY <3>2, <4>2, <5>1 DEF Recorded
      <4> QED BY <4>1, <4>2
    <3>9. \A c, e \in effects'[b] : c = e \/ Failed(c)' \/ Failed(e)'
      BY <3>2, <3>4, <3>5, <3>6
    <3> QED BY <3>7, <3>8, <3>9
  <2> QED
    BY <2>1, <2>2, <2>3, <2>6 DEF Faithful
<1> QED
  BY <1>3, <1>5, <1>6

\* Under its lock, a request finds the pending action undecided, or the resolved
\* one decided as its state says.
LEMMA LoadKeeps ==
    ASSUME OneLock, LockInv, NEW d \in Decisions, Load(d)
    PROVE  Locked' /\ Named' /\ (~overtaken' => Faithful')
<1>1. decision[d].pc = "waiting" /\ holder[decision[d].at] = {} /\ LockFree(d)
  BY DEF Load, LockFree
<1>2. UNCHANGED <<conv, drafted, effects, decided, overtaken>>
  BY DEF Load
<1>3. /\ decision[d].id \in Actions /\ decision[d].at \in Locks
      /\ decision[d].id # None
  BY <1>1, Types, ConfirmationsAssumption DEF LockInv, Named, Actions, None
<1>4. CASE LoadPending(d)
  <2>1. PICK pc \in {"execute", "resolve"}, o \in Outcomes :
          /\ Proceed(d, pc, o)
          /\ pc = "execute" => o = "EXECUTED"
          /\ pc = "resolve" => o # "EXECUTED"
    BY <1>4 DEF LoadPending, Outcomes
  <2>2. /\ decision'[d].pc = pc /\ decision'[d].outcome = o
        /\ decision'[d].read = conv /\ decision'[d].id = decision[d].id
        /\ decision'[d].at = decision[d].at
        /\ \A e \in Decisions : e # d => decision'[e] = decision[e]
    BY <2>1, ProceedMoves DEF LockInv
  <2>3. \A e \in Decisions : Critical(e)' => e = d
    BY <1>1, <2>2, OneAtATime DEF Critical
  <2>4. conv.pending = decision[d].id
    BY <1>4 DEF LoadPending, Presented
  <2>5. holder'[decision[d].at] = {d}
    BY <1>1, <1>3, <1>4, Types DEF LoadPending, Takes, LockInv
  <2>6. Locked'
    BY <2>1, <2>2, <2>3, <2>4, <2>5 DEF Locked
  <2>7. Named'
    BY <1>1, <1>2, <2>2 DEF LockInv, Named
  <2>8. ASSUME ~overtaken PROVE Faithful'
    <3>1. Current' /\ Undecided'
      BY <1>2, <1>3, <2>1, <2>2, <2>3, <2>4, <2>8
         DEF LockInv, Faithful, Current, Undecided, Underway, Critical
    <3>2. Answered'
      BY <1>2, <2>2, <2>8 DEF LockInv, Faithful, Answered
    <3>3. \A b \in Actions : \A e \in effects[b] : e \in Decisions /\ decision'[e] = decision[e]
      BY <1>1, <2>2, <2>8, Types DEF LockInv, Faithful, Account, Accounted, Failed, Underway
    <3>4. Account'
      BY <1>2, <2>8, <3>3 DEF LockInv, Faithful, Account, Accounted, Recorded, Failed, Underway
    <3> QED
      BY <3>1, <3>2, <3>4 DEF Faithful
  <2> QED
    BY <1>2, <2>6, <2>7, <2>8
<1>5. CASE LoadDecided(d)
  <2>1. ~overtaken => decided[decision[d].id] = {conv.status}
    BY <1>3, <1>5 DEF LoadDecided, LockInv, Faithful, Current
  <2>2. Answer(d, conv.status) /\ ~Critical(d)
    BY <1>1, <1>5 DEF LoadDecided, Critical
  <2> QED
    BY <1>1, <1>2, <2>1, <2>2, EndKeeps
<1>6. CASE LoadRefused(d)
  <2>1. Answer(d, "REFUSED") /\ ~Critical(d) /\ "REFUSED" \notin Outcomes
    BY <1>1, <1>6 DEF LoadRefused, Critical, Outcomes
  <2> QED
    BY <1>1, <1>2, <2>1, EndKeeps
<1> QED
  BY <1>4, <1>5, <1>6 DEF Load

\* The call succeeds and the request goes on: after the POST the action has one
\* more request that carried it out, the only one that has not failed.
LEMMA ArriveKeeps ==
    ASSUME OneLock, LockInv, NEW d \in Decisions, NEW pc \in {"fill", "resolve"},
           Arrives(d, pc), decision[d].pc \in {"execute", "fill"},
           effects' = [effects EXCEPT ![decision[d].id] = @ \cup {d}],
           UNCHANGED <<conv, drafted, decided, overtaken>>
    PROVE  Locked' /\ Named' /\ (~overtaken' => Faithful')
<1>1. Critical(d)
  BY DEF Critical
<1>2. /\ decision'[d].pc = pc /\ decision'[d].id = decision[d].id
      /\ decision'[d].at = decision[d].at /\ decision'[d].read = decision[d].read
      /\ decision'[d].outcome = decision[d].outcome
      /\ \A e \in Decisions : e # d => decision'[e] = decision[e]
  BY ArrivesMoves DEF LockInv
<1>3. decision[d].outcome = "EXECUTED" /\ UNCHANGED holder
  BY <1>1 DEF Arrives, LockInv, Locked
<1>4. \A e \in Decisions : Critical(e) \/ Critical(e)' => e = d
  BY <1>1, <1>2, OneAtATime DEF Critical
<1>5. Locked'
  BY <1>1, <1>2, <1>3, <1>4 DEF LockInv, Locked
<1>6. Named' /\ decision[d].id \in Actions
  BY <1>1, <1>2 DEF LockInv, Named, Critical
<1>7. ASSUME ~overtaken PROVE Faithful'
  <2> DEFINE a == decision[d].id
  <2>1. /\ effects'[a] = effects[a] \cup {d}
        /\ \A b \in Actions : b # a => effects'[b] = effects[b]
    BY <1>6, Types DEF LockInv
  <2>2. Current' /\ Answered'
    BY <1>2, <1>7 DEF LockInv, Faithful, Current, Answered
  <2>3. decided[a] = {}
    BY <1>1, <1>7 DEF LockInv, Faithful, Undecided
  <2>4. Undecided'
    BY <1>2, <1>4, <2>1, <2>3 DEF Undecided, Underway, Critical
  <2>5. Underway(d)'
    BY <1>2, <1>3 DEF Underway
  <2>6. Account'
    <3> SUFFICES ASSUME NEW b \in Actions
                 PROVE  /\ \A e \in effects'[b] : Accounted(b, e)'
                        /\ Recorded(b)'
                        /\ \A c, e \in effects'[b] : c = e \/ Failed(c)' \/ Failed(e)'
      BY DEF Account
    <3>1. effects[b] \subseteq Decisions
      BY Types DEF LockInv
    <3>2. /\ \A e \in effects[b] : Accounted(b, e)
          /\ Recorded(b)
          /\ \A c, e \in effects[b] : c = e \/ Failed(c) \/ Failed(e)
      BY <1>7 DEF LockInv, Faithful, Account
    <3>3. \A e \in effects[b] : e # d => decision'[e] = decision[e]
      BY <1>2, <3>1
    <3>4. \A e \in effects[b] : e # d => (Failed(e)' <=> Failed(e)) /\ (Accounted(b, e)' <=> Accounted(b, e))
      BY <3>3 DEF Failed, Accounted, Underway
    <3>5. CASE b = a
      <4>1. \A e \in effects[b] : e # d => Failed(e)
        BY <1>4, <2>3, <3>1, <3>2, <3>5 DEF Accounted, Underway, Critical
      <4>2. Accounted(b, d)'
        BY <1>2, <2>5, <3>5 DEF Accounted
      <4> QED
        BY <2>1, <2>3, <3>2, <3>4, <3>5, <4>1, <4>2 DEF Recorded
    <3>6. CASE b # a
      <4>1. d \notin effects[b] /\ effects'[b] = effects[b]
        BY <2>1, <3>2, <3>6 DEF Accounted
      <4> QED
        BY <3>2, <3>4, <4>1 DEF Recorded
    <3> QED BY <3>5, <3>6
  <2> QED
    BY <2>2, <2>4, <2>6 DEF Faithful
<1> QED
  BY <1>5, <1>6, <1>7

LEMMA ExecuteKeeps ==
    ASSUME OneLock, LockInv, NEW d \in Decisions, Execute(d)
    PROVE  Locked' /\ Named' /\ (~overtaken' => Faithful')
<1>1. decision[d].pc = "execute" /\ Critical(d)
  BY DEF Execute, Critical
<1>2. decision[d].id = decision[d].read.pending
  BY <1>1 DEF LockInv, Locked
<1>3. effects' = [effects EXCEPT ![decision[d].id] = @ \cup {d}]
      /\ UNCHANGED <<conv, drafted, decided, overtaken>>
  BY <1>2 DEF Execute
<1>4. CASE Arrives(d, "fill")
  BY <1>1, <1>3, <1>4, ArriveKeeps
<1>5. CASE Loses(d)
  <2>1. Answer(d, "ERROR") /\ "ERROR" \notin Outcomes
    BY <1>5 DEF Loses, Outcomes
  <2> QED
    BY <1>1, <1>3, <2>1, EndKeeps
<1> QED
  BY <1>4, <1>5 DEF Execute

\* The PATCH, and the calls that are lost on the way.
LEMMA FillKeeps ==
    ASSUME OneLock, LockInv, NEW d \in Decisions, Fill(d)
    PROVE  Locked' /\ Named' /\ (~overtaken' => Faithful')
<1>1. decision[d].pc = "fill" /\ Critical(d) /\ UNCHANGED <<conv, drafted, effects, decided, overtaken>>
  BY DEF Fill, Critical
<1>2. CASE Loses(d)
  <2>1. Answer(d, "ERROR") /\ "ERROR" \notin Outcomes
    BY <1>2 DEF Loses, Outcomes
  <2> QED
    BY <1>1, <2>1, EndKeeps
<1>3. CASE Arrives(d, "resolve")
  <2>1. ASSUME ~overtaken PROVE effects' = [effects EXCEPT ![decision[d].id] = @ \cup {d}]
    <3>1. d \in effects[decision[d].id]
      BY <1>1, <2>1 DEF LockInv, Faithful, Undecided, Underway
    <3>2. effects[decision[d].id] = effects[decision[d].id] \cup {d}
      BY <3>1
    <3> QED
      BY <1>1, <3>2, Types DEF LockInv
  <2>2. CASE ~overtaken
    BY <1>1, <1>3, <2>1, <2>2, ArriveKeeps
  <2>3. CASE overtaken
    <3>1. /\ decision'[d].pc = "resolve" /\ decision'[d].id = decision[d].id
          /\ decision'[d].at = decision[d].at /\ decision'[d].read = decision[d].read
          /\ \A e \in Decisions : e # d => decision'[e] = decision[e]
      BY <1>3, ArrivesMoves DEF LockInv
    <3>2. UNCHANGED holder
      BY <1>3 DEF Arrives
    <3>3. Locked' /\ Named'
      BY <1>1, <3>1, <3>2 DEF LockInv, Locked, Named, Critical
    <3> QED
      BY <1>1, <2>3, <3>3
  <2> QED BY <2>2, <2>3
<1> QED
  BY <1>2, <1>3 DEF Fill

LEMMA UnsentKeeps ==
    ASSUME OneLock, LockInv, NEW d \in Decisions, Unsent(d)
    PROVE  Locked' /\ Named' /\ (~overtaken' => Faithful')
<1>1. Answer(d, "ERROR") /\ "ERROR" \notin Outcomes
  BY DEF Unsent, Loses, Outcomes
<1>2. Critical(d) \/ (decision[d].pc = "waiting" /\ LockFree(d))
  BY DEF Unsent, Critical
<1>3. UNCHANGED <<conv, drafted, effects, decided, overtaken>>
  BY DEF Unsent
<1> QED
  BY <1>1, <1>2, <1>3, EndKeeps

\* What is recorded with the state is what became of the action.
LEMMA ResolveKeeps ==
    ASSUME OneLock, LockInv, NEW d \in Decisions, Resolve(d)
    PROVE  Locked' /\ Named' /\ (~overtaken' => Faithful')
<1> DEFINE a == decision[d].id
           o == decision[d].outcome
<1>1. decision[d].pc = "resolve" /\ Critical(d)
  BY DEF Resolve, Critical
<1>2. UNCHANGED <<drafted, effects>>
  BY DEF Resolve
<1>3. /\ decision[d].read.pending = a /\ a \in Actions /\ a <= drafted
      /\ o \in Outcomes
  BY <1>1 DEF LockInv, Locked, Named, Typed, Recording
<1>4. PICK r \in {o, "ERROR"} : Answer(d, r)
  BY DEF Resolve, Loses
<1>5. /\ decision'[d].pc = "done" /\ decision'[d].outcome = r
      /\ decision'[d].id = a
      /\ \A e \in Decisions : e # d => decision'[e] = decision[e]
  BY <1>4, AnswerEnds DEF LockInv
<1>6. \A e \in Decisions : ~Critical(e)' /\ (Critical(e) => e = d)
  BY <1>1, <1>5, OneAtATime DEF Critical
<1>7. Locked'
  BY <1>6 DEF Locked
<1>8. decided'[a] = decided[a] \cup {o}
      /\ \A b \in Actions : b # a => decided'[b] = decided[b]
  BY <1>3, Types DEF Resolve, LockInv
<1>9. Named'
  <2>1. \A b \in Actions : b > drafted => b # a
    BY <1>3, Types DEF LockInv, Actions
  <2> QED
    BY <1>1, <1>2, <1>3, <1>5, <1>8, <2>1 DEF LockInv, Named
<1>10. ASSUME ~overtaken' PROVE Faithful'
  <2>1. ~overtaken /\ conv = decision[d].read
    BY <1>10 DEF Resolve, Writes
  <2>2. Faithful /\ decided[a] = {} /\ decided'[a] = {o}
    BY <1>1, <1>8, <2>1 DEF LockInv, Faithful, Undecided
  <2>3. conv' = Resolved(d)
    BY DEF Resolve, Writes
  <2>4. conv'.pending = None /\ conv'.resolved = a /\ conv'.status = o
    BY <1>3, <2>3 DEF Resolved
  <2>5. Current'
    BY <1>2, <1>3, <2>2, <2>4 DEF Current
  <2>6. Undecided'
    BY <1>6 DEF Undecided, Critical, Underway
  <2>7. Answered'
    <3>1. \A e \in Decisions : decision[e].pc = "done" => decision[e].id \in Actions
      BY DEF LockInv, Named
    <3>2. \A e \in Decisions : decision[e].pc = "done" /\ decision[e].outcome \in Outcomes =>
                                 decision[e].id # a
      BY <2>2 DEF Faithful, Answered, Outcomes
    <3>3. "ERROR" \notin Outcomes
      BY DEF Outcomes
    <3> QED
      BY <1>3, <1>5, <1>8, <2>2, <3>1, <3>2, <3>3 DEF Faithful, Answered
  <2>8. Account'
    <3> SUFFICES ASSUME NEW b \in Actions
                 PROVE  /\ \A e \in effects[b] : Accounted(b, e)'
                        /\ Recorded(b)'
                        /\ \A c, e \in effects[b] : c = e \/ Failed(c)' \/ Failed(e)'
      BY <1>2 DEF Account
    <3>1. effects[b] \subseteq Decisions
      BY Types DEF LockInv
    <3>2. /\ \A e \in effects[b] : Accounted(b, e)
          /\ Recorded(b)
          /\ \A c, e \in effects[b] : c = e \/ Failed(c) \/ Failed(e)
      BY <2>2 DEF Faithful, Account
    <3>3. \A e \in effects[b] : e # d => decision'[e] = decision[e]
      BY <1>5, <3>1
    <3>4. \A e \in effects[b] : e # d => (Failed(e)' <=> Failed(e))
      BY <3>3 DEF Failed
    <3>5. ~Failed(d)
      BY <1>1 DEF Failed
    <3>6. \A e \in effects[b] : e # d => Failed(e) \/ decision[e].pc = "done"
      BY <1>6, <3>1, <3>2 DEF Accounted, Underway, Critical
    <3>7. CASE b = a
      <4>1. \A e \in effects[b] : e # d => Failed(e)'
        BY <1>6, <2>2, <3>1, <3>2, <3>4, <3>7 DEF Accounted, Underway, Critical
      <4>2. d \in effects[b] => o = "EXECUTED"
        BY <1>1, <3>2, <3>5 DEF Accounted, Underway
      <4>3. o = "EXECUTED" => d \in effects[b]
        BY <1>1, <2>2, <3>7 DEF Faithful, Undecided, Underway
      <4>4. \A e \in effects[b] : Accounted(b, e)'
        BY <1>5, <2>2, <3>2, <3>3, <3>7, <4>1, <4>2 DEF Accounted
      <4>5. Recorded(b)'
        <5>1. CASE o = "EXECUTED"
          BY <1>2, <2>2, <3>7, <4>3, <5>1 DEF Recorded
        <5>2. CASE o # "EXECUTED"
          <6>1. decided'[b] \in {{"CANCELED"}, {"EXPIRED"}}
            BY <1>3, <2>2, <3>7, <5>2 DEF Outcomes
          <6>2. \A e \in effects'[b] : Failed(e)'
            BY <1>2, <4>1, <4>2, <5>2
          <6> QED
            BY <6>1, <6>2 DEF Recorded
        <5> QED BY <5>1, <5>2
      <4> QED
        BY <4>1, <4>4, <4>5
    <3>8. CASE b # a
      <4>1. d \notin effects[b] /\ decided'[b] = decided[b]
        BY <1>8, <3>2, <3>8 DEF Accounted
      <4>2. \A e \in effects[b] : Accounted(b, e)'
        BY <3>2, <3>3, <4>1 DEF Accounted, Failed, Underway
      <4>3. Recorded(b)'
        BY <1>2, <3>2, <3>4, <4>1 DEF Recorded
      <4> QED
        BY <3>2, <3>4, <4>1, <4>2, <4>3
    <3> QED BY <3>7, <3>8
  <2> QED
    BY <2>5, <2>6, <2>7, <2>8 DEF Faithful
<1> QED
  BY <1>7, <1>9, <1>10

LEMMA LockInductive ==
    ASSUME OneLock PROVE LockInv /\ [Next]_vars => LockInv'
<1> SUFFICES ASSUME LockInv, [Next]_vars
             PROVE  Locked' /\ Named' /\ (~overtaken' => Faithful')
  BY TypeInductive DEF LockInv
<1>1. ASSUME NEW t \in Turns, Begin(t) \/ Save(t) \/ Draft(t) \/ Abandon(t)
      PROVE  Locked' /\ Named' /\ (~overtaken' => Faithful')
  BY <1>1, TurnKeeps
<1>2. ASSUME NEW d \in Decisions,
             Click(d) \/ Load(d) \/ Execute(d) \/ Fill(d) \/ Unsent(d) \/ Resolve(d)
      PROVE  Locked' /\ Named' /\ (~overtaken' => Faithful')
  BY <1>2, ClickKeeps, LoadKeeps, ExecuteKeeps, FillKeeps, UnsentKeeps, ResolveKeeps
<1>3. CASE UNCHANGED <<conv, drafted, effects, decided, decision, holder, overtaken>>
  BY <1>3 DEF LockInv, Locked, Named, Faithful, Current, Undecided, Account, Accounted,
              Recorded, Failed, Answered, Critical, Underway
<1> QED
  BY <1>1, <1>2, <1>3 DEF Next, Expire, vars

LEMMA LockInit == Init => LockInv
<1> SUFFICES ASSUME Init PROVE Locked /\ Named /\ Faithful
  BY TypeInit DEF LockInv
<1>1. \A d \in Decisions : decision[d].pc = "unsent"
  BY NothingSentYet
<1>2. Locked /\ Named
  BY <1>1 DEF Init, Locked, Named, Critical
<1>3. Faithful
  BY <1>1 DEF Init, Faithful, EmptyConv, Current, None, Undecided, Account, Recorded,
              Answered, Critical, Underway
<1> QED
  BY <1>2, <1>3

\* With one lock, and until a write overtakes another, every answer about an
\* action, the first and the repeated ones, says what the back end did, whatever
\* failed before: _load_action judges by the state _resolve replaces.
THEOREM AnswersTrue ==
    ASSUME OneLock PROVE Spec => []AnswersAreTrue
<1>1. LockInv => AnswersAreTrue
  <2> SUFFICES ASSUME LockInv, ~overtaken, NEW d \in Decisions, decision[d].pc = "done",
                      decision[d].outcome \in Outcomes
               PROVE  /\ decision[d].outcome = "EXECUTED" => effects[decision[d].id] # {}
                      /\ decision[d].outcome \in {"CANCELED", "EXPIRED"} =>
                            \A e \in effects[decision[d].id] : Failed(e)
    BY DEF AnswersAreTrue, Outcomes
  <2>1. decision[d].id \in Actions /\ decided[decision[d].id] = {decision[d].outcome}
    BY DEF LockInv, Named, Faithful, Answered
  <2>2. Recorded(decision[d].id)
    BY <2>1 DEF LockInv, Faithful, Account
  <2> QED
    BY <2>1, <2>2 DEF Recorded, Outcomes
<1> QED
  BY <1>1, LockInit, LockInductive, PTL DEF Spec

\* Under the same condition an action is carried out once, and again only after
\* requests that were answered with an error.
THEOREM CarriedOutOnce ==
    ASSUME OneLock PROVE Spec => []ExecutedOnce
<1>1. LockInv => ExecutedOnce
  BY DEF LockInv, Faithful, Account, ExecutedOnce
<1> QED
  BY <1>1, LockInit, LockInductive, PTL DEF Spec

\* Under the same condition a token that was canceled, has expired or is
\* consumed writes nothing, as the technical design says.
THEOREM ConsumedTokens ==
    ASSUME OneLock PROVE Spec => ConsumedUnlessOvertaken
<1>1. LockInv /\ [Next]_vars =>
        [\A a \in Actions : effects'[a] # effects[a] => overtaken \/ decided[a] = {}]_vars
  <2> SUFFICES ASSUME LockInv, [Next]_vars, NEW a \in Actions, effects'[a] # effects[a],
                      ~overtaken
               PROVE  decided[a] = {}
    OBVIOUS
  <2>1. Next /\ Typed
    BY DEF vars, LockInv
  <2>2. PICK d \in Decisions : Execute(d) /\ a = decision[d].read.pending
    BY <2>1, EffectsOfExecute
  <2>3. decision[d].id = a /\ Critical(d)
    BY <2>2 DEF Execute, Critical, LockInv, Locked
  <2> QED
    BY <2>3 DEF LockInv, Faithful, Undecided
<1> QED
  BY <1>1, LockInit, LockInductive, PTL DEF Spec, ConsumedUnlessOvertaken
=============================================================================
