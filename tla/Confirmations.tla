---------------------------- MODULE Confirmations ----------------------------
(***************************************************************************)
(* The pending action of one conversation: the chat turns that draft it,   *)
(* and the confirm and cancel requests that decide it                      *)
(* (agent_app/hitl/service.py, agent_app/api/routes/chat.py). The only     *)
(* action a turn drafts is CREATE_PURCHASE_DRAFT: one POST, then one PATCH *)
(* that fills the new request in. Nothing in either tells a second         *)
(* execution of an action from the first.                                  *)
(*                                                                         *)
(* A turn and a decision both read the conversation's state, work for a    *)
(* while, and write the whole state back. Decisions hold an asyncio.Lock   *)
(* from their read to their write, one lock per process and platform       *)
(* identity; turns do not take it. Every call to the back end can fail     *)
(* before or after it took effect there.                                   *)
(***************************************************************************)
EXTENDS Integers, FiniteSets

CONSTANTS
    Decisions,      \* confirm and cancel requests, each made once
    Turns,          \* chat turns, each taken once
    Locks,          \* the agent processes, or platform identities, of a user
    MaxActions,     \* bound: actions drafted
    MaxLost         \* bound: decisions that fail on a call

ASSUME ConfirmationsAssumption == MaxActions \in Nat /\ MaxLost \in Nat

Actions == 1..MaxActions

None == 0       \* no pending action, no resolved action, a wrong token

Outcomes == {"EXECUTED", "CANCELED", "EXPIRED"}

VARIABLES
    conv,       \* the stored conversation state
    drafted,    \* how many actions were drafted
    expired,    \* those drafted fifteen minutes ago or more
    effects,    \* the requests whose POST of an action took effect
    decided,    \* the outcomes ever recorded for each action
    decision,   \* the confirm and cancel requests
    holder,     \* who holds each lock
    turn,       \* the chat turns
    lost,
    overtaken   \* a write replaced a state other than the one its writer read

vars == <<conv, drafted, expired, effects, decided, decision, holder, turn,
          lost, overtaken>>

\* pending_action, last_resolved_action and its status
Conv == [pending : 0..MaxActions, resolved : 0..MaxActions,
         status : Outcomes \cup {"NONE"}]

EmptyConv == [pending |-> None, resolved |-> None, status |-> "NONE"]

\* A request names an action and shows a token; outcome is what it is about to
\* record or has answered.
Decision == [pc : {"unsent", "waiting", "execute", "fill", "resolve", "done"},
             at : Locks, confirms : BOOLEAN,
             id : 0..MaxActions, token : 0..MaxActions, read : Conv,
             outcome : Outcomes \cup {"NONE", "REFUSED", "ERROR"}]

Turn == [pc : {"unsent", "graph", "done"}, read : Conv]

TypeOK ==
    /\ conv \in Conv
    /\ drafted \in 0..MaxActions
    /\ expired \subseteq Actions
    /\ effects \in [Actions -> SUBSET Decisions]
    /\ decided \in [Actions -> SUBSET Outcomes]
    /\ decision \in [Decisions -> Decision]
    /\ holder \in [Locks -> SUBSET Decisions]
    /\ turn \in [Turns -> Turn]
    /\ lost \in 0..MaxLost
    /\ overtaken \in BOOLEAN

Init ==
    /\ conv = EmptyConv
    /\ drafted = 0 /\ expired = {}
    /\ effects = [a \in Actions |-> {}]
    /\ decided = [a \in Actions |-> {}]
    /\ \E l \in Locks :
         decision = [d \in Decisions |->
            [pc |-> "unsent", at |-> l, confirms |-> TRUE, id |-> None,
             token |-> None, read |-> EmptyConv, outcome |-> "NONE"]]
    /\ holder = [l \in Locks |-> {}]
    /\ turn = [t \in Turns |-> [pc |-> "unsent", read |-> EmptyConv]]
    /\ lost = 0
    /\ overtaken = FALSE

\* The state is written whole: whatever was stored since read is gone.
Writes(read, state) ==
    /\ conv' = state
    /\ overtaken' = (overtaken \/ read # conv)

-----------------------------------------------------------------------------
(***************************************************************************)
(* Chat turns.                                                             *)
(***************************************************************************)
\* _prepare_chat: the turn keeps the state it read.
Begin(t) ==
    /\ turn[t].pc = "unsent"
    /\ turn' = [turn EXCEPT ![t] = [pc |-> "graph", read |-> conv]]
    /\ UNCHANGED <<conv, drafted, expired, effects, decided, decision, holder,
                   lost, overtaken>>

\* A form that is still incomplete has no pending action.
Cleared(c) == [c EXCEPT !.pending = None]

Ends(t) == turn' = [turn EXCEPT ![t] = [@ EXCEPT !.pc = "done"]]

\* _persist_result: the turn saves the state it read, and the pending action of
\* that state unless it filled in the form.
Save(t) ==
    /\ turn[t].pc = "graph"
    /\ \E state \in {turn[t].read, Cleared(turn[t].read)} : Writes(turn[t].read, state)
    /\ Ends(t)
    /\ UNCHANGED <<drafted, expired, effects, decided, decision, holder, lost>>

\* The form is complete: the turn saves a new action.
Draft(t) ==
    /\ turn[t].pc = "graph"
    /\ drafted < MaxActions
    /\ drafted' = drafted + 1
    /\ Writes(turn[t].read, [turn[t].read EXCEPT !.pending = drafted + 1])
    /\ Ends(t)
    /\ UNCHANGED <<expired, effects, decided, decision, holder, lost>>

\* The graph fails, runs out of time or is cut off by the browser.
Abandon(t) ==
    /\ turn[t].pc = "graph"
    /\ Ends(t)
    /\ UNCHANGED <<conv, drafted, expired, effects, decided, decision, holder,
                   lost, overtaken>>

-----------------------------------------------------------------------------
(***************************************************************************)
(* Decisions.                                                              *)
(***************************************************************************)
\* The user clicks on the card of any action shown so far, with its token or,
\* from a client of the interface, another one.
Click(d) ==
    /\ decision[d].pc = "unsent"
    /\ \E a \in 1..drafted, right \in BOOLEAN, confirms \in BOOLEAN, l \in Locks :
         decision' = [decision EXCEPT ![d] =
            [@ EXCEPT !.pc = "waiting", !.at = l, !.confirms = confirms,
                      !.id = a, !.token = IF right THEN a ELSE None]]
    /\ UNCHANGED <<conv, drafted, expired, effects, decided, holder, turn, lost,
                   overtaken>>

\* Fault: a failed request keeps its lock.
AnswerKeepsLockOnError(d, outcome) ==
    /\ decision' = [decision EXCEPT ![d] =
                      [@ EXCEPT !.pc = "done", !.outcome = outcome]]
    /\ holder' = [holder EXCEPT ![decision[d].at] =
                    IF outcome = "ERROR" THEN @ ELSE @ \ {d}]

\* The request ends and its lock is released.
Answer(d, outcome) ==
    /\ decision' = [decision EXCEPT ![d] =
                      [@ EXCEPT !.pc = "done", !.outcome = outcome]]
    /\ holder' = [holder EXCEPT ![decision[d].at] = @ \ {d}]

Proceed(d, pc, outcome) ==
    decision' = [decision EXCEPT ![d] =
                   [@ EXCEPT !.pc = pc, !.read = conv, !.outcome = outcome]]

Takes(d) == holder' = [holder EXCEPT ![decision[d].at] = @ \cup {d}]

\* Fault: a decision does not wait for the others.
LockAlwaysFree(d) == TRUE

LockFree(d) == holder[decision[d].at] = {}

\* Fault: the token is not compared.
PresentedAnyToken(d) == conv.pending = decision[d].id

\* _load_action found the action pending, and the token is its own.
Presented(d) ==
    /\ conv.pending = decision[d].id
    /\ conv.pending = decision[d].token

LoadPending(d) ==
    /\ Presented(d)
    /\ IF conv.pending \in expired THEN Proceed(d, "resolve", "EXPIRED")
       ELSE IF decision[d].confirms THEN Proceed(d, "execute", "EXECUTED")
       ELSE Proceed(d, "resolve", "CANCELED")
    /\ Takes(d)

\* A decided action is answered with what was decided.
LoadDecided(d) ==
    /\ conv.pending = None /\ conv.resolved = decision[d].id
    /\ Answer(d, conv.status)

LoadRefused(d) ==
    /\ ~Presented(d)
    /\ ~(conv.pending = None /\ conv.resolved = decision[d].id)
    /\ Answer(d, "REFUSED")

\* Under the lock: the state is read and the request judged by it.
Load(d) ==
    /\ decision[d].pc = "waiting"
    /\ LockFree(d)
    /\ LoadPending(d) \/ LoadDecided(d) \/ LoadRefused(d)
    /\ UNCHANGED <<conv, drafted, expired, effects, decided, turn, lost,
                   overtaken>>

\* A call fails, before or after it took effect.
Loses(d) ==
    /\ lost < MaxLost
    /\ lost' = lost + 1
    /\ Answer(d, "ERROR")

Arrives(d, pc) ==
    /\ decision' = [decision EXCEPT ![d] = [@ EXCEPT !.pc = pc]]
    /\ UNCHANGED <<holder, lost>>

\* execute_confirmed_action: the POST creates a request.
Execute(d) ==
    LET a == decision[d].read.pending IN
    /\ decision[d].pc = "execute"
    /\ effects' = [effects EXCEPT ![a] = @ \cup {d}]
    /\ Arrives(d, "fill") \/ Loses(d)
    /\ UNCHANGED <<conv, drafted, expired, decided, turn, overtaken>>

\* The PATCH that fills in the new request.
Fill(d) ==
    /\ decision[d].pc = "fill"
    /\ Arrives(d, "resolve") \/ Loses(d)
    /\ UNCHANGED <<conv, drafted, expired, effects, decided, turn, overtaken>>

\* A call of the request is lost on the way or refused: nothing took effect.
Unsent(d) ==
    /\ decision[d].pc \in {"waiting", "execute", "resolve"}
    /\ decision[d].pc = "waiting" => LockFree(d)
    /\ Loses(d)
    /\ UNCHANGED <<conv, drafted, expired, effects, decided, turn, overtaken>>

\* Fault: the pending action stays in the state.
ResolvedKeepsPending(d) ==
    [pending |-> decision[d].read.pending, resolved |-> decision[d].read.pending,
     status |-> decision[d].outcome]

\* The state that was read, with the decision instead of the pending action.
Resolved(d) ==
    [pending |-> None, resolved |-> decision[d].read.pending,
     status |-> decision[d].outcome]

\* _resolve: the state is saved, then its snapshot.
Resolve(d) ==
    LET a == decision[d].read.pending IN
    /\ decision[d].pc = "resolve"
    /\ Writes(decision[d].read, Resolved(d))
    /\ decided' = [decided EXCEPT ![a] = @ \cup {decision[d].outcome}]
    /\ \/ Answer(d, decision[d].outcome) /\ UNCHANGED lost
       \/ Loses(d)
    /\ UNCHANGED <<drafted, expired, effects, turn>>

-----------------------------------------------------------------------------
\* Fifteen minutes after an action was drafted.
Expire(a) ==
    /\ a <= drafted /\ a \notin expired
    /\ expired' = expired \cup {a}
    /\ UNCHANGED <<conv, drafted, effects, decided, decision, holder, turn, lost,
                   overtaken>>

Next ==
    \/ \E t \in Turns : Begin(t) \/ Save(t) \/ Draft(t) \/ Abandon(t)
    \/ \E d \in Decisions :
         Click(d) \/ Load(d) \/ Execute(d) \/ Fill(d) \/ Unsent(d) \/ Resolve(d)
    \/ \E a \in Actions : Expire(a)

Spec == Init /\ [][Next]_vars

\* Every call to the back end returns or times out.
Fairness ==
    \A d \in Decisions :
        WF_vars(Load(d)) /\ WF_vars(Execute(d)) /\ WF_vars(Fill(d)) /\ WF_vars(Resolve(d))

FairSpec == Spec /\ Fairness

-----------------------------------------------------------------------------
(***************************************************************************)
(* Properties. Those that mention overtaken say what holds until some turn *)
(* or request writes over a state it has not read; they need one lock per  *)
(* user, which one process and one platform identity give.                 *)
(***************************************************************************)

\* Nothing is carried out but what a user confirmed with the token of that very
\* action, whatever was drafted, decided or replaced while the request waited.
ConfirmedOnly ==
    [][\A a \in Actions : effects'[a] # effects[a] =>
          \E d \in Decisions :
             /\ decision[d].pc = "execute" /\ decision[d].confirms
             /\ decision[d].id = a /\ decision[d].token = a]_vars

\* The technical design: a token that was canceled, has expired or is consumed
\* leads to no write.
ConsumedTokenWritesNothing ==
    [][\A a \in Actions : effects'[a] # effects[a] => decided[a] = {}]_vars

\* What the code keeps of that promise: it holds until a write overtakes
\* another, whatever fails and however often the user tries again.
ConsumedUnlessOvertaken ==
    [][\A a \in Actions :
          effects'[a] # effects[a] => overtaken \/ decided[a] = {}]_vars

\* The user was told that the request failed.
Failed(d) == decision[d].pc = "done" /\ decision[d].outcome = "ERROR"

\* An action is carried out once, and again only after requests that were
\* answered with an error: of the POSTs of one action, all but one belong to
\* such requests.
ExecutedOnce ==
    ~overtaken =>
        \A a \in Actions : \A d, e \in effects[a] : d = e \/ Failed(d) \/ Failed(e)

\* What the users hear is what happened, from first answers and repeated ones
\* alike: an action said to be executed was, and one said to be canceled or
\* expired was carried out by no request but a failed one.
AnswersAreTrue ==
    ~overtaken =>
        \A d \in Decisions :
            decision[d].pc = "done" =>
                /\ decision[d].outcome = "EXECUTED" => effects[decision[d].id] # {}
                /\ decision[d].outcome \in {"CANCELED", "EXPIRED"} =>
                      \A e \in effects[decision[d].id] : Failed(e)

\* A request that waits for the lock gets it and is answered, also when the one
\* before it failed.
EveryDecisionAnswered ==
    \A d \in Decisions : decision[d].pc = "waiting" ~> decision[d].pc = "done"
=============================================================================
