---------------------------- MODULE Conversation ----------------------------
(***************************************************************************)
(* One conversation with the agent: a turn restores the stored state, runs *)
(* the graph of nodes (agent_app/graph/service.py) while its events are    *)
(* streamed to the browser (agent_app/api/routes/chat.py), and persists a  *)
(* message, the state and a snapshot in three calls.  Turns follow each    *)
(* other; decisions about the pending action fall between them (what they  *)
(* and turns do to each other when they overlap is in Confirmations).      *)
(*                                                                         *)
(* The graph's state is private to its turn, so a node is one step; what   *)
(* runs beside it is the generator that sends the queue to the client, the *)
(* client, who may leave, and the task's time limit.                       *)
(***************************************************************************)
EXTENDS ReviewPolicy, Naturals

CONSTANTS
    Limits,         \* configurations of max_execution_steps, max_tool_calls
    MaxTurns        \* bound: turns of the conversation

ASSUME ConversationAssumption ==
    /\ Limits \subseteq [steps : Nat \ {0}, calls : Nat \ {0}] /\ Limits # {}
    /\ MaxTurns \in Nat

VARIABLES
    saved,      \* the stored conversation state
    turns,      \* turns begun
    graph,      \* GraphState of the turn
    events,     \* the turn's event queue
    sent        \* the events the client has received

vars == <<saved, turns, graph, events, sent>>

Routes == {"REALTIME_BUSINESS", "KNOWLEDGE", "HYBRID", "COMPLEX_QUERY",
           "RISK_INVESTIGATION", "FORM_PREFILL", "RECOMMENDATION"}
NoDraft == 0
Editions == 0..MaxTurns     \* a draft is named by the turn that changed it last

Saved == [draft : Editions, missing : BOOLEAN, pending : Editions,
          request : BOOLEAN]

GraphNodes == {"route", "knowledge", "realtime_query", "analysis",
    "risk_investigation", "form_prefill", "recommendation",
    "sufficiency_check", "compose", "review"}
Nodes == GraphNodes \cup {"message", "state", "snapshot", "end"}

Replies == {"NONE", "MODEL", "COMPLETED", "TEMPLATE", "REVISED", "REFUSED"}
Decisions == {"NONE", "PASS", "WARN", "BLOCK", "REVIEW_UNAVAILABLE"}

\* Models and a retriever are configured or not; the limits of the settings.
Setups == [roles : BOOLEAN, retriever : BOOLEAN, limits : Limits]

GraphRecord == [
    node : Nodes, route : Routes \cup {"NONE"},
    setup : Setups,                     \* of the process that takes the turn
    stream : BOOLEAN,                   \* /stream, or the plain POST
    draft : Editions, missing : BOOLEAN, pending : Editions, request : BOOLEAN,
    steps : Nat, calls : Nat,
    found : SUBSET {"KNOWLEDGE", "TOOL", "ANALYSIS", "INVESTIGATION",
                    "RECOMMENDATION"},
    evidence : SUBSET EvidenceKinds,
    sufficient : BOOLEAN, claims : SUBSET Claims, reply : Replies,
    decision : Decisions]

Events == {"delta", "confirmation_required", "completed", "error", "end"}

TypeOK ==
    /\ saved \in Saved
    /\ turns \in 0..MaxTurns
    /\ graph \in GraphRecord
    /\ events \in Seq(Events)
    /\ sent \in Seq(Events)

SomeSetup == CHOOSE s \in Setups : TRUE

Idle == [node |-> "end", route |-> "NONE", setup |-> SomeSetup,
    stream |-> FALSE, draft |-> NoDraft, missing |-> FALSE, pending |-> NoDraft, request |-> FALSE, steps |-> 0,
    calls |-> 0, found |-> {}, evidence |-> {}, sufficient |-> FALSE,
    claims |-> {}, reply |-> "NONE", decision |-> "NONE"]

Init ==
    /\ saved = [draft |-> NoDraft, missing |-> FALSE, pending |-> NoDraft,
                request |-> FALSE]
    /\ turns = 0
    /\ graph = Idle
    /\ events = <<>> /\ sent = <<>>

-----------------------------------------------------------------------------
\* The turn's answer is complete for the client: nothing is left to send.
TurnOver == graph.node = "end" /\ events = <<>>

\* handle_graph_event: without a stream handler nothing is queued.
Queued(event) == events' = IF graph.stream THEN Append(events, event) ELSE events

\* _prepare_chat and run: the stored request counts unless a page sends its own.
Begin ==
    /\ TurnOver /\ turns < MaxTurns
    /\ turns' = turns + 1
    /\ \E setup \in Setups, stream \in BOOLEAN,
          request \in {saved.request, TRUE, FALSE} :
        graph' = [Idle EXCEPT !.node = "route", !.setup = setup,
            !.stream = stream,
            !.draft = saved.draft, !.missing = saved.missing,
            !.pending = saved.pending, !.request = request]
    /\ events' = <<>> /\ sent' = <<>>
    /\ UNCHANGED <<saved>>

Goes(fields) == graph' = [graph EXCEPT
    !.node = fields.node, !.steps = @ + 1,
    !.calls = @ + fields.calls,
    !.found = @ \cup fields.found,
    !.evidence = @ \cup fields.evidence]

Nothing(node) == [node |-> node, calls |-> 0, found |-> {}, evidence |-> {}]

At(node) == graph.node = node /\ UNCHANGED <<saved, turns, sent>>

\* FirstVersionRouter.classify, on the kinds of terms a message has
Classified(terms) ==
    CASE "RECOMMENDATION" \in terms -> "RECOMMENDATION"
      [] "FORM" \in terms -> "FORM_PREFILL"
      [] {"COMPLEX", "EXCLUDE_BLACKLISTED"} \subseteq terms -> "COMPLEX_QUERY"
      [] {"KNOWLEDGE", "RISK"} \subseteq terms /\ "REALTIME" \notin terms -> "KNOWLEDGE"
      [] "RISK" \in terms -> "RISK_INVESTIGATION"
      [] "COMPLEX" \in terms -> "COMPLEX_QUERY"
      [] {"KNOWLEDGE", "REALTIME"} \subseteq terms -> "HYBRID"
      [] "REALTIME" \in terms -> "REALTIME_BUSINESS"
      [] OTHER -> "KNOWLEDGE"

Terms == {"RECOMMENDATION", "FORM", "COMPLEX", "EXCLUDE_BLACKLISTED",
          "KNOWLEDGE", "RISK", "REALTIME"}

Continuing == graph.draft # NoDraft /\ graph.missing

\* The model classifies a message without terms; when it fails, and without
\* models, such a message is a KNOWLEDGE question.
Chosen(terms, byModel) == IF terms = {} THEN byModel ELSE Classified(terms)

\* _after_route
WorkNode(route) ==
    CASE route = "REALTIME_BUSINESS" -> "realtime_query"
      [] route \in {"KNOWLEDGE", "HYBRID"} -> "knowledge"
      [] route = "COMPLEX_QUERY" -> "analysis"
      [] route = "RISK_INVESTIGATION" -> "risk_investigation"
      [] route = "FORM_PREFILL" -> "form_prefill"
      [] route = "RECOMMENDATION" -> "recommendation"

\* _route_node.  "confirms" is a reply that asks for the recommendations a
\* complete draft is offered with.
Route ==
    /\ At("route")
    /\ \E terms \in SUBSET Terms, confirms, named \in BOOLEAN :
        \E byModel \in IF graph.setup.roles /\ terms = {} /\ ~Continuing
                       THEN Routes ELSE {"KNOWLEDGE"} :
            LET route ==
                IF confirms /\ graph.draft # NoDraft /\ ~graph.missing
                THEN "RECOMMENDATION"
                ELSE IF Continuing /\ "RECOMMENDATION" \notin terms
                THEN "FORM_PREFILL"
                ELSE Chosen(terms, byModel)
            IN graph' = [graph EXCEPT !.node = WorkNode(route), !.route = route,
                !.steps = @ + 1,
                !.request = @ \/ /\ named
                                 /\ route \in {"REALTIME_BUSINESS", "HYBRID",
                                        "RISK_INVESTIGATION", "RECOMMENDATION"}]
    /\ UNCHANGED events

\* _boundary_failure: the node is skipped.
Exhausted == graph.steps >= graph.setup.limits.steps
Skip(node) == graph' = [graph EXCEPT !.node = node] /\ UNCHANGED events

\* _knowledge_node and _after_knowledge
Knowledge ==
    /\ At("knowledge")
    /\ LET next == IF graph.route = "HYBRID" THEN "realtime_query"
                   ELSE "sufficiency_check"
       IN \/ Exhausted /\ Skip(next)
          \/ /\ ~Exhausted
             /\ \/ Goes(Nothing(next))
                \/ /\ graph.setup.retriever
                   /\ Goes([Nothing(next) EXCEPT !.found = {"KNOWLEDGE"},
                                                 !.evidence = {"KNOWLEDGE"}])
             /\ UNCHANGED events

\* The number of calls _realtime_query_node makes, and what a search finds:
\* it succeeds or not, and matches one request or another number of them.
Search == [made : BOOLEAN, success : BOOLEAN, unique : BOOLEAN]

\* get_purchase_request, after the calls and results of a search
Fetch(calls, found, evidence) ==
    \/ graph.calls + calls >= graph.setup.limits.calls /\ Skip("sufficiency_check")
    \/ /\ graph.calls + calls < graph.setup.limits.calls
       /\ \E success \in BOOLEAN :
            Goes([node |-> "sufficiency_check", calls |-> calls + 1,
                  found |-> found \cup IF success THEN {"TOOL"} ELSE {},
                  evidence |-> evidence \cup IF success THEN {"TOOL"} ELSE {}])
       /\ UNCHANGED events

\* _realtime_query_node: a request that is not named is searched for.
RealtimeQuery ==
    /\ At("realtime_query")
    /\ \/ Exhausted /\ Skip("sufficiency_check")
       \/ ~Exhausted /\ graph.request /\ Fetch(0, {}, {})
       \/ /\ ~Exhausted /\ ~graph.request
          /\ \E s \in Search :
            LET found == IF s.success THEN {"TOOL"} ELSE {}
            IN IF s.made /\ s.success /\ s.unique
               THEN Fetch(1, found, {"TOOL"})
               ELSE /\ Goes([node |-> "sufficiency_check",
                             calls |-> IF s.made THEN 1 ELSE 0,
                             found |-> IF s.made THEN found ELSE {},
                             evidence |-> IF s.made THEN {"TOOL"} ELSE {}])
                    /\ UNCHANGED events

\* _analysis_node: up to three steps of a plan, each a call.
Analysis ==
    /\ At("analysis")
    /\ \/ (Exhausted \/ graph.calls >= graph.setup.limits.calls) /\ Skip("sufficiency_check")
       \/ /\ ~Exhausted /\ graph.calls < graph.setup.limits.calls
          /\ \/ Goes(Nothing("sufficiency_check"))
             \/ \E failed \in BOOLEAN :
                Goes([node |-> "sufficiency_check", calls |-> 1,
                      found |-> {"ANALYSIS"} \cup IF failed THEN {} ELSE {"TOOL"},
                      evidence |-> IF failed THEN {} ELSE {"TOOL"}])
          /\ UNCHANGED events

\* What an investigation lists: the signals of the risk analysis, which count
\* as a tool's, and what is looked up because of them.
Findings == {[type |-> "INVESTIGATION", kind |-> kind, status |-> status] :
    kind \in {"KNOWLEDGE", "TOOL", "ANALYSIS"}, status \in {"SUCCESS", "FAILED"}}

\* _risk_investigation_node
RiskInvestigation ==
    /\ At("risk_investigation")
    /\ \/ Exhausted /\ Skip("sufficiency_check")
       \/ /\ ~Exhausted
          /\ \/ Goes(Nothing("sufficiency_check"))
             \/ /\ graph.request
                /\ \E items \in SUBSET Findings :
                    Goes([node |-> "sufficiency_check", calls |-> 1,
                          found |-> {"INVESTIGATION", "TOOL"},
                          evidence |-> {NormalizedKind(item) : item \in items}])
          /\ UNCHANGED events

\* _recommendation_node: its skill may only ask for clarification.
Recommendation ==
    /\ At("recommendation")
    /\ \/ Exhausted /\ Skip("sufficiency_check")
       \/ /\ ~Exhausted
          /\ \E evidence \in SUBSET {"HISTORY"} :
                Goes([node |-> "sufficiency_check", calls |-> 1,
                      found |-> {"RECOMMENDATION", "TOOL"}, evidence |-> evidence])
          /\ UNCHANGED events

\* Fault: an action drafted before stays pending while the draft changes.
DraftedKeepsPending(draft, missing) == [graph EXCEPT
    !.node = "sufficiency_check", !.steps = @ + 1,
    !.draft = draft, !.missing = missing,
    !.pending = IF missing THEN @ ELSE draft]

\* A complete draft becomes the pending action, an incomplete one drops it.
Drafted(draft, missing) == [graph EXCEPT
    !.node = "sufficiency_check", !.steps = @ + 1,
    !.draft = draft, !.missing = missing,
    !.pending = IF missing THEN NoDraft ELSE draft]

\* _form_prefill_node.  A message may change nothing of the draft; only an
\* incomplete one can end empty, its last field being taken back.
FormPrefill ==
    /\ At("form_prefill")
    /\ \/ Exhausted /\ Skip("sufficiency_check")
       \/ /\ ~Exhausted
          /\ \/ \E missing \in BOOLEAN : graph' = Drafted(turns, missing)
             \/ graph.draft # NoDraft /\ graph' = Drafted(graph.draft, graph.missing)
             \/ (graph.draft = NoDraft \/ graph.missing) /\ graph' = Drafted(NoDraft, TRUE)
          /\ UNCHANGED events

\* step_count of the nodes that always run
Counted(steps) == IF steps < graph.setup.limits.steps THEN steps + 1 ELSE steps

\* _sufficiency_node
Sufficient ==
    CASE graph.route = "KNOWLEDGE" -> "KNOWLEDGE" \in graph.found
      [] graph.route = "REALTIME_BUSINESS" -> "TOOL" \in graph.found
      [] graph.route = "HYBRID" -> {"KNOWLEDGE", "TOOL"} \subseteq graph.found
      [] graph.route = "COMPLEX_QUERY" -> "ANALYSIS" \in graph.found
      [] graph.route = "RISK_INVESTIGATION" -> "INVESTIGATION" \in graph.found
      [] graph.route = "FORM_PREFILL" -> graph.draft # NoDraft
      [] graph.route = "RECOMMENDATION" -> "RECOMMENDATION" \in graph.found

SufficiencyCheck ==
    /\ At("sufficiency_check")
    /\ graph' = [graph EXCEPT !.node = "compose", !.steps = Counted(@),
                              !.sufficient = Sufficient]
    /\ UNCHANGED events

Composed(reply, claims) ==
    graph' = [graph EXCEPT !.node = "review", !.steps = Counted(@),
                           !.reply = reply, !.claims = claims]

\* Fault: the template is streamed also after the model's text was.
ComposeStreamsTwice ==
    /\ At("compose")
    /\ IF graph.setup.roles /\ graph.evidence # {} /\ graph.route # "RECOMMENDATION"
       THEN /\ \E reply \in {"MODEL", "COMPLETED"} : Composed(reply, {})
            /\ events' = IF graph.stream THEN events \o <<"delta", "delta">> ELSE events
       ELSE Composed("TEMPLATE", {}) /\ Queued("delta")

\* _answer_node and compose_stream: the model's text is streamed once it is
\* whole and valid; a text that ends in a colon is completed by the template
\* afterwards; whenever there is no model's text the template is streamed.
Compose ==
    /\ At("compose")
    /\ IF graph.setup.roles /\ graph.evidence # {} /\ graph.route # "RECOMMENDATION"
       THEN \/ \E reply \in {"MODEL", "COMPLETED"}, claim \in Claims \cup {"NONE"} :
                Composed(reply, {claim} \cap Claims)
            \/ Composed("TEMPLATE", {})
       ELSE Composed("TEMPLATE", {})
    /\ Queued("delta")

\* The issues the review node finds by itself
OwnIssues ==
    (IF graph.sufficient THEN {} ELSE {"MISSING_EVIDENCE"})
    \cup (IF graph.pending = NoDraft THEN {} ELSE {"HUMAN_CONFIRMATION_REQUIRED"})

Decide(issues) == Decision(issues, graph.claims, graph.evidence,
                           graph.sufficient, graph.pending # NoDraft)

\* The review is done; "claims" are those of the reply.
Reviewed(decision, reply, claims) ==
    graph' = [graph EXCEPT !.node = "message", !.decision = decision,
        !.reply = reply, !.claims = claims,
        !.setup = SomeSetup, !.steps = 0, !.calls = 0, !.found = {}]

\* A model's review replaces the node's own findings, except that a pending
\* action is added to it if it does not ask for a confirmation.  A blocked
\* answer gives way to the review's own text, if that is trusted.
ModelReview ==
    \E code \in IssueCodes \cup {"NONE"}, asks \in BOOLEAN,
       claim \in Claims \cup {"NONE"} :
        LET issues == ({code} \cap IssueCodes)
                \cup IF graph.pending = NoDraft \/ asks THEN {}
                     ELSE {"HUMAN_CONFIRMATION_REQUIRED"}
            decision == Decide(issues)
            revised == {claim} \cap Claims
        IN IF decision # "BLOCK" THEN Reviewed(decision, graph.reply, graph.claims)
           ELSE \/ Reviewed("BLOCK", "REFUSED", {})
                \/ /\ Trusted(revised, graph.evidence)
                   /\ Reviewed("BLOCK", "REVISED", revised)

\* _review_node.  A complex query is reviewed by the model if it was planned
\* by the model, which depends on its words.
Review ==
    /\ At("review")
    /\ \/ /\ ~graph.setup.roles \/ graph.route \notin {"HYBRID", "RISK_INVESTIGATION"}
          /\ Reviewed(Decide(OwnIssues), graph.reply, graph.claims)
       \/ /\ graph.setup.roles
          /\ graph.route \in {"HYBRID", "RISK_INVESTIGATION", "COMPLEX_QUERY"}
          /\ \/ ModelReview
             \/ Reviewed("REVIEW_UNAVAILABLE", graph.reply, graph.claims)
    /\ UNCHANGED events

-----------------------------------------------------------------------------
\* The turn ends: with its last event, and None behind it.
Ended(event) ==
    /\ graph' = [Idle EXCEPT !.stream = graph.stream]
    /\ events' = IF graph.stream THEN events \o <<event, "end">> ELSE events

\* _persist_result, its first call: the agent's message
PersistMessage ==
    /\ At("message")
    /\ graph' = [graph EXCEPT !.node = "state"]
    /\ UNCHANGED events

\* Fault: a turn without a draft of its own clears the one that is stored.
StateForgetsDraft ==
    [draft |-> IF graph.route = "FORM_PREFILL" THEN graph.draft ELSE NoDraft,
     missing |-> IF graph.route = "FORM_PREFILL" THEN graph.missing ELSE FALSE,
     pending |-> graph.pending, request |-> graph.request]

\* GraphMemoryMapper.to_backend_state: an empty draft is dropped by the turns
\* that fill forms, and ignored by the others.
State ==
    [draft |-> IF graph.draft # NoDraft \/ graph.route = "FORM_PREFILL"
               THEN graph.draft ELSE saved.draft,
     missing |-> IF graph.draft # NoDraft THEN graph.missing
                 ELSE saved.missing /\ graph.route # "FORM_PREFILL",
     pending |-> graph.pending,
     request |-> graph.request]

PersistState ==
    /\ graph.node = "state"
    /\ saved' = State
    /\ graph' = [graph EXCEPT !.node = "snapshot"]
    /\ UNCHANGED <<turns, events, sent>>

\* save_conversation_snapshot, and the closing events
PersistSnapshot ==
    /\ At("snapshot")
    /\ graph' = [Idle EXCEPT !.stream = graph.stream]
    /\ events' = IF ~graph.stream THEN events
                 ELSE events \o (IF graph.pending = NoDraft THEN <<>>
                                 ELSE <<"confirmation_required">>)
                             \o <<"completed", "end">>

\* A call of _persist_result fails: what it wrote at the back end stays.
PersistFails ==
    /\ graph.node \in {"message", "state", "snapshot"}
    /\ saved' \in IF graph.node = "state" THEN {saved, State} ELSE {saved}
    /\ Ended("error")
    /\ UNCHANGED <<turns, sent>>

\* _run_graph: the task's time limit, or an exception no node handles
GraphFails ==
    /\ graph.node \in GraphNodes
    /\ Ended("error")
    /\ UNCHANGED <<saved, turns, sent>>

\* Fault: an event is taken from the queue and not sent.
SendSkips ==
    /\ events # <<>>
    /\ events' = Tail(events)
    /\ sent' = IF Len(events) > 2 THEN Append(sent, Head(events)) ELSE sent
    /\ UNCHANGED <<saved, turns, graph>>

\* chat_stream.generate
Send ==
    /\ events # <<>>
    /\ events' = Tail(events)
    /\ sent' = IF Head(events) = "end" THEN sent ELSE Append(sent, Head(events))
    /\ UNCHANGED <<saved, turns, graph>>

\* The client disconnects: the generator cancels the turn unless it is done.
ClientLeaves ==
    /\ graph.stream /\ ~TurnOver
    /\ graph' = Idle
    /\ events' = <<>> /\ sent' = <<>>
    /\ saved' \in IF graph.node = "state" THEN {saved, State} ELSE {saved}
    /\ UNCHANGED <<turns>>

\* hitl/service._resolve: an executed draft leaves nothing, a canceled or
\* expired one is no longer pending, and can be continued.
Decided ==
    /\ TurnOver /\ saved.pending # NoDraft
    /\ \/ saved' = [saved EXCEPT !.pending = NoDraft]
       \/ saved' = [saved EXCEPT !.pending = NoDraft, !.draft = NoDraft,
                                 !.missing = FALSE]
    /\ UNCHANGED <<turns, graph, events, sent>>

Step ==
    \/ Route \/ Knowledge \/ RealtimeQuery \/ Analysis \/ RiskInvestigation
    \/ Recommendation \/ FormPrefill \/ SufficiencyCheck \/ Compose \/ Review
    \/ PersistMessage \/ PersistState \/ PersistSnapshot
    \/ PersistFails \/ GraphFails

Next == Begin \/ Step \/ Send \/ ClientLeaves \/ Decided

Spec == Init /\ [][Next]_vars

\* The task and the generator run: every node has time limits below it.
Fairness == WF_vars(Step) /\ WF_vars(Send)

FairSpec == Spec /\ Fairness

-----------------------------------------------------------------------------
(***************************************************************************)
(* Properties.                                                             *)
(***************************************************************************)

\* What waits for the user's confirmation is the draft the conversation shows,
\* and complete: across turns of every kind, cancelled actions, failed and
\* half-persisted turns.
PendingIsDraft ==
    saved.pending # NoDraft => saved.pending = saved.draft /\ ~saved.missing

\* A complete draft is changed by further form turns only; it disappears by
\* being executed and by nothing else, failing turns included.
CompleteDraftKept ==
    [][saved.draft # NoDraft /\ ~saved.missing /\ saved'.draft = NoDraft
        => saved.pending = saved.draft /\ graph.node = "end"]_vars

IsTerminal(event) == event \in {"completed", "error"}
Count(seq, Test(_)) == Cardinality({i \in DOMAIN seq : Test(seq[i])})
IsDelta(event) == event = "delta"

\* The client sees one answer text at most, exactly one if the turn completes,
\* and one terminal event, which is the last.
OneAnswerStreamed ==
    /\ Count(sent \o events, IsDelta) <= 1
    /\ "completed" \in {sent[i] : i \in DOMAIN sent} => Count(sent, IsDelta) = 1
    /\ Count(sent \o events, IsTerminal) <= 1
    /\ \A i \in 1..Len(sent) : IsTerminal(sent[i]) => i = Len(sent)

\* Every streamed turn ends, for its client, with completed or error; a client
\* that leaves has no stream.
EveryStreamEnds ==
    graph.node # "end" /\ graph.stream ~>
        TurnOver /\ (graph.stream => sent # <<>> /\ IsTerminal(sent[Len(sent)]))
=============================================================================
