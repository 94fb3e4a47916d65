-------------------------- MODULE ConversationProofs --------------------------
(***************************************************************************)
(* Theorems about Conversation for any number of turns and any limits of   *)
(* the settings.                                                           *)
(***************************************************************************)
EXTENDS Conversation, FiniteSetTheorems, SequenceTheorems, TLAPS

-----------------------------------------------------------------------------
(***************************************************************************)
(* What the nodes leave in the turn's state.                               *)
(***************************************************************************)
Kinds == {"KNOWLEDGE", "TOOL", "ANALYSIS", "INVESTIGATION", "RECOMMENDATION"}

\* The nodes up to the one that works on the message's route
WorkNodes == {"route", "knowledge", "realtime_query", "analysis",
              "risk_investigation", "form_prefill", "recommendation"}

LEMMA Setup == SomeSetup \in Setups
<1>1. PICK limits \in Limits : TRUE
  BY ConversationAssumption
<1>2. [roles |-> TRUE, retriever |-> TRUE, limits |-> limits] \in Setups
  BY <1>1 DEF Setups
<1>3. QED
  BY <1>2 DEF SomeSetup

LEMMA IdleType == Idle \in GraphRecord
<1>1. NoDraft \in Editions /\ "end" \in Nodes /\ "NONE" \in Replies /\ "NONE" \in Decisions
  BY ConversationAssumption DEF NoDraft, Editions, Nodes, Replies, Decisions
<1>2. QED
  BY <1>1, Setup DEF Idle, GraphRecord

\* What stays of the turn's state while a node works
Carried ==
    /\ graph'.draft = graph.draft /\ graph'.missing = graph.missing
    /\ graph'.pending = graph.pending
    /\ graph'.stream = graph.stream

\* The sufficiency check is reached on a route.
OnRoute == graph.node \in (WorkNodes \ {"route"}) \cup {"sufficiency_check"} => graph.route \in Routes

LEMMA GoesOn ==
    ASSUME TypeOK, NEW node \in Nodes, NEW calls \in Nat, NEW found \in SUBSET Kinds,
           NEW evidence \in SUBSET EvidenceKinds,
           Goes([node |-> node, calls |-> calls, found |-> found, evidence |-> evidence])
    PROVE  graph' \in GraphRecord /\ graph'.node = node /\ graph'.route = graph.route /\ Carried
<1>1. /\ graph \in GraphRecord /\ graph.steps \in Nat /\ graph.calls \in Nat
      /\ graph.found \in SUBSET Kinds /\ graph.evidence \in SUBSET EvidenceKinds
  BY DEF TypeOK, GraphRecord, Kinds
<1>2. graph' = [graph EXCEPT !.node = node, !.steps = graph.steps + 1,
                             !.calls = graph.calls + calls,
                             !.found = graph.found \cup found,
                             !.evidence = graph.evidence \cup evidence]
  BY DEF Goes
<1>3. /\ graph.steps + 1 \in Nat /\ graph.calls + calls \in Nat
      /\ graph.found \cup found \in SUBSET Kinds
      /\ graph.evidence \cup evidence \in SUBSET EvidenceKinds
  BY <1>1
<1>4. QED
  BY <1>1, <1>2, <1>3 DEF GraphRecord, Kinds, Carried

LEMMA Skips ==
    ASSUME TypeOK, NEW node \in Nodes, Skip(node)
    PROVE  graph' \in GraphRecord /\ graph'.node = node /\ graph'.route = graph.route /\ Carried
<1>1. graph \in GraphRecord /\ graph' = [graph EXCEPT !.node = node]
  BY DEF TypeOK, Skip
<1>2. QED
  BY <1>1 DEF GraphRecord, Carried

LEMMA NodesOfRoutes ==
    ASSUME NEW route \in Routes
    PROVE  WorkNode(route) \in WorkNodes \ {"route"}
  BY DEF WorkNode, Routes, WorkNodes

LEMMA NodeNames ==
    /\ WorkNodes \subseteq GraphNodes /\ GraphNodes \subseteq Nodes
    /\ "end" \notin GraphNodes
    /\ {"sufficiency_check", "compose", "review"} \subseteq GraphNodes
    /\ {"message", "state", "snapshot", "end"} \subseteq Nodes \ GraphNodes
  BY DEF WorkNodes, GraphNodes, Nodes

LEMMA Routed ==
    ASSUME TypeOK, Route
    PROVE  /\ graph' \in GraphRecord /\ graph'.node \in WorkNodes /\ graph'.route \in Routes
           /\ Carried
<1>1. PICK terms \in SUBSET Terms, confirms \in BOOLEAN, named \in BOOLEAN :
        \E byModel \in IF graph.setup.roles /\ terms = {} /\ ~Continuing
                   THEN Routes ELSE {"KNOWLEDGE"} :
        LET route ==
            IF confirms /\ graph.draft # NoDraft /\ ~graph.missing
            THEN "RECOMMENDATION"
            ELSE IF Continuing /\ "RECOMMENDATION" \notin terms
            THEN "FORM_PREFILL"
            ELSE Chosen(terms, byModel)
        IN graph' = [graph EXCEPT !.node = WorkNode(route), !.route = route,
            !.steps = @ + 1,
            !.request = @ \/ /\ named
                             /\ route \in {"REALTIME_BUSINESS", "HYBRID",
                                    "RISK_INVESTIGATION", "RECOMMENDATION"}]
  BY Zenon DEF Route
<1>2. PICK byModel \in IF graph.setup.roles /\ terms = {} /\ ~Continuing
                   THEN Routes ELSE {"KNOWLEDGE"} :
        LET route ==
            IF confirms /\ graph.draft # NoDraft /\ ~graph.missing
            THEN "RECOMMENDATION"
            ELSE IF Continuing /\ "RECOMMENDATION" \notin terms
            THEN "FORM_PREFILL"
            ELSE Chosen(terms, byModel)
        IN graph' = [graph EXCEPT !.node = WorkNode(route), !.route = route,
            !.steps = @ + 1,
            !.request = @ \/ /\ named
                             /\ route \in {"REALTIME_BUSINESS", "HYBRID",
                                    "RISK_INVESTIGATION", "RECOMMENDATION"}]
  BY <1>1, Zenon
<1>3. byModel \in Routes
  BY DEF Routes
<1> DEFINE route == IF confirms /\ graph.draft # NoDraft /\ ~graph.missing
                    THEN "RECOMMENDATION"
                    ELSE IF Continuing /\ "RECOMMENDATION" \notin terms
                    THEN "FORM_PREFILL"
                    ELSE Chosen(terms, byModel)
           request == graph.request \/ /\ named
                                       /\ route \in {"REALTIME_BUSINESS", "HYBRID",
                                              "RISK_INVESTIGATION", "RECOMMENDATION"}
<1>4. route \in Routes
  BY <1>3 DEF Chosen, Classified, Routes
<1>5. WorkNode(route) \in WorkNodes
  BY <1>4, NodesOfRoutes
<1>6. graph \in GraphRecord /\ graph.steps + 1 \in Nat /\ graph.request \in BOOLEAN
  BY DEF TypeOK, GraphRecord
<1>7. request \in BOOLEAN
  BY <1>6
<1>8. graph' = [graph EXCEPT !.node = WorkNode(route), !.route = route,
                             !.steps = graph.steps + 1, !.request = request]
  BY <1>2
<1> HIDE DEF route, request
<1>9. QED
  BY <1>4, <1>5, <1>6, <1>7, <1>8, NodeNames DEF GraphRecord, Carried

\* A node that looks something up, and the nodes behind it
LookUp == Knowledge \/ RealtimeQuery \/ Analysis \/ RiskInvestigation \/ Recommendation

LEMMA LooksUp ==
    ASSUME TypeOK, LookUp
    PROVE  /\ graph.node \in WorkNodes /\ graph' \in GraphRecord
           /\ graph'.node \in {"realtime_query", "sufficiency_check"}
           /\ graph'.route = graph.route
           /\ Carried /\ UNCHANGED <<saved, turns, sent, events>>
<1> DEFINE Done == graph' \in GraphRecord /\ graph'.route = graph.route /\ Carried
                   /\ graph'.node \in {"realtime_query", "sufficiency_check"}
<1>1. {"realtime_query", "sufficiency_check"} \subseteq Nodes
  BY DEF Nodes, GraphNodes
<1>2. ASSUME NEW node \in {"realtime_query", "sufficiency_check"}, Skip(node)
      PROVE  Done
  BY <1>1, <1>2, Skips
<1>3. ASSUME NEW node \in {"realtime_query", "sufficiency_check"}, NEW calls \in Nat,
             NEW found \in SUBSET Kinds, NEW evidence \in SUBSET EvidenceKinds,
             Goes([node |-> node, calls |-> calls, found |-> found, evidence |-> evidence])
      PROVE  Done
  BY <1>1, <1>3, GoesOn
<1>4. ASSUME NEW node \in {"realtime_query", "sufficiency_check"}, Goes(Nothing(node))
      PROVE  Done
  <2>1. Goes([node |-> node, calls |-> 0, found |-> {}, evidence |-> {}])
    BY <1>4 DEF Nothing
  <2>2. 0 \in Nat /\ {} \in SUBSET Kinds /\ {} \in SUBSET EvidenceKinds
    OBVIOUS
  <2>3. QED
    BY <1>3, <2>1, <2>2
<1>5. {"KNOWLEDGE", "TOOL", "ANALYSIS", "HISTORY"} \subseteq EvidenceKinds
  BY DEF EvidenceKinds
<1>6. /\ {"KNOWLEDGE"} \in SUBSET Kinds /\ {"TOOL"} \in SUBSET Kinds
      /\ {"INVESTIGATION", "TOOL"} \in SUBSET Kinds
      /\ {"RECOMMENDATION", "TOOL"} \in SUBSET Kinds
      /\ 0 \in Nat /\ 1 \in Nat /\ 2 \in Nat
  BY DEF Kinds
<1> HIDE DEF Done
<1>7. ASSUME Knowledge PROVE Done /\ UNCHANGED events
  <2> PICK next : next = IF graph.route = "HYBRID" THEN "realtime_query" ELSE "sufficiency_check"
    OBVIOUS
  <2>1. next \in {"realtime_query", "sufficiency_check"}
    OBVIOUS
  <2>2. CASE Skip(next)
    BY <1>2, <2>1, <2>2 DEF Skip
  <2>3. CASE Goes(Nothing(next)) /\ UNCHANGED events
    BY <1>4, <2>1, <2>3
  <2>4. CASE Goes([Nothing(next) EXCEPT !.found = {"KNOWLEDGE"}, !.evidence = {"KNOWLEDGE"}])
             /\ UNCHANGED events
    <3> PICK fields : fields =
            [Nothing(next) EXCEPT !.found = {"KNOWLEDGE"}, !.evidence = {"KNOWLEDGE"}]
      OBVIOUS
    <3>1. /\ fields.node = next /\ fields.calls = 0
          /\ fields.found = {"KNOWLEDGE"} /\ fields.evidence = {"KNOWLEDGE"}
      BY DEF Nothing
    <3>2. Goes([node |-> next, calls |-> 0, found |-> {"KNOWLEDGE"},
                evidence |-> {"KNOWLEDGE"}])
      <4>1. Goes(fields)
        BY <2>4
      <4>2. graph' = [graph EXCEPT !.node = next, !.steps = @ + 1, !.calls = @ + 0,
                        !.found = @ \cup {"KNOWLEDGE"}, !.evidence = @ \cup {"KNOWLEDGE"}]
        BY <3>1, <4>1 DEF Goes
      <4>3. QED
        BY <4>2 DEF Goes
    <3>3. QED
      BY <1>3, <1>5, <1>6, <2>1, <2>4, <3>2
  <2>5. QED
    BY <1>7, <2>2, <2>3, <2>4 DEF Knowledge
<1>8. ASSUME NEW calls \in {0, 1}, NEW found \in {{}, {"TOOL"}}, NEW evidence \in {{}, {"TOOL"}},
             Fetch(calls, found, evidence)
      PROVE  Done /\ UNCHANGED events
  <2>1. CASE Skip("sufficiency_check")
    BY <1>2, <2>1 DEF Skip
  <2>2. CASE /\ UNCHANGED events
             /\ \E success \in BOOLEAN :
                  Goes([node |-> "sufficiency_check", calls |-> calls + 1,
                        found |-> found \cup IF success THEN {"TOOL"} ELSE {},
                        evidence |-> evidence \cup IF success THEN {"TOOL"} ELSE {}])
    <3>1. PICK success \in BOOLEAN :
            Goes([node |-> "sufficiency_check", calls |-> calls + 1,
                  found |-> found \cup IF success THEN {"TOOL"} ELSE {},
                  evidence |-> evidence \cup IF success THEN {"TOOL"} ELSE {}])
      BY <2>2
    <3>2. /\ calls + 1 \in Nat
          /\ (found \cup IF success THEN {"TOOL"} ELSE {}) \in SUBSET Kinds
          /\ (evidence \cup IF success THEN {"TOOL"} ELSE {}) \in SUBSET EvidenceKinds
      BY <1>5, <1>6
    <3>3. QED
      BY <1>3, <2>2, <3>1, <3>2
  <2>3. QED
    BY <1>8, <2>1, <2>2 DEF Fetch
<1>9. ASSUME RealtimeQuery PROVE Done /\ UNCHANGED events
  <2>1. CASE Skip("sufficiency_check")
    BY <1>2, <2>1 DEF Skip
  <2>2. CASE Fetch(0, {}, {})
    BY <1>8, <2>2
  <2>3. CASE \E s \in Search :
            LET found == IF s.success THEN {"TOOL"} ELSE {}
            IN IF s.made /\ s.success /\ s.unique
               THEN Fetch(1, found, {"TOOL"})
               ELSE /\ Goes([node |-> "sufficiency_check",
                             calls |-> IF s.made THEN 1 ELSE 0,
                             found |-> IF s.made THEN found ELSE {},
                             evidence |-> IF s.made THEN {"TOOL"} ELSE {}])
                    /\ UNCHANGED events
    <3>1. PICK s \in Search :
            LET found == IF s.success THEN {"TOOL"} ELSE {}
            IN IF s.made /\ s.success /\ s.unique
               THEN Fetch(1, found, {"TOOL"})
               ELSE /\ Goes([node |-> "sufficiency_check",
                             calls |-> IF s.made THEN 1 ELSE 0,
                             found |-> IF s.made THEN found ELSE {},
                             evidence |-> IF s.made THEN {"TOOL"} ELSE {}])
                    /\ UNCHANGED events
      BY <2>3
    <3>2. PICK found \in {{}, {"TOOL"}} :
            \/ Fetch(1, found, {"TOOL"})
            \/ /\ Goes([node |-> "sufficiency_check",
                        calls |-> IF s.made THEN 1 ELSE 0,
                        found |-> IF s.made THEN found ELSE {},
                        evidence |-> IF s.made THEN {"TOOL"} ELSE {}])
               /\ UNCHANGED events
      BY <3>1
    <3>3. CASE Fetch(1, found, {"TOOL"})
      BY <1>8, <3>3
    <3>4. CASE /\ Goes([node |-> "sufficiency_check",
                        calls |-> IF s.made THEN 1 ELSE 0,
                        found |-> IF s.made THEN found ELSE {},
                        evidence |-> IF s.made THEN {"TOOL"} ELSE {}])
               /\ UNCHANGED events
      <4>1. /\ (IF s.made THEN 1 ELSE 0) \in Nat
            /\ (IF s.made THEN found ELSE {}) \in SUBSET Kinds
            /\ (IF s.made THEN {"TOOL"} ELSE {}) \in SUBSET EvidenceKinds
        BY <1>5, <1>6
      <4>2. QED
        BY <1>3, <3>4, <4>1
    <3>5. QED
      BY <3>2, <3>3, <3>4
  <2>4. QED
    BY <1>9, <2>1, <2>2, <2>3 DEF RealtimeQuery
<1>10. ASSUME Analysis PROVE Done /\ UNCHANGED events
  <2>1. CASE Skip("sufficiency_check")
    BY <1>2, <2>1 DEF Skip
  <2>2. CASE Goes(Nothing("sufficiency_check")) /\ UNCHANGED events
    BY <1>4, <2>2
  <2>3. CASE /\ UNCHANGED events
             /\ \E failed \in BOOLEAN :
                 Goes([node |-> "sufficiency_check", calls |-> 1,
                       found |-> {"ANALYSIS"} \cup IF failed THEN {} ELSE {"TOOL"},
                       evidence |-> IF failed THEN {} ELSE {"TOOL"}])
    <3>1. PICK failed \in BOOLEAN :
             Goes([node |-> "sufficiency_check", calls |-> 1,
                   found |-> {"ANALYSIS"} \cup IF failed THEN {} ELSE {"TOOL"},
                   evidence |-> IF failed THEN {} ELSE {"TOOL"}])
      BY <2>3
    <3>2. /\ ({"ANALYSIS"} \cup IF failed THEN {} ELSE {"TOOL"}) \in SUBSET Kinds
          /\ (IF failed THEN {} ELSE {"TOOL"}) \in SUBSET EvidenceKinds
      BY <1>5 DEF Kinds
    <3>3. QED
      BY <1>3, <1>6, <2>3, <3>1, <3>2
  <2>4. QED
    BY <1>10, <2>1, <2>2, <2>3 DEF Analysis
<1>11. ASSUME RiskInvestigation PROVE Done /\ UNCHANGED events
  <2>1. CASE Skip("sufficiency_check")
    BY <1>2, <2>1 DEF Skip
  <2>2. CASE Goes(Nothing("sufficiency_check")) /\ UNCHANGED events
    BY <1>4, <2>2
  <2>3. CASE /\ UNCHANGED events
             /\ \E items \in SUBSET Findings :
                 Goes([node |-> "sufficiency_check", calls |-> 1,
                       found |-> {"INVESTIGATION", "TOOL"},
                       evidence |-> {NormalizedKind(item) : item \in items}])
    <3>1. PICK items \in SUBSET Findings :
             Goes([node |-> "sufficiency_check", calls |-> 1,
                   found |-> {"INVESTIGATION", "TOOL"},
                   evidence |-> {NormalizedKind(item) : item \in items}])
      BY <2>3
    <3>2. {NormalizedKind(item) : item \in items} \in SUBSET EvidenceKinds
      <4>1. ASSUME NEW item \in Findings PROVE NormalizedKind(item) \in EvidenceKinds
        BY <1>5 DEF Findings, NormalizedKind
      <4>2. QED
        BY <4>1
    <3>3. QED
      BY <1>3, <1>6, <2>3, <3>1, <3>2
  <2>4. QED
    BY <1>11, <2>1, <2>2, <2>3 DEF RiskInvestigation
<1>12. ASSUME Recommendation PROVE Done /\ UNCHANGED events
  <2>1. CASE Skip("sufficiency_check")
    BY <1>2, <2>1 DEF Skip
  <2>2. CASE /\ UNCHANGED events
             /\ \E evidence \in SUBSET {"HISTORY"} :
                 Goes([node |-> "sufficiency_check", calls |-> 1,
                       found |-> {"RECOMMENDATION", "TOOL"}, evidence |-> evidence])
    BY <1>3, <1>5, <1>6, <2>2
  <2>3. QED
    BY <1>12, <2>1, <2>2 DEF Recommendation
<1>13. graph.node \in WorkNodes /\ UNCHANGED <<saved, turns, sent>>
  BY DEF LookUp, Knowledge, RealtimeQuery, Analysis, RiskInvestigation, Recommendation, At,
     WorkNodes
<1>14. Done /\ UNCHANGED events
  BY <1>7, <1>9, <1>10, <1>11, <1>12 DEF LookUp
<1>15. QED
  BY <1>13, <1>14 DEF Done

\* A turn begins with the draft that is stored.
LEMMA Begins ==
    ASSUME TypeOK, Begin
    PROVE  /\ graph' \in GraphRecord /\ graph'.node = "route"
           /\ graph'.draft = saved.draft /\ graph'.missing = saved.missing
           /\ graph'.pending = saved.pending
           /\ turns' = turns + 1 /\ turns' \in 0..MaxTurns
           /\ sent' = <<>> /\ events' = <<>> /\ UNCHANGED saved
<1>1. /\ turns < MaxTurns /\ turns' = turns + 1
      /\ sent' = <<>> /\ events' = <<>> /\ UNCHANGED saved
  BY DEF Begin
<1>2. PICK setup \in Setups, stream \in BOOLEAN, wanted \in {saved.request, TRUE, FALSE} :
        graph' = [Idle EXCEPT !.node = "route", !.setup = setup, !.stream = stream,
            !.draft = saved.draft, !.missing = saved.missing,
            !.pending = saved.pending, !.request = wanted]
  BY DEF Begin
<1>3. /\ saved.draft \in Editions /\ saved.missing \in BOOLEAN /\ saved.pending \in Editions
      /\ saved.request \in BOOLEAN /\ turns \in 0..MaxTurns
  BY DEF TypeOK, Saved
<1>4. turns' \in 0..MaxTurns
  BY <1>1, <1>3, ConversationAssumption
<1>5. "route" \in Nodes /\ wanted \in BOOLEAN
  BY <1>2, <1>3 DEF Nodes, GraphNodes
<1>6. graph' \in GraphRecord
  BY <1>2, <1>3, <1>5, IdleType DEF GraphRecord
<1>7. /\ graph'.node = "route" /\ graph'.draft = saved.draft /\ graph'.missing = saved.missing
      /\ graph'.pending = saved.pending
  BY <1>2, IdleType DEF GraphRecord
<1>8. QED
  BY <1>1, <1>4, <1>6, <1>7

LEMMA ChecksSufficiency ==
    ASSUME TypeOK, OnRoute, SufficiencyCheck
    PROVE  /\ graph.node = "sufficiency_check"
           /\ graph' \in GraphRecord /\ graph'.node = "compose" /\ Carried
           /\ UNCHANGED <<saved, turns, sent, events>>
<1>1. /\ graph.node = "sufficiency_check" /\ UNCHANGED <<saved, turns, sent, events>>
      /\ graph' = [graph EXCEPT !.node = "compose", !.steps = Counted(graph.steps),
                                !.sufficient = Sufficient]
  BY DEF SufficiencyCheck, At
<1>2. graph \in GraphRecord /\ graph.steps \in Nat /\ graph.route \in Routes
  BY <1>1 DEF TypeOK, GraphRecord, OnRoute
<1>3. Counted(graph.steps) \in Nat
  BY <1>2 DEF Counted
<1>4. Sufficient \in BOOLEAN
  <2>1. CASE graph.route = "KNOWLEDGE"
    BY <2>1 DEF Sufficient
  <2>2. CASE graph.route = "REALTIME_BUSINESS"
    BY <2>2 DEF Sufficient
  <2>3. CASE graph.route = "HYBRID"
    BY <2>3 DEF Sufficient
  <2>4. CASE graph.route = "COMPLEX_QUERY"
    BY <2>4 DEF Sufficient
  <2>5. CASE graph.route = "RISK_INVESTIGATION"
    BY <2>5 DEF Sufficient
  <2>6. CASE graph.route = "FORM_PREFILL"
    BY <2>6 DEF Sufficient
  <2>7. CASE graph.route = "RECOMMENDATION"
    BY <2>7 DEF Sufficient
  <2>8. QED
    BY <1>2, <2>1, <2>2, <2>3, <2>4, <2>5, <2>6, <2>7 DEF Routes
<1>5. "compose" \in Nodes
  BY DEF Nodes, GraphNodes
<1>6. QED
  BY <1>1, <1>2, <1>3, <1>4, <1>5 DEF GraphRecord, Carried

LEMMA DraftedType ==
    ASSUME NEW g \in GraphRecord, NEW node \in Nodes, NEW steps \in Nat,
           NEW draft \in Editions, NEW missing, missing \in BOOLEAN, NEW pending \in Editions
    PROVE  [g EXCEPT !.node = node, !.steps = steps, !.draft = draft,
                     !.missing = missing, !.pending = pending] \in GraphRecord
  BY DEF GraphRecord

\* What a form turn makes of the draft
LEMMA Drafts ==
    ASSUME TypeOK, NEW draft \in Editions, NEW missing, missing \in BOOLEAN,
           graph' = Drafted(draft, missing)
    PROVE  /\ graph' \in GraphRecord /\ graph'.node = "sufficiency_check"
           /\ graph'.route = graph.route
           /\ graph'.stream = graph.stream
           /\ graph'.draft = draft /\ graph'.missing = missing
           /\ graph'.pending = IF missing THEN NoDraft ELSE draft
<1>1. graph \in GraphRecord /\ graph.steps \in Nat
  BY DEF TypeOK, GraphRecord
<1> PICK kept : kept = IF missing THEN NoDraft ELSE draft
  OBVIOUS
<1>2. graph' = [graph EXCEPT !.node = "sufficiency_check", !.steps = graph.steps + 1,
                  !.draft = draft, !.missing = missing, !.pending = kept]
  BY DEF Drafted
<1>3. kept \in Editions
  BY ConversationAssumption DEF NoDraft, Editions
<1>4. "sufficiency_check" \in Nodes /\ graph.steps + 1 \in Nat
  BY <1>1 DEF Nodes, GraphNodes
<1>5. graph' \in GraphRecord
  <2>1. [graph EXCEPT !.node = "sufficiency_check", !.steps = graph.steps + 1,
           !.draft = draft, !.missing = missing, !.pending = kept] \in GraphRecord
    BY <1>1, <1>3, <1>4, DraftedType, Zenon
  <2>2. QED
    BY <1>2, <2>1, Zenon
<1>6. /\ graph'.node = "sufficiency_check" /\ graph'.route = graph.route
      /\ graph'.stream = graph.stream
      /\ graph'.draft = draft /\ graph'.missing = missing /\ graph'.pending = kept
  BY <1>1, <1>2 DEF GraphRecord
<1>7. QED
  BY <1>5, <1>6

LEMMA PrefillsForm ==
    ASSUME TypeOK, FormPrefill
    PROVE  /\ graph.node = "form_prefill" /\ UNCHANGED <<saved, turns, sent, events>>
           /\ \/ /\ graph' \in GraphRecord /\ graph'.node = "sufficiency_check"
                 /\ graph'.route = graph.route /\ Carried
              \/ \E draft \in Editions, missing \in BOOLEAN :
                  /\ graph' = Drafted(draft, missing)
                  /\ \/ draft = turns
                     \/ draft = graph.draft /\ missing = graph.missing
                     \/ draft = NoDraft /\ missing /\ (graph.draft = NoDraft \/ graph.missing)
<1>1. graph.node = "form_prefill" /\ UNCHANGED <<saved, turns, sent>>
  BY DEF FormPrefill, At
<1>2. CASE Skip("sufficiency_check")
  BY <1>1, <1>2, Skips DEF Nodes, GraphNodes, Skip
<1>3. CASE /\ UNCHANGED events
           /\ \/ \E missing \in BOOLEAN : graph' = Drafted(turns, missing)
              \/ graph.draft # NoDraft /\ graph' = Drafted(graph.draft, graph.missing)
              \/ (graph.draft = NoDraft \/ graph.missing) /\ graph' = Drafted(NoDraft, TRUE)
  <2>1. /\ turns \in Editions /\ graph.draft \in Editions /\ graph.missing \in BOOLEAN
        /\ NoDraft \in Editions
    BY ConversationAssumption DEF TypeOK, GraphRecord, Editions, NoDraft
  <2>2. QED
    BY <1>1, <1>3, <2>1
<1>4. QED
  BY <1>2, <1>3 DEF FormPrefill

LEMMA Composes ==
    ASSUME TypeOK, Compose
    PROVE  /\ graph.node = "compose"
           /\ graph' \in GraphRecord /\ graph'.node = "review" /\ Carried
           /\ UNCHANGED <<saved, turns, sent>> /\ Queued("delta")
<1>1. graph.node = "compose" /\ UNCHANGED <<saved, turns, sent>> /\ Queued("delta")
  BY DEF Compose, At
<1>2. PICK reply \in Replies, claims \in SUBSET Claims : Composed(reply, claims)
  BY DEF Compose, Replies
<1>3. graph \in GraphRecord /\ graph.steps \in Nat
  BY DEF TypeOK, GraphRecord
<1>4. Counted(graph.steps) \in Nat
  BY <1>3 DEF Counted
<1>5. graph' = [graph EXCEPT !.node = "review", !.steps = Counted(graph.steps),
                             !.reply = reply, !.claims = claims]
  BY <1>2 DEF Composed
<1>6. "review" \in Nodes
  BY DEF Nodes, GraphNodes
<1>7. QED
  BY <1>1, <1>3, <1>4, <1>5, <1>6 DEF GraphRecord, Carried

LEMMA Judges ==
    ASSUME TypeOK, NEW decision \in Decisions, NEW reply \in Replies,
           NEW claims \in SUBSET Claims, Reviewed(decision, reply, claims)
    PROVE  /\ graph' \in GraphRecord /\ graph'.node = "message"
           /\ graph'.draft = graph.draft /\ graph'.missing = graph.missing
           /\ graph'.pending = graph.pending /\ graph'.stream = graph.stream
           /\ graph'.claims = claims
           /\ graph'.evidence = graph.evidence
<1>1. graph \in GraphRecord /\ 0 \in Nat /\ "message" \in Nodes
  BY DEF TypeOK, Nodes
<1>2. {} \in SUBSET {"KNOWLEDGE", "TOOL", "ANALYSIS", "INVESTIGATION", "RECOMMENDATION"}
  OBVIOUS
<1>3. graph' = [graph EXCEPT !.node = "message",
                  !.decision = decision, !.reply = reply, !.claims = claims,
                  !.setup = SomeSetup, !.steps = 0, !.calls = 0, !.found = {}]
  BY DEF Reviewed
<1>4. QED
  BY <1>1, <1>2, <1>3, Setup DEF GraphRecord

LEMMA Reviews ==
    ASSUME TypeOK, Review
    PROVE  /\ graph.node = "review" /\ UNCHANGED <<saved, turns, sent, events>>
           /\ graph' \in GraphRecord /\ graph'.node = "message"
           /\ graph'.draft = graph.draft /\ graph'.missing = graph.missing
           /\ graph'.pending = graph.pending /\ graph'.stream = graph.stream
<1>1. graph.node = "review" /\ UNCHANGED <<saved, turns, sent, events>>
  BY DEF Review, At
<1>2. graph.reply \in Replies /\ graph.claims \in SUBSET Claims
  BY DEF TypeOK, GraphRecord
<1>3. \E decision \in Decisions, reply \in Replies,
         claims \in SUBSET Claims :
        /\ Reviewed(decision, reply, claims)
  <2>1. \A issues : Decide(issues) \in Decisions
    BY DEF Decide, Decision, Decisions
  <2>2. "REVIEW_UNAVAILABLE" \in Decisions /\ "BLOCK" \in Decisions
        /\ "REFUSED" \in Replies /\ "REVISED" \in Replies
    BY DEF Decisions, Replies
  <2>3. CASE Reviewed(Decide(OwnIssues), graph.reply, graph.claims)
    BY <1>2, <2>1, <2>3
  <2>4. CASE Reviewed("REVIEW_UNAVAILABLE", graph.reply, graph.claims)
    BY <1>2, <2>2, <2>4
  <2>5. CASE ModelReview
    <3>1. PICK code \in IssueCodes \cup {"NONE"}, asks \in BOOLEAN, claim \in Claims \cup {"NONE"} :
            LET issues == ({code} \cap IssueCodes)
                    \cup IF graph.pending = NoDraft \/ asks THEN {}
                         ELSE {"HUMAN_CONFIRMATION_REQUIRED"}
                decision == Decide(issues)
                revised == {claim} \cap Claims
            IN IF decision # "BLOCK" THEN Reviewed(decision, graph.reply, graph.claims)
               ELSE \/ Reviewed("BLOCK", "REFUSED", {})
                    \/ /\ Trusted(revised, graph.evidence)
                       /\ Reviewed("BLOCK", "REVISED", revised)
      BY <2>5 DEF ModelReview
    <3>2. PICK issues : issues = ({code} \cap IssueCodes)
                    \cup IF graph.pending = NoDraft \/ asks THEN {}
                         ELSE {"HUMAN_CONFIRMATION_REQUIRED"}
      OBVIOUS
    <3>3. PICK revised \in SUBSET Claims : revised = {claim} \cap Claims
      OBVIOUS
    <3>4. \/ /\ Decide(issues) # "BLOCK"
             /\ Reviewed(Decide(issues), graph.reply, graph.claims)
          \/ Reviewed("BLOCK", "REFUSED", {})
          \/ Trusted(revised, graph.evidence) /\ Reviewed("BLOCK", "REVISED", revised)
      BY <3>1, <3>2, <3>3
    <3>5. {} \in SUBSET Claims
      OBVIOUS
    <3>6. QED
      BY <1>2, <2>1, <2>2, <3>4, <3>5
  <2>6. QED
    BY <2>3, <2>4, <2>5 DEF Review
<1>4. QED
  BY <1>1, <1>3, Judges

\* The turn is over.
LEMMA Ends ==
    ASSUME TypeOK, graph' = [Idle EXCEPT !.stream = graph.stream] \/ graph' = Idle
    PROVE  graph' \in GraphRecord /\ graph'.node = "end"
<1>1. graph.stream \in BOOLEAN
  BY DEF TypeOK, GraphRecord
<1>2. Idle.node = "end"
  BY DEF Idle
<1>3. QED
  BY <1>1, <1>2, IdleType DEF GraphRecord

LEMMA Persists ==
    ASSUME TypeOK, NEW node \in {"state", "snapshot"}, graph' = [graph EXCEPT !.node = node]
    PROVE  /\ graph' \in GraphRecord /\ graph'.node = node /\ Carried
           /\ graph'.claims = graph.claims /\ graph'.evidence = graph.evidence
<1>1. graph \in GraphRecord /\ node \in Nodes
  BY DEF TypeOK, Nodes
<1>2. QED
  BY <1>1 DEF GraphRecord, Carried

LEMMA StateType ==
    ASSUME TypeOK
    PROVE  /\ State \in Saved /\ saved \in Saved /\ State.pending = graph.pending
           /\ graph.draft # NoDraft => State.draft = graph.draft /\ State.missing = graph.missing
           /\ graph.draft = NoDraft => State.draft \in {NoDraft, saved.draft}
<1>1. /\ saved \in Saved /\ saved.draft \in Editions /\ saved.missing \in BOOLEAN
      /\ graph.draft \in Editions /\ graph.missing \in BOOLEAN /\ graph.pending \in Editions
      /\ graph.request \in BOOLEAN
  BY DEF TypeOK, Saved, GraphRecord
<1>2. QED
  BY <1>1 DEF State, Saved

-----------------------------------------------------------------------------
(***************************************************************************)
(* The draft, and what of it is pending.                                   *)
(***************************************************************************)
\* Until its work is done a turn has the draft that was stored when it began,
\* and until it stores its state it has lost no complete one.
DraftInv ==
    /\ PendingIsDraft
    /\ graph.node # "end" =>
        /\ turns # 0
        /\ graph.pending # NoDraft => graph.pending = graph.draft /\ ~ graph.missing
    /\ graph.node \in WorkNodes => graph.draft = saved.draft /\ graph.missing = saved.missing
    /\ graph.node \notin {"snapshot", "end"} /\ saved.draft # NoDraft /\ ~ saved.missing =>
        graph.draft # NoDraft

TurnInv == TypeOK /\ OnRoute /\ DraftInv

LEMMA EventTypes ==
    /\ \A event \in Events : <<event, "end">> \in Seq(Events)
    /\ <<"confirmation_required">> \in Seq(Events) /\ <<>> \in Seq(Events)
    /\ "delta" \in Events /\ "error" \in Events
    /\ "completed" \in Events /\ "end" \in Events
  BY DEF Events

LEMMA BeginTurn ==
    ASSUME TurnInv, Begin
    PROVE  TurnInv'
<1> USE DEF TurnInv
<1>1. /\ graph' \in GraphRecord /\ graph'.node = "route"
      /\ graph'.draft = saved.draft /\ graph'.missing = saved.missing
      /\ graph'.pending = saved.pending
      /\ turns' = turns + 1 /\ turns' \in 0..MaxTurns
      /\ sent' = <<>> /\ events' = <<>> /\ UNCHANGED saved
  BY Begins
<1>2. TypeOK'
  BY <1>1, EventTypes DEF TypeOK
<1>3. OnRoute'
  BY <1>1, NodeNames DEF OnRoute, WorkNodes
<1>4. turns' # 0
  BY <1>1 DEF TypeOK
<1>5. DraftInv'
  BY <1>1, <1>4 DEF DraftInv, PendingIsDraft
<1>6. QED
  BY <1>2, <1>3, <1>5

\* A node of the graph has done its part, without touching the draft.
LEMMA NodeTurn ==
    ASSUME TurnInv, graph.node \in GraphNodes, graph' \in GraphRecord,
           graph'.node \in GraphNodes,
           graph'.node \in WorkNodes => graph.node \in WorkNodes,
           OnRoute', Carried, UNCHANGED <<saved, turns>>,
           events' \in Seq(Events), sent' \in Seq(Events)
    PROVE  TurnInv'
<1> USE DEF TurnInv
<1>1. TypeOK'
  BY DEF TypeOK
<1>2. graph.node \notin {"snapshot", "end"} /\ graph'.node \notin {"snapshot", "end"}
  BY NodeNames
<1>3. DraftInv'
  BY <1>2 DEF DraftInv, PendingIsDraft, Carried
<1>4. QED
  BY <1>1, <1>3

LEMMA WorkTurn ==
    ASSUME TurnInv, Route \/ LookUp \/ SufficiencyCheck \/ Compose
    PROVE  TurnInv'
<1> USE DEF TurnInv
<1>1. events \in Seq(Events) /\ sent \in Seq(Events)
  BY DEF TypeOK
<1>2. CASE Route
  <2>1. graph.node = "route" /\ UNCHANGED <<saved, turns, sent, events>>
    BY <1>2 DEF Route, At
  <2>2. /\ graph' \in GraphRecord /\ graph'.node \in WorkNodes /\ graph'.route \in Routes
        /\ Carried
    BY <1>2, Routed
  <2>3. OnRoute' /\ graph.node \in WorkNodes
    BY <2>1, <2>2 DEF OnRoute, WorkNodes
  <2>4. QED
    BY <1>1, <2>1, <2>2, <2>3, NodeTurn, NodeNames
<1>3. CASE LookUp
  <2>1. /\ graph.node \in WorkNodes /\ graph' \in GraphRecord
        /\ graph'.node \in {"realtime_query", "sufficiency_check"}
        /\ graph'.route = graph.route /\ Carried /\ UNCHANGED <<saved, turns, sent, events>>
    BY <1>3, LooksUp
  <2>2. graph.node # "route"
    BY <1>3 DEF LookUp, Knowledge, RealtimeQuery, Analysis, RiskInvestigation,
       Recommendation, At
  <2>3. OnRoute' /\ graph'.node \in GraphNodes
    BY <2>1, <2>2, NodeNames DEF OnRoute, GraphNodes
  <2>4. QED
    BY <1>1, <2>1, <2>3, NodeTurn, NodeNames
<1>4. CASE SufficiencyCheck
  <2>1. /\ graph.node = "sufficiency_check" /\ graph' \in GraphRecord
        /\ graph'.node = "compose" /\ Carried /\ UNCHANGED <<saved, turns, sent, events>>
    BY <1>4, ChecksSufficiency
  <2>2. OnRoute' /\ graph'.node \notin WorkNodes
    BY <2>1 DEF OnRoute, WorkNodes
  <2>3. QED
    BY <1>1, <2>1, <2>2, NodeTurn, NodeNames
<1>5. CASE Compose
  <2>1. /\ graph.node = "compose" /\ graph' \in GraphRecord /\ graph'.node = "review"
        /\ Carried /\ UNCHANGED <<saved, turns, sent>> /\ Queued("delta")
    BY <1>5, Composes
  <2>2. OnRoute' /\ graph'.node \notin WorkNodes
    BY <2>1 DEF OnRoute, WorkNodes
  <2>3. events' \in Seq(Events)
    BY <1>1, <2>1, EventTypes DEF Queued
  <2>4. QED
    BY <1>1, <2>1, <2>2, <2>3, NodeTurn, NodeNames
<1>6. QED
  BY <1>2, <1>3, <1>4, <1>5

LEMMA FormTurn ==
    ASSUME TurnInv, FormPrefill
    PROVE  TurnInv'
<1> USE DEF TurnInv
<1>1. /\ graph.node = "form_prefill" /\ UNCHANGED <<saved, turns, sent, events>>
      /\ \/ /\ graph' \in GraphRecord /\ graph'.node = "sufficiency_check"
            /\ graph'.route = graph.route /\ Carried
         \/ \E draft \in Editions, missing \in BOOLEAN :
             /\ graph' = Drafted(draft, missing)
             /\ \/ draft = turns
                \/ draft = graph.draft /\ missing = graph.missing
                \/ draft = NoDraft /\ missing /\ (graph.draft = NoDraft \/ graph.missing)
  BY PrefillsForm
<1>2. graph.node \in WorkNodes /\ graph.route \in Routes
  BY <1>1 DEF OnRoute, WorkNodes
<1>3. CASE /\ graph' \in GraphRecord /\ graph'.node = "sufficiency_check"
           /\ graph'.route = graph.route /\ Carried
  <2>1. OnRoute' /\ graph'.node \in GraphNodes /\ graph.node \in GraphNodes
    BY <1>2, <1>3, NodeNames DEF OnRoute, GraphNodes
  <2>2. events' \in Seq(Events) /\ sent' \in Seq(Events)
    BY <1>1 DEF TypeOK
  <2>3. QED
    BY <1>1, <1>2, <1>3, <2>1, <2>2, NodeTurn
<1>4. CASE \E draft \in Editions, missing \in BOOLEAN :
             /\ graph' = Drafted(draft, missing)
             /\ \/ draft = turns
                \/ draft = graph.draft /\ missing = graph.missing
                \/ draft = NoDraft /\ missing /\ (graph.draft = NoDraft \/ graph.missing)
  <2>1. PICK draft \in Editions, missing \in BOOLEAN :
             /\ graph' = Drafted(draft, missing)
             /\ \/ draft = turns
                \/ draft = graph.draft /\ missing = graph.missing
                \/ draft = NoDraft /\ missing /\ (graph.draft = NoDraft \/ graph.missing)
    BY <1>4
  <2>2. /\ graph' \in GraphRecord /\ graph'.node = "sufficiency_check"
        /\ graph'.route = graph.route
        /\ graph'.stream = graph.stream
        /\ graph'.draft = draft /\ graph'.missing = missing
        /\ graph'.pending = IF missing THEN NoDraft ELSE draft
    BY <2>1, Drafts
  <2>3. TypeOK' /\ OnRoute'
    BY <1>1, <1>2, <2>2 DEF TypeOK, OnRoute
  <2>4. /\ graph.draft = saved.draft /\ graph.missing = saved.missing /\ turns # 0
        /\ PendingIsDraft
    BY <1>1, <1>2 DEF DraftInv
  <2>5. turns # NoDraft
    BY <2>4 DEF NoDraft
  <2>6. saved.draft # NoDraft /\ ~ saved.missing => draft # NoDraft
    BY <2>1, <2>4, <2>5
  <2>7. graph'.pending # NoDraft => graph'.pending = graph'.draft /\ ~ graph'.missing
    BY <2>2
  <2>8. DraftInv'
    BY <1>1, <2>2, <2>4, <2>6, <2>7 DEF DraftInv, PendingIsDraft, WorkNodes
  <2>9. QED
    BY <2>3, <2>8
<1>5. QED
  BY <1>1, <1>3, <1>4

LEMMA ReviewTurn ==
    ASSUME TurnInv, Review
    PROVE  TurnInv'
<1> USE DEF TurnInv
<1>1. /\ graph.node = "review" /\ UNCHANGED <<saved, turns, sent, events>>
      /\ graph' \in GraphRecord /\ graph'.node = "message"
      /\ graph'.draft = graph.draft /\ graph'.missing = graph.missing
      /\ graph'.pending = graph.pending /\ graph'.stream = graph.stream
  BY Reviews
<1>2. TypeOK'
  BY <1>1 DEF TypeOK
<1>3. OnRoute'
  BY <1>1, NodeNames DEF OnRoute, WorkNodes
<1>4. DraftInv'
  BY <1>1 DEF DraftInv, PendingIsDraft, WorkNodes
<1>5. QED
  BY <1>2, <1>3, <1>4

LEMMA PersistTurn ==
    ASSUME TurnInv, PersistMessage \/ PersistState
    PROVE  TurnInv'
<1> USE DEF TurnInv
<1>1. PICK node \in {"state", "snapshot"} :
        /\ graph' = [graph EXCEPT !.node = node] /\ UNCHANGED <<turns, sent, events>>
        /\ \/ graph.node = "message" /\ node = "state" /\ UNCHANGED saved
           \/ graph.node = "state" /\ node = "snapshot" /\ saved' = State
  BY DEF PersistMessage, PersistState, At
<1>2. /\ graph' \in GraphRecord /\ graph'.node = node /\ Carried
      /\ graph'.claims = graph.claims /\ graph'.evidence = graph.evidence
  BY <1>1, Persists
<1>3. /\ State \in Saved /\ saved \in Saved /\ State.pending = graph.pending
      /\ graph.draft # NoDraft => State.draft = graph.draft /\ State.missing = graph.missing
  BY StateType
<1>4. TypeOK'
  BY <1>1, <1>2, <1>3 DEF TypeOK
<1>5. OnRoute'
  BY <1>1, <1>2, NodeNames DEF OnRoute, WorkNodes, Carried
<1>6. graph.node # "end"
  BY <1>1
<1>7. PendingIsDraft'
  BY <1>1, <1>3, <1>6 DEF DraftInv, PendingIsDraft
<1>8. DraftInv'
  BY <1>1, <1>2, <1>6, <1>7 DEF DraftInv, WorkNodes, Carried
<1>9. QED
  BY <1>4, <1>5, <1>8

\* The turn ends, its state stored or not.
LEMMA EndTurn ==
    ASSUME TurnInv, graph' = [Idle EXCEPT !.stream = graph.stream] \/ graph' = Idle,
           UNCHANGED turns,
           UNCHANGED saved \/ (graph.node = "state" /\ saved' = State),
           events' \in Seq(Events), sent' \in Seq(Events)
    PROVE  TurnInv'
<1> USE DEF TurnInv
<1>1. graph' \in GraphRecord /\ graph'.node = "end"
  BY Ends
<1>2. /\ State \in Saved /\ saved \in Saved /\ State.pending = graph.pending
      /\ graph.draft # NoDraft => State.draft = graph.draft /\ State.missing = graph.missing
  BY StateType
<1>3. TypeOK'
  BY <1>1, <1>2 DEF TypeOK
<1>4. OnRoute'
  BY <1>1, NodeNames DEF OnRoute, WorkNodes
<1>5. PendingIsDraft'
  <2>1. CASE UNCHANGED saved
    BY <2>1 DEF DraftInv, PendingIsDraft
  <2>2. CASE graph.node = "state" /\ saved' = State
    <3>1. graph.node # "end"
      BY <2>2
    <3>2. QED
      BY <1>2, <2>2, <3>1 DEF DraftInv, PendingIsDraft
  <2>3. QED
    BY <2>1, <2>2
<1>6. DraftInv'
  BY <1>1, <1>5 DEF DraftInv, WorkNodes
<1>7. QED
  BY <1>3, <1>4, <1>6

LEMMA StopTurn ==
    ASSUME TurnInv, PersistSnapshot \/ PersistFails \/ GraphFails \/ ClientLeaves
    PROVE  TurnInv'
<1>1. events \in Seq(Events) /\ sent \in Seq(Events)
  BY DEF TurnInv, TypeOK
<1>2. events' \in Seq(Events) /\ sent' \in Seq(Events)
  <2>1. ASSUME NEW event \in Events, Ended(event) PROVE events' \in Seq(Events)
    BY <1>1, <2>1, EventTypes DEF Ended
  <2>2. CASE PersistSnapshot
    <3>1. events' = events \/ \E x \in {<<>>, <<"confirmation_required">>} :
                                events' = events \o x \o <<"completed", "end">>
      BY <2>2 DEF PersistSnapshot
    <3>2. QED
      BY <1>1, <2>2, <3>1, EventTypes DEF PersistSnapshot, At
  <2>3. CASE PersistFails \/ GraphFails
    BY <1>1, <2>1, <2>3, EventTypes DEF PersistFails, GraphFails
  <2>4. CASE ClientLeaves
    BY <2>4, EventTypes DEF ClientLeaves
  <2>5. QED
    BY <2>2, <2>3, <2>4
<1>3. UNCHANGED turns /\ (UNCHANGED saved \/ (graph.node = "state" /\ saved' = State))
  BY DEF PersistSnapshot, PersistFails, GraphFails, ClientLeaves, At
<1>4. graph' = [Idle EXCEPT !.stream = graph.stream] \/ graph' = Idle
  BY DEF PersistSnapshot, PersistFails, GraphFails, ClientLeaves, Ended
<1>5. QED
  BY <1>2, <1>3, <1>4, EndTurn

LEMMA DecideTurn ==
    ASSUME TurnInv, Decided
    PROVE  TurnInv'
<1> USE DEF TurnInv
<1>1. graph.node = "end" /\ UNCHANGED <<turns, graph, events, sent>>
  BY DEF Decided, TurnOver
<1>2. NoDraft \in Editions
  BY ConversationAssumption DEF Editions, NoDraft
<1>3. saved' \in Saved /\ saved'.pending = NoDraft
  BY <1>2 DEF Decided, TypeOK, Saved
<1>4. TypeOK' /\ OnRoute'
  BY <1>1, <1>3 DEF TypeOK, OnRoute
<1>5. DraftInv'
  BY <1>1, <1>3 DEF DraftInv, PendingIsDraft, WorkNodes
<1>6. QED
  BY <1>4, <1>5

LEMMA SendTurn ==
    ASSUME TurnInv, Send
    PROVE  TurnInv'
<1> USE DEF TurnInv
<1>1. events \in Seq(Events) /\ sent \in Seq(Events) /\ events # <<>>
      /\ UNCHANGED <<saved, turns, graph>>
  BY DEF TypeOK, Send
<1>2. Head(events) \in Events /\ Tail(events) \in Seq(Events)
  BY <1>1, HeadTailProperties
<1>3. events' \in Seq(Events) /\ sent' \in Seq(Events)
  BY <1>1, <1>2 DEF Send
<1>4. QED
  BY <1>1, <1>3 DEF TypeOK, OnRoute, DraftInv, PendingIsDraft

LEMMA TurnsHold == Spec => []TurnInv
<1>1. Init => TurnInv
  <2> SUFFICES ASSUME Init PROVE TurnInv
    OBVIOUS
  <2>1. graph = Idle /\ Idle.node = "end"
    BY DEF Init, Idle
  <2>2. saved \in Saved /\ saved.pending = NoDraft
    BY ConversationAssumption DEF Init, Saved, NoDraft, Editions
  <2>3. turns \in 0..MaxTurns
    BY ConversationAssumption DEF Init
  <2>4. TypeOK
    BY <2>1, <2>2, <2>3, IdleType, EventTypes DEF Init, TypeOK
  <2>5. OnRoute /\ DraftInv
    BY <2>1, <2>2, NodeNames DEF OnRoute, DraftInv, PendingIsDraft, WorkNodes
  <2>6. QED
    BY <2>4, <2>5 DEF TurnInv
<1>2. TurnInv /\ [Next]_vars => TurnInv'
  <2> SUFFICES ASSUME TurnInv, [Next]_vars PROVE TurnInv'
    OBVIOUS
  <2>1. CASE UNCHANGED vars
    BY <2>1 DEF vars, TurnInv, TypeOK, OnRoute, DraftInv, PendingIsDraft
  <2>2. CASE Step
    BY <2>2, WorkTurn, FormTurn, ReviewTurn, PersistTurn, StopTurn DEF Step, LookUp
  <2>3. CASE Begin \/ Send \/ ClientLeaves \/ Decided
    BY <2>3, BeginTurn, SendTurn, StopTurn, DecideTurn
  <2>4. QED
    BY <2>1, <2>2, <2>3 DEF Next
<1>3. QED
  BY <1>1, <1>2, PTL DEF Spec

\* What waits for the user's confirmation is the draft the conversation shows,
\* and complete.
THEOREM PendingIsWhatIsShown == Spec => []PendingIsDraft
<1>1. TurnInv => PendingIsDraft
  BY DEF TurnInv, DraftInv
<1>2. QED
  BY <1>1, TurnsHold, PTL

\* A complete draft disappears by being executed and by nothing else.
THEOREM CompleteDraftsStay == Spec => CompleteDraftKept
<1>1. TurnInv /\ [Next]_vars =>
        [saved.draft # NoDraft /\ ~saved.missing /\ saved'.draft = NoDraft
            => saved.pending = saved.draft /\ graph.node = "end"]_vars
  <2> SUFFICES ASSUME TurnInv, Next, saved.draft # NoDraft, ~ saved.missing,
                      saved'.draft = NoDraft
               PROVE  saved.pending = saved.draft /\ graph.node = "end"
    OBVIOUS
  <2> USE DEF TurnInv
  <2>1. saved' # saved
    OBVIOUS
  <2>2. ~ (graph.node = "state" /\ saved' = State)
    <3>1. graph.node = "state" => graph.draft # NoDraft
      BY DEF DraftInv
    <3>2. graph.draft # NoDraft => State.draft = graph.draft
      BY StateType
    <3>3. QED
      BY <3>1, <3>2
  <2>3. CASE Step
    <3>1. ~ (Route \/ Knowledge \/ RealtimeQuery \/ Analysis \/ RiskInvestigation
             \/ Recommendation \/ FormPrefill \/ SufficiencyCheck \/ Compose \/ Review
             \/ PersistMessage \/ PersistSnapshot)
      BY <2>1 DEF Route, Knowledge, RealtimeQuery, Analysis, RiskInvestigation,
         Recommendation, FormPrefill, SufficiencyCheck, Compose, Review, PersistMessage,
         PersistSnapshot, At
    <3>2. PersistState \/ PersistFails \/ GraphFails
      BY <2>3, <3>1 DEF Step
    <3>3. QED
      BY <2>1, <2>2, <3>2 DEF PersistState, PersistFails, GraphFails
  <2>4. CASE Begin \/ Send \/ ClientLeaves
    BY <2>1, <2>2, <2>4 DEF Begin, Send, ClientLeaves
  <2>5. CASE Decided
    BY <2>5 DEF Decided, TurnOver, DraftInv, PendingIsDraft
  <2>6. QED
    BY <2>3, <2>4, <2>5 DEF Next
<1>2. QED
  BY <1>1, TurnsHold, PTL DEF Spec, CompleteDraftKept

-----------------------------------------------------------------------------
(***************************************************************************)
(* The turn's events, sent and still queued.                               *)
(***************************************************************************)
\* One text comes first, if any; a completed turn has one; behind a terminal
\* event there is only the mark at which the generator stops.
Shaped(q) ==
    /\ q \in Seq(Events)
    /\ \A i \in 1..Len(q) :
        /\ q[i] = "delta" => i = 1
        /\ q[i] = "completed" => q[1] = "delta"
        /\ q[i] = "end" => i = Len(q)
    /\ \A i, j \in 1..Len(q) : i < j /\ IsTerminal(q[i]) => q[j] = "end"

Early == WorkNodes \cup {"sufficiency_check", "compose"}
Late == {"review", "message", "state", "snapshot"}

Quiet == sent = <<>> /\ events = <<>>

\* The answer's text is there, sent or to be sent, and nothing else is.
Answered == Len(sent \o events) = 1 /\ (sent \o events)[1] = "delta"

StreamInv ==
    /\ Shaped(sent \o events)
    /\ \A i \in 1..Len(sent) : sent[i] # "end"
    /\ graph.node \in Early => Quiet
    /\ graph.node \in Late => IF graph.stream THEN Answered ELSE Quiet

LEMMA Partition ==
    /\ Early \cap Late = {} /\ "end" \notin Early /\ "end" \notin Late
    /\ Nodes = Early \cup Late \cup {"end"} /\ GraphNodes = Early \cup {"review"}
  BY DEF Early, Late, Nodes, GraphNodes, WorkNodes

LEMMA NothingSent ==
    /\ Shaped(<<>> \o <<>>)
    /\ \A i \in 1..Len(<<>>) : <<>>[i] # "end"
<1>1. <<>> \o <<>> = <<>> /\ <<>> \in Seq(Events) /\ Len(<<>>) = 0 /\ 1..0 = {}
  BY EventTypes, ConcatEmptySeq
<1>2. QED
  BY <1>1 DEF Shaped

\* Sending moves an event from one queue to the other.
LEMMA SendMoves ==
    ASSUME NEW s \in Seq(Events), NEW e \in Seq(Events), e # <<>>
    PROVE  Append(s, Head(e)) \o Tail(e) = s \o e
<1>1. /\ Head(e) \in Events /\ Tail(e) \in Seq(Events) /\ Len(Tail(e)) = Len(e) - 1
      /\ \A i \in 1..Len(Tail(e)) : Tail(e)[i] = e[i + 1]
      /\ Head(e) = e[1] /\ Len(e) \in Nat /\ Len(e) > 0
  BY HeadTailProperties, EmptySeq
<1> PICK h \in Events : h = Head(e)
  BY <1>1
<1> PICK t \in Seq(Events) : t = Tail(e)
  BY <1>1
<1>2. /\ Append(s, h) \in Seq(Events) /\ Len(Append(s, h)) = Len(s) + 1 /\ Len(s) \in Nat
      /\ Append(s, h)[Len(s) + 1] = h
      /\ \A i \in 1..Len(s) : Append(s, h)[i] = s[i]
  OBVIOUS
<1> PICK a \in Seq(Events) : a = Append(s, h)
  BY <1>2
<1>3. /\ a \o t \in Seq(Events) /\ Len(a \o t) = Len(a) + Len(t)
      /\ \A i \in 1..Len(a) + Len(t) :
            (a \o t)[i] = IF i <= Len(a) THEN a[i] ELSE t[i - Len(a)]
  BY ConcatProperties
<1>4. /\ s \o e \in Seq(Events) /\ Len(s \o e) = Len(s) + Len(e)
      /\ \A i \in 1..Len(s) + Len(e) :
            (s \o e)[i] = IF i <= Len(s) THEN s[i] ELSE e[i - Len(s)]
  BY ConcatProperties
<1>5. Len(a \o t) = Len(s \o e)
  BY <1>1, <1>2, <1>3, <1>4
<1>6. ASSUME NEW i \in 1..Len(a \o t) PROVE (a \o t)[i] = (s \o e)[i]
  <2>1. i \in 1..Len(a) + Len(t) /\ i \in 1..Len(s) + Len(e) /\ i \in Nat
    BY <1>3, <1>4, <1>5, <1>6
  <2>2. CASE i <= Len(s)
    BY <1>1, <1>2, <1>3, <1>4, <2>1, <2>2
  <2>3. CASE i = Len(s) + 1
    BY <1>1, <1>2, <1>3, <1>4, <2>1, <2>3
  <2>4. CASE i > Len(s) + 1
    <3>0. i - Len(a) \in 1..Len(t)
      <4>1. Len(t) = Len(e) - 1 /\ Len(e) \in Nat /\ Len(a) = Len(s) + 1 /\ Len(s) \in Nat
        BY <1>1, <1>2
      <4>2. i \in Nat /\ i <= Len(s) + Len(e)
        BY <4>1, <2>1
      <4>3. QED
        BY <4>1, <4>2, <2>4
    <3> PICK k \in 1..Len(t) : k = i - Len(a)
      BY <3>0
    <3>1. t[k] = e[k + 1] /\ k + 1 = i - Len(s)
      BY <1>1, <1>2
    <3>2. (a \o t)[i] = t[k]
      BY <1>2, <1>3, <2>1, <2>4
    <3>3. (s \o e)[i] = e[k + 1]
      BY <1>2, <1>4, <2>1, <2>4, <3>1
    <3>4. QED
      BY <3>1, <3>2, <3>3
  <2>5. QED
    BY <1>2, <2>1, <2>2, <2>3, <2>4
<1>7. a \o t = s \o e
  BY <1>3, <1>4, <1>5, <1>6, SeqEqual
<1>8. QED
  BY <1>7

\* The last events of a turn follow its text, or nothing.
LEMMA Closes ==
    ASSUME NEW q \in Seq(Events),
           \/ Len(q) = 0
           \/ Len(q) = 1 /\ q[1] = "delta",
           NEW x \in Seq(Events),
           \/ Len(x) = 2 /\ x[1] = "error" /\ x[2] = "end"
           \/ Len(q) = 1 /\ Len(x) = 2 /\ x[1] = "completed" /\ x[2] = "end"
           \/ /\ Len(q) = 1 /\ Len(x) = 3
              /\ x[1] = "confirmation_required" /\ x[2] = "completed" /\ x[3] = "end"
    PROVE  Shaped(q \o x)
<1>1. /\ q \o x \in Seq(Events) /\ Len(q \o x) = Len(q) + Len(x)
      /\ \A i \in 1..Len(q) + Len(x) :
            (q \o x)[i] = IF i <= Len(q) THEN q[i] ELSE x[i - Len(q)]
  BY ConcatProperties
<1> PICK y \in Seq(Events) : y = q \o x
  BY <1>1
<1>2. CASE Len(q) = 0
  <2>1. Len(y) = 2 /\ y[1] = "error" /\ y[2] = "end"
    BY <1>1, <1>2
  <2>2. 1..Len(y) = {1, 2}
    BY <2>1
  <2>3. Shaped(y)
    BY <2>1, <2>2 DEF Shaped, IsTerminal
  <2>4. QED
    BY <2>3
<1>3. CASE Len(q) = 1 /\ Len(x) = 2
  <2>1. Len(y) = 3 /\ y[1] = "delta" /\ y[2] \in {"error", "completed"} /\ y[3] = "end"
    BY <1>1, <1>3
  <2>2. 1..Len(y) = {1, 2, 3}
    BY <2>1
  <2>3. Shaped(y)
    BY <2>1, <2>2 DEF Shaped, IsTerminal
  <2>4. QED
    BY <2>3
<1>4. CASE Len(q) = 1 /\ Len(x) = 3
  <2>1. /\ Len(y) = 4 /\ y[1] = "delta" /\ y[2] = "confirmation_required"
        /\ y[3] = "completed" /\ y[4] = "end"
    BY <1>1, <1>4
  <2>2. 1..Len(y) = {1, 2, 3, 4}
    BY <2>1
  <2>3. Shaped(y)
    BY <2>1, <2>2 DEF Shaped, IsTerminal
  <2>4. QED
    BY <2>3
<1>5. QED
  BY <1>2, <1>3, <1>4

\* The turn is over for the graph, and what is queued was not touched.
LEMMA QuietEnd ==
    ASSUME StreamInv, UNCHANGED <<sent, events>>, graph'.node = "end"
    PROVE  StreamInv'
  BY Partition DEF StreamInv

LEMMA SilentEnd ==
    ASSUME sent' = <<>>, events' = <<>>, graph'.node \in Early \cup {"end"}
    PROVE  StreamInv'
  BY NothingSent, Partition DEF StreamInv, Quiet

\* A node that streams nothing
LEMMA QuietNode ==
    ASSUME StreamInv, UNCHANGED <<sent, events>>, graph'.stream = graph.stream,
           \/ graph.node \in Early /\ graph'.node \in Early
           \/ graph.node \in Late /\ graph'.node \in Late
    PROVE  StreamInv'
  BY Partition DEF StreamInv, Quiet, Answered

LEMMA ComposeStreams ==
    ASSUME TurnInv, StreamInv, Compose
    PROVE  StreamInv'
<1>1. /\ graph.node = "compose" /\ graph'.node = "review" /\ graph'.stream = graph.stream
      /\ UNCHANGED sent /\ Queued("delta")
  BY Composes DEF TurnInv, Carried
<1>2. sent = <<>> /\ events = <<>>
  BY <1>1 DEF StreamInv, Quiet, Early
<1>3. graph'.node \in Late /\ graph'.node \notin Early
  BY <1>1, Partition DEF Late
<1>4. CASE graph.stream
  <2>1. sent' = <<>> /\ events' = <<"delta">>
    BY <1>1, <1>2, <1>4 DEF Queued
  <2>2. <<"delta">> \in Seq(Events) /\ Len(<<"delta">>) = 1 /\ <<"delta">>[1] = "delta"
    BY EventTypes
  <2>3. <<>> \o <<"delta">> = <<"delta">>
    BY <2>2, ConcatEmptySeq
  <2>4. Shaped(<<"delta">>)
    <3>1. 1..1 = {1} /\ Len(<<"delta">>) = 1
      OBVIOUS
    <3>2. QED
      BY <2>2, <3>1 DEF Shaped, IsTerminal
  <2>5. \A i \in 1..Len(<<>>) : <<>>[i] # "end"
    BY NothingSent
  <2>6. QED
    BY <1>1, <1>3, <1>4, <2>1, <2>2, <2>3, <2>4, <2>5 DEF StreamInv, Answered
<1>5. CASE ~ graph.stream
  <2>1. sent' = <<>> /\ events' = <<>>
    BY <1>1, <1>2, <1>5 DEF Queued
  <2>2. QED
    BY <1>1, <1>3, <1>5, <2>1, NothingSent DEF StreamInv, Quiet
<1>6. QED
  BY <1>4, <1>5

\* Sequences of events are put together in any grouping.
LEMMA Regrouped ==
    ASSUME NEW a \in Seq(Events), NEW b \in Seq(Events), NEW c \in Seq(Events)
    PROVE  a \o (b \o c) = (a \o b) \o c
BY ConcatAssociative

\* A turn ends with an error wherever it is, with an answer behind its text.
LEMMA ClosesStream ==
    ASSUME TurnInv, StreamInv, graph.node # "end", graph'.node = "end", UNCHANGED sent,
           NEW x \in Seq(Events), events' = IF graph.stream THEN events \o x ELSE events,
           \/ Len(x) = 2 /\ x[1] = "error" /\ x[2] = "end"
           \/ graph.node \in Late /\ Len(x) = 2 /\ x[1] = "completed" /\ x[2] = "end"
           \/ /\ graph.node \in Late /\ Len(x) = 3
              /\ x[1] = "confirmation_required" /\ x[2] = "completed" /\ x[3] = "end"
    PROVE  StreamInv'
<1>1. graph.node \in Early \/ graph.node \in Late
  BY Partition DEF TurnInv, TypeOK, GraphRecord
<1>2. sent \in Seq(Events) /\ events \in Seq(Events)
  BY DEF TurnInv, TypeOK
<1>3. CASE graph.stream
  <2>1. sent' \o events' = (sent \o events) \o x
    <3>1. sent' = sent /\ events' = events \o x
      BY <1>3
    <3>2. sent \o (events \o x) = (sent \o events) \o x
      BY <1>2, Regrouped, Zenon
    <3>3. QED
      BY <3>1, <3>2, Zenon
  <2>2. sent \o events \in Seq(Events)
    BY <1>2, ConcatProperties
  <2>3. graph.node \in Early => Len(sent \o events) = 0
    <3>1. <<>> \o <<>> = <<>> /\ Len(<<>>) = 0
      BY EventTypes, ConcatEmptySeq
    <3>2. QED
      BY <3>1 DEF StreamInv, Quiet
  <2>4. graph.node \in Late => Len(sent \o events) = 1 /\ (sent \o events)[1] = "delta"
    BY <1>3 DEF StreamInv, Answered
  <2>5. Shaped((sent \o events) \o x)
    BY <1>1, <2>2, <2>3, <2>4, Closes
  <2>6. QED
    BY <2>1, <2>5, Partition DEF StreamInv
<1>4. CASE ~ graph.stream
  BY <1>4, QuietEnd
<1>5. QED
  BY <1>3, <1>4

LEMMA SendStreams ==
    ASSUME TurnInv, StreamInv, Send
    PROVE  StreamInv'
<1>1. /\ events # <<>> /\ events' = Tail(events) /\ UNCHANGED graph
      /\ sent' = IF Head(events) = "end" THEN sent ELSE Append(sent, Head(events))
      /\ sent \in Seq(Events) /\ events \in Seq(Events)
  BY DEF Send, TurnInv, TypeOK
<1>2. /\ Head(events) = events[1] /\ Len(events) \in Nat /\ Len(events) > 0
      /\ Head(events) \in Events /\ Len(sent) \in Nat
  BY <1>1, HeadTailProperties, EmptySeq
<1>3. ~ Quiet
  BY <1>1 DEF Quiet
<1>4. /\ sent \o events \in Seq(Events) /\ Len(sent \o events) = Len(sent) + Len(events)
      /\ \A i \in 1..Len(sent) + Len(events) :
            (sent \o events)[i] = IF i <= Len(sent) THEN sent[i] ELSE events[i - Len(sent)]
  BY <1>1, ConcatProperties
<1>5. CASE Head(events) # "end"
  <2>1. sent' \o events' = sent \o events
    BY <1>1, <1>5, SendMoves
  <2>2. \A i \in 1..Len(sent') : sent'[i] # "end"
    <3>1. sent' = Append(sent, Head(events))
      BY <1>1, <1>5
    <3>2. /\ Len(sent') = Len(sent) + 1 /\ sent'[Len(sent) + 1] = Head(events)
          /\ \A i \in 1..Len(sent) : sent'[i] = sent[i]
      BY <1>1, <1>2, <3>1
    <3>3. \A i \in 1..Len(sent') : i \in 1..Len(sent) \/ i = Len(sent) + 1
      BY <1>2, <3>2
    <3>4. QED
      BY <1>5, <3>2, <3>3 DEF StreamInv
  <2>3. QED
    BY <1>1, <1>3, <2>1, <2>2 DEF StreamInv, Answered
<1>6. CASE Head(events) = "end"
  <2>1. (sent \o events)[Len(sent) + 1] = "end" /\ Len(sent) + 1 \in 1..Len(sent \o events)
    BY <1>2, <1>4, <1>6
  <2>2. Len(events) = 1
    <3>1. Len(sent) + 1 = Len(sent \o events)
      BY <2>1 DEF StreamInv, Shaped
    <3>2. QED
      <4> PICK n \in Nat, m \in Nat : n = Len(sent) /\ m = Len(events)
        BY <1>2
      <4>1. n + 1 = n + m
        BY <1>4, <3>1
      <4>2. QED
        BY <4>1
  <2>3. graph.node \notin Late
    <3>1. Answered => (sent \o events)[1] = "delta" /\ Len(sent) + 1 = 1
      BY <1>2, <1>4, <2>2 DEF Answered
    <3>2. ~ Answered
      BY <2>1, <3>1
    <3>3. QED
      BY <1>3, <3>2 DEF StreamInv
  <2>4. events' = <<>> /\ sent' = sent
    <3>1. Tail(events) \in Seq(Events) /\ Len(Tail(events)) = 0
      BY <1>1, <2>2, HeadTailProperties
    <3>2. QED
      BY <1>1, <1>6, <3>1, EmptySeq
  <2>5. sent' \o events' = sent
    BY <1>1, <2>4, ConcatEmptySeq
  <2>6. Shaped(sent)
    <3>1. \A i \in 1..Len(sent) : /\ i \in 1..Len(sent \o events)
                                  /\ (sent \o events)[i] = sent[i] /\ sent[i] # "end"
      BY <1>2, <1>4 DEF StreamInv
    <3>2. \A i \in 1..Len(sent) : (sent \o events)[1] = sent[1]
      BY <1>2, <3>1
    <3>3. QED
      BY <1>1, <3>1, <3>2 DEF StreamInv, Shaped
  <2>7. QED
    BY <1>1, <1>3, <2>3, <2>4, <2>5, <2>6 DEF StreamInv
<1>7. QED
  BY <1>5, <1>6

LEMMA WorkStreams ==
    ASSUME TurnInv, StreamInv,
           Route \/ LookUp \/ FormPrefill \/ SufficiencyCheck \/ Review \/ PersistMessage
           \/ PersistState
    PROVE  StreamInv'
<1> USE DEF TurnInv
<1>1. WorkNodes \subseteq Early /\ {"sufficiency_check", "compose"} \subseteq Early
      /\ "realtime_query" \in Early
  BY DEF Early, WorkNodes
<1>2. CASE Route
  BY <1>1, <1>2, Routed, QuietNode DEF Route, At, Carried, WorkNodes
<1>3. CASE LookUp
  BY <1>1, <1>3, LooksUp, QuietNode DEF Carried
<1>4. CASE FormPrefill
  <2>1. graph.node = "form_prefill" /\ UNCHANGED <<sent, events>>
    BY <1>4, PrefillsForm
  <2>2. graph'.node = "sufficiency_check" /\ graph'.stream = graph.stream
    BY <1>4, PrefillsForm, Drafts DEF Carried
  <2>3. QED
    BY <1>1, <2>1, <2>2, QuietNode DEF WorkNodes
<1>5. CASE SufficiencyCheck
  BY <1>1, <1>5, ChecksSufficiency, QuietNode DEF Carried
<1>6. CASE Review
  BY <1>6, Reviews, QuietNode DEF Late
<1>7. CASE PersistMessage
  BY <1>7, Persists, QuietNode DEF PersistMessage, At, Late, Carried
<1>8. CASE PersistState
  BY <1>8, Persists, QuietNode DEF PersistState, Late, Carried
<1>9. QED
  BY <1>2, <1>3, <1>4, <1>5, <1>6, <1>7, <1>8

LEMMA EndStreams ==
    ASSUME TurnInv, StreamInv, PersistSnapshot \/ PersistFails \/ GraphFails
    PROVE  StreamInv'
<1>1. ASSUME graph.node # "end", Ended("error"), UNCHANGED sent PROVE StreamInv'
  <2>1. graph'.node = "end"
    BY <1>1, Ends DEF Ended, TurnInv
  <2>2. /\ <<"error", "end">> \in Seq(Events) /\ Len(<<"error", "end">>) = 2
        /\ <<"error", "end">>[1] = "error" /\ <<"error", "end">>[2] = "end"
    BY EventTypes
  <2>3. events' = IF graph.stream THEN events \o <<"error", "end">> ELSE events
    BY <1>1 DEF Ended
  <2>4. QED
    BY <1>1, <2>1, <2>2, <2>3, ClosesStream
<1>2. CASE PersistFails \/ GraphFails
  <2>1. graph.node # "end" /\ Ended("error") /\ UNCHANGED sent
    BY <1>2, NodeNames DEF PersistFails, GraphFails
  <2>2. QED
    BY <1>1, <2>1
<1>3. CASE PersistSnapshot
  <2>1. graph.node = "snapshot" /\ UNCHANGED sent /\ graph'.node = "end"
    BY <1>3, Ends DEF PersistSnapshot, At, TurnInv
  <2>2. events \in Seq(Events)
    BY DEF TurnInv, TypeOK
  <2>3. CASE graph.pending = NoDraft
    <3> PICK x : x = <<"completed", "end">>
      OBVIOUS
    <3>1. x \in Seq(Events) /\ Len(x) = 2 /\ x[1] = "completed" /\ x[2] = "end"
      BY EventTypes
    <3>2. events' = IF graph.stream THEN events \o x ELSE events
      BY <1>3, <2>2, <2>3, ConcatEmptySeq DEF PersistSnapshot
    <3>3. QED
      BY <2>1, <3>1, <3>2, ClosesStream DEF Late
  <2>4. CASE graph.pending # NoDraft
    <3> PICK x : x = <<"confirmation_required", "completed", "end">>
      OBVIOUS
    <3>1. /\ x \in Seq(Events) /\ Len(x) = 3
          /\ x[1] = "confirmation_required" /\ x[2] = "completed" /\ x[3] = "end"
      BY EventTypes DEF Events
    <3>2. <<"confirmation_required">> \o <<"completed", "end">> = x
      <4> PICK u : u = <<"confirmation_required">>
        OBVIOUS
      <4> PICK v : v = <<"completed", "end">>
        OBVIOUS
      <4>1. /\ u \in Seq(Events) /\ Len(u) = 1 /\ u[1] = "confirmation_required"
            /\ v \in Seq(Events) /\ Len(v) = 2 /\ v[1] = "completed" /\ v[2] = "end"
        BY EventTypes DEF Events
      <4>2. /\ u \o v \in Seq(Events) /\ Len(u \o v) = 3
            /\ \A i \in 1..3 : (u \o v)[i] = IF i <= 1 THEN u[i] ELSE v[i - 1]
        BY <4>1, ConcatProperties
      <4>3. \A i \in 1..3 : (u \o v)[i] = x[i]
        <5>1. (u \o v)[1] = u[1] /\ (u \o v)[2] = v[1] /\ (u \o v)[3] = v[2]
          BY <4>2
        <5>2. 1..3 = {1, 2, 3}
          OBVIOUS
        <5>3. QED
          BY <3>1, <4>1, <5>1, <5>2
      <4>4. u \o v = x
        BY <3>1, <4>2, <4>3, SeqEqual
      <4>5. QED
        BY <4>4
    <3>3. events \o <<"confirmation_required">> \o <<"completed", "end">> = events \o x
      BY <2>2, <3>2, EventTypes, ConcatAssociative
    <3>4. events' = IF graph.stream THEN events \o x ELSE events
      BY <1>3, <2>4, <3>3 DEF PersistSnapshot
    <3>5. QED
      BY <2>1, <3>1, <3>4, ClosesStream DEF Late
  <2>5. QED
    BY <2>3, <2>4
<1>4. QED
  BY <1>2, <1>3

LEMMA StreamsHold == Spec => []StreamInv
<1>1. Init => StreamInv
  BY NothingSent, Partition DEF Init, StreamInv, Idle, Quiet
<1>2. TurnInv /\ StreamInv /\ [Next]_vars => StreamInv'
  <2> SUFFICES ASSUME TurnInv, StreamInv, [Next]_vars PROVE StreamInv'
    OBVIOUS
  <2>1. CASE UNCHANGED vars
    BY <2>1 DEF vars, StreamInv, Quiet, Answered
  <2>2. CASE Step
    BY <2>2, WorkStreams, ComposeStreams, EndStreams DEF Step, LookUp
  <2>3. CASE Begin \/ ClientLeaves
    <3>1. sent' = <<>> /\ events' = <<>> /\ graph'.node \in {"route", "end"}
      BY <2>3, Begins, Ends DEF ClientLeaves, TurnInv
    <3>2. QED
      BY <3>1, SilentEnd DEF Early, WorkNodes
  <2>4. CASE Send
    BY <2>4, SendStreams
  <2>5. CASE Decided
    BY <2>5, QuietEnd DEF Decided, TurnOver
  <2>6. QED
    BY <2>1, <2>2, <2>3, <2>4, <2>5 DEF Next
<1>3. QED
  BY <1>1, <1>2, TurnsHold, PTL DEF Spec

LEMMA AtMostOne ==
    ASSUME NEW S, \A x, y \in S : x = y
    PROVE  Cardinality(S) <= 1
<1>1. CASE S = {}
  BY <1>1, FS_EmptySet
<1>2. CASE S # {}
  <2>1. PICK x \in S : S = {x}
    BY <1>2
  <2>2. Cardinality({x}) = 1
    BY FS_Singleton
  <2>3. QED
    BY <2>1, <2>2
<1>3. QED
  BY <1>1, <1>2

\* The client sees one answer text at most, exactly one if the turn completes,
\* and one terminal event, which is the last.
THEOREM OneAnswerPerTurn == Spec => []OneAnswerStreamed
<1>1. TurnInv /\ StreamInv => OneAnswerStreamed
  <2> SUFFICES ASSUME TurnInv, StreamInv PROVE OneAnswerStreamed
    OBVIOUS
  <2>1. sent \in Seq(Events) /\ events \in Seq(Events)
    BY DEF TurnInv, TypeOK
  <2> PICK q : q = sent \o events
    OBVIOUS
  <2>2. /\ q \in Seq(Events) /\ DOMAIN q = 1..Len(q) /\ DOMAIN sent = 1..Len(sent)
        /\ Len(q) = Len(sent) + Len(events) /\ Len(sent) \in Nat /\ Len(events) \in Nat
        /\ \A i \in 1..Len(sent) : q[i] = sent[i] /\ i \in 1..Len(q)
    BY <2>1, ConcatProperties
  <2>3. /\ Shaped(q) /\ \A i \in 1..Len(sent) : sent[i] # "end"
    BY DEF StreamInv
  <2>4. Count(q, IsDelta) <= 1
    <3>1. \A i, j \in {k \in DOMAIN q : IsDelta(q[k])} : i = j
      BY <2>2, <2>3 DEF Shaped, IsDelta
    <3>2. QED
      BY <3>1, AtMostOne DEF Count
  <2>5. Count(q, IsTerminal) <= 1
    <3>1. \A i, j \in {k \in DOMAIN q : IsTerminal(q[k])} : ~ (i < j)
      BY <2>2, <2>3 DEF Shaped, IsTerminal
    <3>2. ASSUME NEW i \in {k \in DOMAIN q : IsTerminal(q[k])},
                 NEW j \in {k \in DOMAIN q : IsTerminal(q[k])}
          PROVE  i = j
      <4>1. ~ (i < j) /\ ~ (j < i)
        BY <3>1
      <4>2. i \in 1..Len(q) /\ j \in 1..Len(q)
        BY <2>2
      <4>3. QED
        BY <4>1, <4>2
    <3>3. QED
      BY <3>2, AtMostOne DEF Count
  <2>6. ASSUME "completed" \in {sent[i] : i \in DOMAIN sent}
        PROVE  Count(sent, IsDelta) = 1
    <3>1. PICK i \in 1..Len(sent) : sent[i] = "completed"
      BY <2>2, <2>6
    <3>2. q[1] = "delta" /\ 1 \in 1..Len(sent)
      BY <2>2, <2>3, <3>1 DEF Shaped
    <3>3. {k \in DOMAIN sent : IsDelta(sent[k])} = {1}
      BY <2>2, <2>3, <3>2 DEF Shaped, IsDelta
    <3>4. QED
      BY <3>3, FS_Singleton DEF Count
  <2>7. ASSUME NEW i \in 1..Len(sent), IsTerminal(sent[i])
        PROVE  i = Len(sent)
    <3>1. Len(sent) \in 1..Len(sent) /\ i <= Len(sent)
      BY <2>2
    <3>2. ~ (i < Len(sent))
      <4>1. q[i] = sent[i] /\ i \in 1..Len(q) /\ Len(sent) \in 1..Len(q)
        BY <2>2, <3>1
      <4>2. sent[Len(sent)] # "end" /\ q[Len(sent)] = sent[Len(sent)]
        BY <2>2, <2>3, <3>1
      <4>3. i < Len(sent) => q[Len(sent)] = "end"
        BY <2>3, <2>7, <4>1 DEF Shaped
      <4>4. QED
        BY <4>2, <4>3
    <3>3. QED
      <4> PICK n \in Nat : n = Len(sent)
        BY <2>2
      <4>1. i \in 1..n /\ ~ (i < n)
        BY <2>7, <3>2
      <4>2. QED
        BY <4>1
  <2>8. QED
    BY <2>4, <2>5, <2>6, <2>7 DEF OneAnswerStreamed
<1>2. QED
  BY <1>1, TurnsHold, StreamsHold, PTL
=============================================================================
