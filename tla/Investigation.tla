---------------------------- MODULE Investigation ----------------------------
(***************************************************************************)
(* The risk investigation of one request (agent_app/investigation): the    *)
(* risk signals, the request, the lookups that follow from it as one batch *)
(* of concurrent tool calls, and the rules that apply.  What could not be  *)
(* looked up is listed as evidence too.                                    *)
(***************************************************************************)
EXTENDS Naturals, FiniteSets

CONSTANT Budgets    \* the values max_tool_calls may have

ASSUME InvestigationAssumption == Budgets \subseteq Nat \ {0}

VARIABLES
    inquiry     \* the investigation

FollowUps == {"similar_cases", "historical_price", "supplier_performance"}
Lookups == {"risk_signals", "requirement", "knowledge_rule"} \cup FollowUps

\* follow_ups: in the order of _follow_up_calls, of which any but the first may
\* not apply.  "executed" and "proposed" are suppliers of the request.
Inquiry == [budget : Budgets,
    phase : {"risk", "requirement", "follow_ups", "knowledge", "done"},
    price : BOOLEAN, executed : BOOLEAN, proposed : BOOLEAN,
    evidence : [Lookups -> {"NONE", "CALLED", "SUCCESS", "FAILED", "UNAVAILABLE"}],
    complete : BOOLEAN]

InvestigationTypeOK == inquiry \in Inquiry

InvestigationInit ==
    inquiry \in [budget : Budgets, phase : {"risk"},
        price : BOOLEAN, executed : BOOLEAN, proposed : BOOLEAN,
        evidence : {[l \in Lookups |-> "NONE"]}, complete : {FALSE}]

\* _call: a tool's failure, and every error of the MCP client, is a failure.
Looked(lookup) == {[inquiry.evidence EXCEPT ![lookup] = status] :
                    status \in {"SUCCESS", "FAILED"}}

CallsMade(evidence) == Cardinality({l \in Lookups \ {"knowledge_rule"} :
    evidence[l] \in {"CALLED", "SUCCESS", "FAILED"}})

\* Without signals the investigation stops.
RiskSignals ==
    /\ inquiry.phase = "risk"
    /\ \E evidence \in Looked("risk_signals") :
        inquiry' = [inquiry EXCEPT !.evidence = evidence,
            !.phase = IF evidence["risk_signals"] = "FAILED" THEN "done"
                      ELSE "requirement"]

\* With a budget of one the request is listed as not available, and all ends.
Requirement ==
    /\ inquiry.phase = "requirement"
    /\ IF inquiry.budget < 2
       THEN inquiry' = [inquiry EXCEPT !.phase = "done",
                !.evidence["requirement"] = "UNAVAILABLE"]
       ELSE \E evidence \in Looked("requirement") :
            inquiry' = [inquiry EXCEPT !.evidence = evidence, !.phase = "follow_ups"]

\* _supplier_id: of the purchase, or of the latest review that proposes one
Supplier == inquiry.executed \/ inquiry.proposed

\* _follow_up_calls, in their order
Wanted ==
    LET known == inquiry.evidence["requirement"] = "SUCCESS"
    IN  <<TRUE, known /\ inquiry.price, known /\ Supplier>>
InTurn == <<"similar_cases", "historical_price", "supplier_performance">>

Before(i) == Cardinality({j \in 1..(i - 1) : Wanted[j]})

\* Fault: the budget of the follow-ups forgets the request's own call.
WithinBudgetOffByOne(i) == Before(i) < inquiry.budget - 1

WithinBudget(i) == Before(i) < inquiry.budget - 2

\* What the budget leaves, is called; the others are listed.
FollowUp ==
    /\ inquiry.phase = "follow_ups"
    /\ inquiry' = [inquiry EXCEPT !.phase = "knowledge",
        !.evidence = [l \in Lookups |->
            IF \E i \in 1..3 : InTurn[i] = l /\ Wanted[i]
            THEN LET i == CHOOSE i \in 1..3 : InTurn[i] = l
                 IN IF WithinBudget(i) THEN "CALLED" ELSE "UNAVAILABLE"
            ELSE @[l]]]

\* One of the concurrent calls ends.
FollowUpEnds ==
    \E l \in FollowUps : \E evidence \in Looked(l) :
        /\ inquiry.evidence[l] = "CALLED"
        /\ inquiry' = [inquiry EXCEPT !.evidence = evidence]

\* _retrieve_knowledge, when all calls have ended: without a retriever, without
\* a role, by an error or an answer without evidence there are no rules.  The
\* program's review of its own summary has nothing to find: it compares the
\* items with the signals they were copied from.
KnowledgeRules ==
    /\ inquiry.phase = "knowledge"
    /\ \A l \in FollowUps : inquiry.evidence[l] # "CALLED"
    /\ \E status \in {"SUCCESS", "UNAVAILABLE"} :
        LET evidence == [inquiry.evidence EXCEPT !["knowledge_rule"] = status]
        IN inquiry' = [inquiry EXCEPT !.phase = "done", !.evidence = evidence,
            !.complete = \A l \in Lookups : evidence[l] \in {"NONE", "SUCCESS"}]

InvestigationNext ==
    RiskSignals \/ Requirement \/ FollowUp \/ FollowUpEnds \/ KnowledgeRules

InvestigationSpec == InvestigationInit /\ [][InvestigationNext]_inquiry

-----------------------------------------------------------------------------
(***************************************************************************)
(* Property.                                                               *)
(***************************************************************************)

\* An investigation makes no more calls than it may, those under way included,
\* and calls itself complete only when it made all that apply to the request,
\* each with success: nothing was skipped, the price's comparison for a request
\* with a device and the performance of its supplier included.
CompleteWithinBudget ==
    /\ CallsMade(inquiry.evidence) <= inquiry.budget
    /\ inquiry.complete =>
        \A l \in Lookups :
            \/ inquiry.evidence[l] = "SUCCESS"
            \/ l = "historical_price" /\ ~inquiry.price
            \/ l = "supplier_performance" /\ ~inquiry.executed /\ ~inquiry.proposed
=============================================================================
