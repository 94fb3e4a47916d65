------------------------------ MODULE Analysis ------------------------------
(***************************************************************************)
(* The execution of an analysis plan (agent_app/analysis): the steps run   *)
(* by their dependencies, independent ones as one batch of concurrent tool *)
(* calls, and once more after a failure the planner may revise.  The plan  *)
(* is checked when it is made: distinct steps that depend on earlier ones. *)
(***************************************************************************)
EXTENDS Naturals, Sequences, FiniteSets

CONSTANTS
    PlanSize,       \* the plan's steps are 1..PlanSize, in its order
    MaxCalls        \* max_tool_calls

ASSUME AnalysisAssumption == PlanSize \in 1..8 /\ MaxCalls \in Nat \ {0}

VARIABLES
    plan,       \* depends_on and independent of each step
    revision,   \* revision_count
    pending,    \* steps of the plan not tried since it was made or revised
    flight,     \* the batch being called: what each call has returned
    results,    \* AnalysisStepResults, in the order they were collected
    phase

analysisVars == <<plan, revision, pending, flight, results, phase>>

Steps == 1..PlanSize

\* "SLOW" is a failure a plan is revised for, "BAD" any other one.
Outcomes == {"OK", "SLOW", "BAD"}

Plans == [depends : [Steps -> SUBSET Steps], independent : SUBSET Steps]

\* validate_dependency_graph
ValidPlan(p) == \A s \in Steps : \A d \in p.depends[s] : d < s

AnalysisTypeOK ==
    /\ plan \in Plans /\ revision \in 0..1
    /\ pending \subseteq Steps
    /\ DOMAIN flight \subseteq Steps
    /\ \A s \in DOMAIN flight : flight[s] \in Outcomes \cup {"CALLED"}
    /\ results \in Seq([step : Steps, outcome : Outcomes])
    /\ phase \in {"RUNNING", "DONE"}

Completed == {results[i].step : i \in {j \in DOMAIN results : results[j].outcome = "OK"}}

AnalysisInit ==
    /\ plan \in {p \in Plans : ValidPlan(p)}
    /\ revision = 0 /\ pending = Steps
    /\ flight = <<>> /\ results = <<>>
    /\ phase = "RUNNING"

-----------------------------------------------------------------------------
\* Fault: a step is ready when the steps it depends on have been tried.
ReadyAfterTried == {s \in pending : plan.depends[s] \cap pending = {}}

Ready == {s \in pending : plan.depends[s] \subseteq Completed}

\* More than one independent step runs as one batch, otherwise the first one.
NextBatch ==
    LET parallel == Ready \cap plan.independent
    IN  IF Cardinality(parallel) > 1 THEN parallel
        ELSE {CHOOSE s \in Ready : \A t \in Ready : s <= t}

\* The limit is looked at before a batch, not for each of its calls.
CanGoOn == Ready # {} /\ Len(results) < MaxCalls

StartBatch ==
    /\ phase = "RUNNING" /\ flight = <<>> /\ CanGoOn
    /\ flight' = [s \in NextBatch |-> "CALLED"]
    /\ UNCHANGED <<plan, revision, pending, results, phase>>

\* The answer of one call, in any order
CallReturns(s) ==
    /\ s \in DOMAIN flight /\ flight[s] = "CALLED"
    /\ \E outcome \in Outcomes : flight' = [flight EXCEPT ![s] = outcome]
    /\ UNCHANGED <<plan, revision, pending, results, phase>>

\* gather keeps the order of the steps, whatever the order of the answers.
InOrder(S) == [i \in 1..Cardinality(S) |->
    CHOOSE s \in S : Cardinality({t \in S : t < s}) = i - 1]

EndBatch ==
    /\ flight # <<>> /\ \A s \in DOMAIN flight : flight[s] # "CALLED"
    /\ LET order == InOrder(DOMAIN flight)
       IN results' = results \o
            [i \in DOMAIN order |-> [step |-> order[i], outcome |-> flight[order[i]]]]
    /\ pending' = pending \ DOMAIN flight
    /\ flight' = <<>>
    /\ UNCHANGED <<plan, revision, phase>>

\* revise_plan of the deterministic planner, the one AnalysisAgentService is given.
\* The planner that asks a model for the second plan is not modelled.
Revisable ==
    /\ revision = 0
    /\ \E i \in DOMAIN results : results[i].outcome # "OK"
    /\ \A i \in DOMAIN results : results[i].outcome # "BAD"

Remaining == Steps \ Completed

Revise ==
    /\ phase = "RUNNING" /\ flight = <<>> /\ ~CanGoOn
    /\ IF Revisable
       THEN revision' = 1 /\ pending' = Remaining /\ UNCHANGED phase
       ELSE phase' = "DONE" /\ UNCHANGED <<revision, pending>>
    /\ UNCHANGED <<plan, flight, results>>

AnalysisNext == StartBatch \/ (\E s \in Steps : CallReturns(s)) \/ EndBatch \/ Revise

AnalysisSpec ==
    AnalysisInit /\ [][AnalysisNext]_analysisVars /\ WF_analysisVars(AnalysisNext)

-----------------------------------------------------------------------------
(***************************************************************************)
(* Properties.                                                             *)
(***************************************************************************)

\* A step is called after all it depends on have succeeded, and not again once
\* it has succeeded itself, in a revised plan as in the first one.
CalledWhenReady ==
    /\ \A s \in DOMAIN flight : plan.depends[s] \subseteq Completed /\ s \notin Completed
    /\ \A i, j \in DOMAIN results :
        /\ results[i].step = results[j].step /\ results[i].outcome = "OK" => j <= i
        /\ i < j => results[i].step \notin plan.depends[results[j].step]
                    \/ \E k \in 1..(j - 1) : results[k].step = results[i].step
                                             /\ results[k].outcome = "OK"

\* Every analysis ends; it leaves out a step only if one it depends on, or one
\* before the limit of calls, did not succeed.
AnalysisEnds == <>(phase = "DONE" /\ \A s \in Steps :
    \/ \E i \in DOMAIN results : results[i].step = s
    \/ plan.depends[s] \ Completed # {} \/ Len(results) >= MaxCalls)
=============================================================================
