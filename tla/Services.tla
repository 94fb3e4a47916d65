------------------------------- MODULE Services -------------------------------
(***************************************************************************)
(* The components that TLC checks in one run: they share no variable, and  *)
(* a behaviour is one of a single component, the one that "part" names.    *)
(***************************************************************************)
EXTENDS Suppliers, ToolCalls, Analysis, Investigation, Knowledge, Recommendation, ReadModels,
        DeviceTerms

VARIABLE
    part        \* the component whose behaviour this is

servicesVars == <<part, supplierVars, toolVars, analysisVars, inquiry, knowledgeVars,
                  advice, reading, termVars>>

Parts == {"suppliers", "tools", "analysis", "investigation", "knowledge", "recommendation",
          "readers", "terms"}

ServicesInit ==
    /\ part \in Parts
    /\ SuppliersInit /\ ToolCallsInit /\ KnowledgeInit /\ RecommendationInit
    /\ ReadModelsInit /\ DeviceTermsInit
    /\ AnalysisInit
    /\ part # "analysis" => plan = [depends |-> [s \in Steps |-> {}], independent |-> {}]
    /\ InvestigationInit
    /\ part # "investigation" =>
        inquiry.budget = Min(Budgets) /\ ~inquiry.price /\ ~inquiry.executed /\ ~inquiry.proposed

SuppliersPart ==
    /\ part = "suppliers" /\ SuppliersNext
    /\ UNCHANGED <<part, toolVars, analysisVars, inquiry, knowledgeVars,
                    advice, reading, termVars>>

ToolsPart ==
    /\ part = "tools" /\ ToolCallsNext
    /\ UNCHANGED <<part, supplierVars, analysisVars, inquiry, knowledgeVars,
                    advice, reading, termVars>>

AnalysisPart ==
    /\ part = "analysis" /\ AnalysisNext
    /\ UNCHANGED <<part, supplierVars, toolVars, inquiry, knowledgeVars,
                    advice, reading, termVars>>

InvestigationPart ==
    /\ part = "investigation" /\ InvestigationNext
    /\ UNCHANGED <<part, supplierVars, toolVars, analysisVars, knowledgeVars,
                    advice, reading, termVars>>

KnowledgePart ==
    /\ part = "knowledge" /\ KnowledgeNext
    /\ UNCHANGED <<part, supplierVars, toolVars, analysisVars, inquiry,
                    advice, reading, termVars>>

RecommendationPart ==
    /\ part = "recommendation" /\ RecommendationNext
    /\ UNCHANGED <<part, supplierVars, toolVars, analysisVars, inquiry, knowledgeVars,
                    reading, termVars>>

ReadersPart ==
    /\ part = "readers" /\ ReadModelsNext
    /\ UNCHANGED <<part, supplierVars, toolVars, analysisVars, inquiry, knowledgeVars,
                    advice, termVars>>

TermsPart ==
    /\ part = "terms" /\ DeviceTermsNext
    /\ UNCHANGED <<part, supplierVars, toolVars, analysisVars, inquiry, knowledgeVars,
                    advice, reading>>

ServicesNext ==
    \/ SuppliersPart \/ ToolsPart \/ AnalysisPart \/ InvestigationPart
    \/ KnowledgePart \/ RecommendationPart \/ ReadersPart \/ TermsPart

\* What goes on by itself: an analysis, the connection to the child, and the time
\* limits of the calls.  Each of these steps is taken a bounded number of times,
\* so that the fairness of all together is that of ToolCallsSpec and AnalysisSpec.
GoesOn ==
    \/ AnalysisPart
    \/ ToolsPart /\ (Connect \/ \E c \in Calls : CallTimesOut(c))

ServicesSpec ==
    /\ ServicesInit /\ [][ServicesNext]_servicesVars
    /\ WF_servicesVars(GoesOn)

-----------------------------------------------------------------------------
(***************************************************************************)
(* Properties: those of the parts, and what is said of more than one.      *)
(***************************************************************************)

\* The variables of every part have the values the code gives them.
ServicesTypeOK ==
    /\ part \in Parts
    /\ SuppliersTypeOK /\ ToolCallsTypeOK /\ AnalysisTypeOK
    /\ InvestigationTypeOK /\ KnowledgeTypeOK /\ RecommendationTypeOK
    /\ ReadModelsTypeOK /\ DeviceTermsTypeOK

\* A recommendation searches for its device by the names of the history, and what
\* it shows is the newest there is for each of its candidates, and of the one
\* supplier it was asked about.
EvidenceIsKept == NewestIsKept /\ OneSupplier /\ NamesOfTheHistory

\* The agent resolves no search its user is not permitted; lists and reports keep to
\* the rights to a row, and the evidence of a recommendation to its roles; and what
\* reports were asked to leave out is left out.
ReadersStayWithin == ResolvedIsPermitted /\ ListedMayBeOpened /\ ExclusionsHold

\* Whatever does not answer, the tool calls of a turn and an analysis end.
CallsEnd ==
    /\ part = "tools" => EveryToolCallEnds
    /\ part = "analysis" => AnalysisEnds
=============================================================================
