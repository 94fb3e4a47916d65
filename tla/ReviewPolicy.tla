---------------------------- MODULE ReviewPolicy ----------------------------
(***************************************************************************)
(* ReviewPolicyV1 (agent_app/review_policy.py): what becomes of the issues *)
(* a review raises, given the draft answer and the evidence the model saw  *)
(* (agent_app/models/evidence.py).                                         *)
(*                                                                         *)
(* A draft is its claims: MANDATORY (the text asserts a rule or a          *)
(* violation), EXECUTED (it says an action was taken), CONFLICT (it        *)
(* contradicts a status or a signal in the evidence), UNSEEN (it cites     *)
(* what is not in the evidence).  The evidence is the kinds it has after   *)
(* normalisation, and CONFLICTING if items of it contradict each other.    *)
(***************************************************************************)
EXTENDS Sequences, FiniteSets

Claims == {"MANDATORY", "EXECUTED", "CONFLICT", "UNSEEN"}

\* HISTORY is none of the three views, but visible.
EvidenceKinds == {"KNOWLEDGE", "TOOL", "ANALYSIS", "HISTORY", "CONFLICTING"}

IssueCodes == {"MISSING_EVIDENCE", "OMITTED_CONSTRAINT", "ANALYSIS_AS_FACT",
               "AUTHORITY_EXCEEDED", "INVISIBLE_EVIDENCE", "RAG_TOOL_CONFLICT",
               "HUMAN_CONFIRMATION_REQUIRED"}

\* Tool and analysis evidence, the kinds facts are compared with.
Structured(evidence) == evidence \cap {"TOOL", "ANALYSIS"}

\* An investigation's items count by their content, and only if successful;
\* items of unknown kinds stay visible.
NormalizedKind(item) ==
    CASE item.type # "INVESTIGATION" -> item.type
      [] item.status # "SUCCESS" -> "HISTORY"
      [] item.kind \in {"KNOWLEDGE", "ANALYSIS"} -> item.kind
      [] OTHER -> "TOOL"

\* _has_explicit_fact_conflict
FactConflict(claims, evidence) ==
    "CONFLICT" \in claims /\ Structured(evidence) # {}

\* A rule asserted without any knowledge evidence.
UnsupportedRule(claims, evidence) ==
    "MANDATORY" \in claims /\ "KNOWLEDGE" \notin evidence

\* _adjudicate_issue: the codes that block, and what they need for it.
Blocks(code, claims, evidence, sufficient, writes) ==
    \/ code = "AUTHORITY_EXCEEDED" /\ (writes \/ "EXECUTED" \in claims)
    \/ code = "INVISIBLE_EVIDENCE" /\ "UNSEEN" \in claims
    \/ code = "RAG_TOOL_CONFLICT" /\ "CONFLICTING" \in evidence
    \/ code = "MISSING_EVIDENCE" /\ (~sufficient \/ UnsupportedRule(claims, evidence))
    \/ /\ code = "ANALYSIS_AS_FACT"
       /\ FactConflict(claims, evidence) \/ Structured(evidence) = {}

\* evaluate and _aggregate
Decision(issues, claims, evidence, sufficient, writes) ==
    IF \/ \E code \in issues : Blocks(code, claims, evidence, sufficient, writes)
       \/ FactConflict(claims, evidence)
       \/ UnsupportedRule(claims, evidence)
    THEN "BLOCK"
    ELSE IF issues # {} THEN "WARN" ELSE "PASS"

\* trusted_revised_answer
Trusted(claims, evidence) ==
    ~FactConflict(claims, evidence) /\ ~UnsupportedRule(claims, evidence)
=============================================================================
