----------------------------- MODULE ModelRunner -----------------------------
(***************************************************************************)
(* StructuredModelRunner.run (agent_app/models/runner.py) over the circuit *)
(* breaker all runs of one process share.  A run makes up to 1 +           *)
(* MaxRetries attempts.  An attempt asks the primary model through the     *)
(* breaker, then, in the cases _DIRECT_FALLBACK_ERROR_CODES and retryable  *)
(* describe, the fallback model outside of it, and validates what it got.  *)
(*                                                                         *)
(* The adapter (openai_compatible.py) is asked and answers in two steps;   *)
(* streamed text reaches the caller between them.  The breaker counts what *)
(* happens inside its call(), so a schema mismatch found afterwards is a   *)
(* success to it.                                                          *)
(***************************************************************************)
EXTENDS CircuitBreaker

CONSTANTS
    MaxRetries,     \* model_structured_output_retries
    HasFallback,    \* a fallback model is configured
    Streaming       \* the coroutines that pass a delta_handler

ASSUME RunnerAssumption ==
    MaxRetries \in Nat /\ HasFallback \in BOOLEAN /\ Streaming \subseteq Calls

VARIABLES
    run,            \* the state of each coroutine's run()
    ledger          \* number of usage records of each coroutine's current run

runnerVars == <<vars, run, ledger>>

Models == {"PRIMARY", "FALLBACK"}

\* The bodies of the provider's answers, by what the adapter makes of them.  Of
\* a 200, OUTPUT has a text where it belongs, which is not the JSON asked for.
Bodies == {"OUTPUT",        \* an object that answers in the expected form
           "NO_MODEL",      \* an error message that says the model is not there
           "ODD",           \* other JSON: no object, an error without a message
           "TEXT"}          \* no JSON: the page of a proxy

\* complete_structured reads the body before the status, the streaming request
\* takes an error's text for an empty object.
Unread(status, body, streamed) ==
    \/ body = "ODD"
    \/ body = "TEXT" /\ (status = 200 \/ ~streamed)
    \/ body = "NO_MODEL" /\ status = 200

\* What the adapter raises, by what the runner tells apart: DIRECT stands for
\* _DIRECT_FALLBACK_ERROR_CODES, REJECTED and UNREAD for what is neither
\* retryable nor one of them: a request the model refuses, and an answer whose
\* form is not the expected one, unexpected exceptions included.
Raised(status, body, streamed) ==
    IF Unread(status, body, streamed) THEN "UNREAD"
    ELSE CASE status \in {200, 401, 403} -> "DIRECT"
           [] status \in {408, 409, 425, 429} \/ status >= 500 -> "UNAVAILABLE"
           [] OTHER -> IF body = "NO_MODEL" THEN "UNAVAILABLE" ELSE "REJECTED"

\* A call that times out, loses its connection, or is answered with an error.
AdapterErrors(c) ==
    {"UNAVAILABLE"} \cup
    {Raised(status, body, c \in Streaming) :
        status \in {200, 400, 401, 429, 500}, body \in Bodies}

Final == {"REJECTED", "UNREAD"}
Codes == {"DIRECT", "UNAVAILABLE", "CIRCUIT_OPEN"} \cup Final
Retryable == {"UNAVAILABLE", "CIRCUIT_OPEN"}
None == "NONE"

RunRecord == [
    at : {"IDLE", "ATTEMPT", "ASKED", "FALLBACK", "ANSWERED", "DONE"},
    attempt : 0..MaxRetries + 1,
    emitted : BOOLEAN,              \* emitted_delta, of this attempt
    shown : SUBSET Models,          \* the models whose text the caller got
    from : Models \cup {None},      \* response
    asked : BOOLEAN,                \* the fallback was asked in this run
    error : Codes \cup {None}]      \* last_error, where it is read again

Idle == [at |-> "IDLE", attempt |-> 0, emitted |-> FALSE, shown |-> {},
         from |-> None, asked |-> FALSE, error |-> None]

RunnerTypeOK ==
    /\ TypeOK
    /\ run \in [Calls -> RunRecord]
    /\ ledger \in [Calls -> 0..1]

RunnerInit ==
    /\ Init
    /\ run = [c \in Calls |-> Idle]
    /\ ledger = [c \in Calls |-> 0]

-----------------------------------------------------------------------------
At(c, where) == run[c].at = where

Moved(c, next) == run' = [run EXCEPT ![c] = next]

\* roles._run: the caller took the last result and makes its next request.
Start(c) ==
    /\ At(c, "IDLE") \/ At(c, "DONE")
    /\ Moved(c, [Idle EXCEPT !.at = "ATTEMPT", !.attempt = 1])
    /\ ledger' = [ledger EXCEPT ![c] = 0]
    /\ UNCHANGED vars

\* circuit_breaker.call, admitted
AskPrimary(c) ==
    /\ At(c, "ATTEMPT")
    /\ Admit(c) \/ AdmitProbe(c)
    /\ Moved(c, [run[c] EXCEPT !.at = "ASKED", !.emitted = FALSE])
    /\ UNCHANGED ledger

\* tracked_delta: only the first text of an answer changes anything.
StreamText(c) ==
    /\ c \in Streaming /\ run[c].at \in {"ASKED", "FALLBACK"}
    /\ LET model == IF At(c, "ASKED") THEN "PRIMARY" ELSE "FALLBACK"
       IN /\ ~run[c].emitted \/ model \notin run[c].shown
          /\ Moved(c, [run[c] EXCEPT !.emitted = TRUE, !.shown = @ \cup {model}])
    /\ UNCHANGED <<vars, ledger>>

\* The run is over: raise, or return when there is no error.
Ended(c, error) ==
    Moved(c, [run[c] EXCEPT !.at = "DONE", !.error = error, !.from = None,
                            !.attempt = 0, !.emitted = FALSE])

\* Fault: the attempts are not counted.
RetryUncounted(c, error) ==
    IF error \notin Retryable
    THEN Ended(c, error)
    ELSE Moved(c, [run[c] EXCEPT !.at = "ATTEMPT", !.error = None, !.emitted = FALSE])

\* raise last_error, or continue with the next attempt
RetryOrRaise(c, error) ==
    IF error = "CIRCUIT_OPEN" \/ error \notin Retryable \/ run[c].attempt > MaxRetries
    THEN Ended(c, error)
    ELSE Moved(c, [run[c] EXCEPT !.at = "ATTEMPT", !.attempt = @ + 1, !.error = None,
                                 !.emitted = FALSE])

\* invoke_fallback, up to its await
AskFallback(c, error) ==
    Moved(c, [run[c] EXCEPT !.at = "FALLBACK", !.error = error, !.asked = TRUE])

\* Fault: an open circuit is answered at once, without the fallback.
PrimaryFailedNoFallbackWhenOpen(c, error) ==
    IF /\ error \in {"UNAVAILABLE", "DIRECT"}
       /\ HasFallback /\ ~run[c].emitted
    THEN AskFallback(c, error)
    ELSE RetryOrRaise(c, error)

\* primary_error
PrimaryFailed(c, error) ==
    IF error \notin Final /\ HasFallback /\ ~run[c].emitted
    THEN AskFallback(c, error)
    ELSE RetryOrRaise(c, error)

\* CircuitOpenError: the breaker is not called into, so nothing of it changes.
PrimaryRefused(c) ==
    /\ At(c, "ATTEMPT")
    /\ \/ state = "OPEN" /\ clock - openedAt < RecoveryTimeout
       \/ state = "HALF_OPEN"
    /\ PrimaryFailed(c, "CIRCUIT_OPEN")
    /\ UNCHANGED <<vars, ledger>>

PrimaryAnswers(c) ==
    /\ At(c, "ASKED")
    /\ Succeed(c)
    /\ Moved(c, [run[c] EXCEPT !.at = "ANSWERED", !.from = "PRIMARY"])
    /\ UNCHANGED ledger

PrimaryRaises(c) ==
    /\ At(c, "ASKED")
    /\ Fail(c)
    /\ \E error \in AdapterErrors(c) : PrimaryFailed(c, error)
    /\ UNCHANGED ledger

FallbackAnswers(c) ==
    /\ At(c, "FALLBACK")
    /\ Moved(c, [run[c] EXCEPT !.at = "ANSWERED", !.from = "FALLBACK"])
    /\ UNCHANGED <<vars, ledger>>

\* The fallback's error replaces the primary's; it is the last word when the
\* primary's error was a direct one or the primary's answer was in hand.
FallbackRaises(c) ==
    /\ At(c, "FALLBACK")
    /\ \E error \in AdapterErrors(c) :
        IF run[c].error = "DIRECT"
        THEN Ended(c, error)
        ELSE RetryOrRaise(c, error)
    /\ UNCHANGED <<vars, ledger>>

\* usage_ledger.record and return; the roles may still reject the answer.
Accept(c) ==
    /\ ledger' = [ledger EXCEPT ![c] = @ + 1]
    /\ Ended(c, None)

\* model_validate: the answer has the schema, or the fallback is asked.
Validate(c) ==
    /\ At(c, "ANSWERED")
    /\ \/ Accept(c)
       \/ /\ IF run[c].emitted \/ run[c].from = "FALLBACK" \/ ~HasFallback
             THEN Ended(c, "DIRECT")
             ELSE AskFallback(c, "DIRECT")
          /\ UNCHANGED ledger
    /\ UNCHANGED vars

\* The caller's task is cancelled (the turn's timeout, the client left).
Cancelled(c) ==
    /\ \/ At(c, "ASKED") /\ Cancel(c)
       \/ At(c, "FALLBACK") /\ ~healthy /\ UNCHANGED vars
    /\ Moved(c, Idle)
    /\ UNCHANGED ledger

RunStep(c) ==
    \/ AskPrimary(c) \/ PrimaryRefused(c) \/ PrimaryAnswers(c) \/ PrimaryRaises(c)
    \/ FallbackAnswers(c) \/ FallbackRaises(c) \/ Validate(c) \/ Cancelled(c)

RunnerNext ==
    \/ \E c \in Calls : Start(c) \/ StreamText(c) \/ RunStep(c)
    \/ (Tick \/ BecomeHealthy) /\ UNCHANGED <<run, ledger>>

RunnerSpec == RunnerInit /\ [][RunnerNext]_runnerVars

\* Time passes; asyncio.timeout ends every adapter call; new turns come.
RunnerFairness ==
    /\ WF_runnerVars(Tick /\ UNCHANGED <<run, ledger>>)
    /\ \A c \in Calls : WF_runnerVars(RunStep(c)) /\ WF_runnerVars(Start(c))

RunnerFairSpec == RunnerSpec /\ RunnerFairness

-----------------------------------------------------------------------------
(***************************************************************************)
(* Properties, besides those of CircuitBreaker.                            *)
(***************************************************************************)

\* With a fallback configured no outage the adapter can read reaches the caller:
\* a circuit that is open, timeouts, 5xx and 429, an expired key, unusable JSON
\* and answers off the schema end a run only after the fallback was asked, unless
\* text had been streamed.  An outage whose answer is not in the expected form, a
\* proxy's error page to a plain request, ends it at once.
OutagesAreCovered ==
    \A c \in Calls :
        At(c, "DONE") /\ HasFallback /\ ~run[c].asked /\ run[c].shown = {}
            => run[c].error \in {None} \cup Final

\* A run leaves one usage record if it ends with an answer, and none if it
\* ends with an error, over all its attempts and fallbacks.
OneRecordPerAnswer ==
    \A c \in Calls : ledger[c] = 1 <=> At(c, "DONE") /\ run[c].error = None

\* A run ends with an answer, an error the fallback was asked about or one that
\* is final, and leaves its usage record exactly with an answer.
RunsEndRight == OutagesAreCovered /\ OneRecordPerAnswer

\* Every run ends, also while the circuit opens and closes around it.
EveryRunEnds ==
    \A c \in Calls :
        At(c, "ATTEMPT") ~> run[c].at \in {"IDLE", "DONE"} \/ generation = MaxGeneration
=============================================================================
