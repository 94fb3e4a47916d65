--------------------------- MODULE CircuitBreaker ---------------------------
(***************************************************************************)
(* AsyncCircuitBreaker (agent_app/resilience/circuit_breaker.py), shared   *)
(* by every coroutine that calls one model or the MCP tools.  Each of its  *)
(* methods holds the lock and never awaits inside, so a call is two atomic *)
(* steps with the awaited operation between them: _before_call hands out a *)
(* token, and the result is recorded against that token whatever has       *)
(* happened to the circuit meanwhile.                                      *)
(*                                                                         *)
(* "healthy" is the dependency: once TRUE no call fails or is cancelled    *)
(* any more.  A refused call (CircuitOpenError) changes nothing and is not *)
(* a step.                                                                 *)
(***************************************************************************)
EXTENDS Integers

CONSTANTS
    Calls,              \* coroutines inside call() at the same time
    FailureThreshold,
    RecoveryTimeout,    \* recovery_timeout_seconds, in clock units
    MaxGeneration       \* bound: no call is admitted from this generation on

ASSUME BreakerAssumption ==
    /\ FailureThreshold \in Nat \ {0}
    /\ RecoveryTimeout \in Nat \ {0}
    /\ MaxGeneration \in Nat

VARIABLES
    state,          \* _state
    failures,       \* _consecutive_failures
    openedAt,       \* _opened_at
    probe,          \* _probe_in_flight
    generation,     \* _generation
    clock,          \* time.monotonic()
    token,          \* the _CallToken of each call awaiting its operation
    healthy         \* the dependency answers every call from now on

breaker == <<state, failures, openedAt, probe, generation>>
vars == <<breaker, clock, token, healthy>>

States == {"CLOSED", "OPEN", "HALF_OPEN"}
CallToken == [state : {"CLOSED", "HALF_OPEN"}, generation : Nat]
NoToken == [state |-> "NONE", generation |-> -1]
NotOpened == -1

TypeOK ==
    /\ state \in States
    /\ failures \in 0..FailureThreshold
    /\ openedAt \in Nat \cup {NotOpened}
    /\ probe \in BOOLEAN
    /\ generation \in Nat
    /\ clock \in Nat
    /\ token \in [Calls -> CallToken \cup {NoToken}]
    /\ healthy \in BOOLEAN

Init ==
    /\ state = "CLOSED"
    /\ failures = 0
    /\ openedAt = NotOpened
    /\ probe = FALSE
    /\ generation = 0
    /\ clock = 0
    /\ token = [c \in Calls |-> NoToken]
    /\ healthy = FALSE

-----------------------------------------------------------------------------
InFlight(c) == token[c] # NoToken

\* The token is of the generation and the state the circuit is in.
Current(c) == token[c].state = state /\ token[c].generation = generation

\* _before_call
Admit(c) ==
    /\ ~InFlight(c) /\ generation < MaxGeneration
    /\ state = "CLOSED"
    /\ token' = [token EXCEPT ![c] = [state |-> "CLOSED", generation |-> generation]]
    /\ UNCHANGED <<breaker, clock, healthy>>

\* Fault: a half-open circuit lets every call through.
AdmitProbeAgain(c) ==
    /\ ~InFlight(c) /\ generation < MaxGeneration
    /\ \/ state = "OPEN" /\ clock - openedAt >= RecoveryTimeout
       \/ state = "HALF_OPEN"
    /\ state' = "HALF_OPEN"
    /\ probe' = TRUE
    /\ token' = [token EXCEPT ![c] = [state |-> "HALF_OPEN", generation |-> generation]]
    /\ UNCHANGED <<failures, openedAt, generation, clock, healthy>>

AdmitProbe(c) ==
    /\ ~InFlight(c) /\ generation < MaxGeneration
    /\ state = "OPEN" /\ clock - openedAt >= RecoveryTimeout
    /\ state' = "HALF_OPEN"
    /\ probe' = TRUE
    /\ token' = [token EXCEPT ![c] = [state |-> "HALF_OPEN", generation |-> generation]]
    /\ UNCHANGED <<failures, openedAt, generation, clock, healthy>>

\* _open
Open ==
    /\ state' = "OPEN"
    /\ openedAt' = clock
    /\ probe' = FALSE
    /\ generation' = generation + 1

\* Fault: closing keeps the count of the generation before.
CloseKeepsCount ==
    /\ state' = "CLOSED"
    /\ openedAt' = NotOpened
    /\ probe' = FALSE
    /\ generation' = generation + 1
    /\ UNCHANGED failures

\* _close
Close ==
    /\ state' = "CLOSED"
    /\ failures' = 0
    /\ openedAt' = NotOpened
    /\ probe' = FALSE
    /\ generation' = generation + 1

Return(c) ==
    /\ InFlight(c)
    /\ token' = [token EXCEPT ![c] = NoToken]
    /\ UNCHANGED <<clock, healthy>>

\* _record_success
Succeed(c) ==
    /\ Return(c)
    /\ \/ ~Current(c) /\ UNCHANGED breaker
       \/ Current(c) /\ state = "HALF_OPEN" /\ Close
       \/ /\ Current(c) /\ state = "CLOSED"
          /\ failures' = 0
          /\ UNCHANGED <<state, openedAt, probe, generation>>

\* A failure in a row more, and the last one the circuit takes.
CountFailure ==
    /\ failures' = failures + 1
    /\ IF failures + 1 >= FailureThreshold THEN Open
       ELSE UNCHANGED <<state, openedAt, probe, generation>>

\* Fault: failures are counted whatever the token says.
FailUnchecked(c) ==
    /\ Return(c) /\ ~healthy
    /\ \/ state = "OPEN" /\ UNCHANGED breaker
       \/ state = "HALF_OPEN" /\ Open /\ UNCHANGED failures
       \/ state = "CLOSED" /\ CountFailure

\* _record_failure
Fail(c) ==
    /\ Return(c) /\ ~healthy
    /\ \/ ~Current(c) /\ UNCHANGED breaker
       \/ Current(c) /\ state = "HALF_OPEN" /\ Open /\ UNCHANGED failures
       \/ Current(c) /\ state = "CLOSED" /\ CountFailure

\* Fault: a cancelled probe is not noticed.
CancelUnnoticed(c) == Return(c) /\ ~healthy /\ UNCHANGED breaker

\* _cancel_call
Cancel(c) ==
    /\ Return(c) /\ ~healthy
    /\ IF state = "HALF_OPEN" /\ Current(c)
       THEN Open /\ UNCHANGED failures
       ELSE UNCHANGED breaker

\* Time is read only to learn how long the circuit has been open.
Tick ==
    /\ state = "OPEN" /\ clock - openedAt < RecoveryTimeout
    /\ clock' = clock + 1
    /\ UNCHANGED <<breaker, token, healthy>>

BecomeHealthy ==
    /\ ~healthy
    /\ healthy' = TRUE
    /\ UNCHANGED <<breaker, clock, token>>

Finish(c) == Succeed(c) \/ Fail(c) \/ Cancel(c)

Next ==
    \/ \E c \in Calls : Admit(c) \/ AdmitProbe(c) \/ Finish(c)
    \/ Tick
    \/ BecomeHealthy

Spec == Init /\ [][Next]_vars

\* Time passes, every call ends (the model calls run under asyncio.timeout,
\* the MCP tools under their own), and someone calls again.
Fairness ==
    /\ WF_vars(Tick)
    /\ \A c \in Calls : WF_vars(Finish(c))
    /\ WF_vars(\E c \in Calls : AdmitProbe(c))

FairSpec == Spec /\ Fairness

-----------------------------------------------------------------------------
(***************************************************************************)
(* Properties.                                                             *)
(***************************************************************************)

\* The call whose result a half-open circuit waits for.
IsProbe(c) == token[c] = [state |-> "HALF_OPEN", generation |-> generation]

\* A half-open circuit waits for exactly one call, the one whose result moves
\* it, and no closed or open circuit has such a call in flight (class
\* docstring: exactly one HALF_OPEN probe).
OneProbe ==
    /\ probe <=> (state = "HALF_OPEN")
    /\ state = "HALF_OPEN" <=> \E c \in Calls : IsProbe(c)
    /\ \A c, d \in Calls : IsProbe(c) /\ IsProbe(d) => c = d

\* A call admitted in an earlier generation changes nothing when it ends, with
\* whatever result and however late.
StaleResultsIgnored ==
    [][\A c \in Calls :
        InFlight(c) /\ token'[c] = NoToken /\ token[c].generation # generation
            => UNCHANGED breaker]_vars

\* The circuit is closed exactly while fewer than FailureThreshold calls have
\* failed in a row: it neither opens early nor stays closed beyond it.
ClosedBelowThreshold == state = "CLOSED" <=> failures < FailureThreshold

\* Once the dependency is healthy for good the circuit closes for good, if it
\* was open, half open or flooded with late failures before.
RecoversOnceHealthy == healthy /\ generation < MaxGeneration ~> [](state = "CLOSED")
=============================================================================
