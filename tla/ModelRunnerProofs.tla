-------------------------- MODULE ModelRunnerProofs --------------------------
(***************************************************************************)
(* Theorems about CircuitBreaker and ModelRunner for any number of         *)
(* concurrent calls, any threshold and recovery timeout, any number of     *)
(* retries, and with or without a fallback model.                          *)
(***************************************************************************)
EXTENDS ModelRunner, TLAPS

-----------------------------------------------------------------------------
(***************************************************************************)
(* The circuit breaker.                                                    *)
(***************************************************************************)
\* No token is of a generation still to come, so starting a new generation
\* leaves no current token behind.
TokensNotAhead == \A c \in Calls : token[c].generation <= generation

BreakerInv == TypeOK /\ TokensNotAhead /\ OneProbe /\ ClosedBelowThreshold

\* A call is current exactly when its end may move the circuit.
LEMMA CurrentProbe ==
    ASSUME BreakerInv, NEW c \in Calls, ~Current(c)
    PROVE  ~IsProbe(c)
  BY DEF BreakerInv, OneProbe, Current, IsProbe

\* Opening or closing the circuit at the end of call c.
LEMMA NewGeneration ==
    ASSUME BreakerInv, NEW c \in Calls, Return(c),
           Open \/ Close,
           failures' \in 0..FailureThreshold,
           state' = "CLOSED" <=> failures' < FailureThreshold
    PROVE  BreakerInv'
<1>1. generation' = generation + 1 /\ probe' = FALSE /\ state' \in {"OPEN", "CLOSED"}
  BY DEF Open, Close
<1>2. TypeOK'
  <2>1. clock' \in Nat /\ healthy' \in BOOLEAN /\ openedAt' \in Nat \cup {NotOpened}
    BY DEF BreakerInv, TypeOK, Return, Open, Close
  <2>2. token' \in [Calls -> CallToken \cup {NoToken}]
    BY DEF BreakerInv, TypeOK, Return
  <2>3. generation' \in Nat
    BY <1>1 DEF BreakerInv, TypeOK
  <2>4. QED
    BY <1>1, <2>1, <2>2, <2>3 DEF TypeOK, States
<1>3. \A d \in Calls : token'[d].generation <= generation
  BY DEF BreakerInv, TypeOK, TokensNotAhead, Return, NoToken
<1>4. TokensNotAhead'
  BY <1>1, <1>3 DEF BreakerInv, TypeOK, TokensNotAhead, Return, NoToken, CallToken
<1>5. \A d \in Calls : ~IsProbe(d)'
  BY <1>1, <1>3 DEF IsProbe, BreakerInv, TypeOK
<1>6. OneProbe'
  BY <1>1, <1>5 DEF OneProbe
<1>7. QED
  BY <1>2, <1>4, <1>6 DEF BreakerInv, ClosedBelowThreshold

\* A probe that fails or is cancelled.
LEMMA ReopenAfter ==
    ASSUME BreakerInv, NEW c \in Calls, Return(c), state = "HALF_OPEN",
           Open, UNCHANGED failures
    PROVE  BreakerInv'
<1>1. failures' \in 0..FailureThreshold /\ ~(failures' < FailureThreshold)
  BY DEF BreakerInv, TypeOK, ClosedBelowThreshold
<1>2. state' = "OPEN"
  BY DEF Open
<1>3. QED
  BY <1>1, <1>2, NewGeneration

\* The end of a call that leaves the circuit in its state.
LEMMA SameGeneration ==
    ASSUME BreakerInv, NEW c \in Calls, Return(c), ~IsProbe(c),
           UNCHANGED <<state, openedAt, probe, generation>>,
           failures' \in 0..FailureThreshold,
           state' = "CLOSED" <=> failures' < FailureThreshold
    PROVE  BreakerInv'
<1>1. TypeOK'
  BY DEF BreakerInv, TypeOK, Return
<1>2. TokensNotAhead'
  BY DEF BreakerInv, TypeOK, TokensNotAhead, Return, NoToken
<1>3. \A d \in Calls : IsProbe(d)' <=> IsProbe(d)
  BY DEF IsProbe, Return, BreakerInv, TypeOK, NoToken
<1>4. OneProbe'
  BY <1>3 DEF BreakerInv, OneProbe
<1>5. QED
  BY <1>1, <1>2, <1>4 DEF BreakerInv, ClosedBelowThreshold

LEMMA BreakerInvPreserved == BreakerInv /\ [Next]_vars => BreakerInv'
<1> SUFFICES ASSUME BreakerInv, [Next]_vars PROVE BreakerInv'
  OBVIOUS
<1> USE BreakerAssumption
<1>1. CASE UNCHANGED vars
  BY <1>1 DEF vars, breaker, BreakerInv, TypeOK, TokensNotAhead, OneProbe, IsProbe,
              ClosedBelowThreshold
<1>2. ASSUME NEW c \in Calls, Admit(c) PROVE BreakerInv'
  <2>1. UNCHANGED <<breaker, clock, healthy>> /\ state = "CLOSED"
    BY <1>2 DEF Admit
  <2>2. TypeOK'
    BY <1>2, <2>1 DEF Admit, breaker, BreakerInv, TypeOK, CallToken
  <2>3. TokensNotAhead'
    BY <1>2, <2>1 DEF Admit, breaker, BreakerInv, TypeOK, TokensNotAhead
  <2>4. \A d \in Calls : IsProbe(d)' => IsProbe(d)
    BY <1>2, <2>1 DEF Admit, IsProbe, breaker, BreakerInv, TypeOK
  <2>5. OneProbe' /\ ClosedBelowThreshold'
    BY <2>1, <2>4 DEF OneProbe, ClosedBelowThreshold, breaker, BreakerInv
  <2>6. QED
    BY <2>2, <2>3, <2>5 DEF BreakerInv
<1>3. ASSUME NEW c \in Calls, AdmitProbe(c) PROVE BreakerInv'
  <2>1. /\ UNCHANGED <<failures, openedAt, generation, clock, healthy>>
        /\ state = "OPEN" /\ state' = "HALF_OPEN" /\ probe' = TRUE
        /\ token' = [token EXCEPT ![c] = [state |-> "HALF_OPEN", generation |-> generation]]
    BY <1>3 DEF AdmitProbe
  <2>2. TypeOK'
    BY <2>1 DEF BreakerInv, TypeOK, CallToken, States
  <2>3. TokensNotAhead'
    BY <2>1 DEF BreakerInv, TypeOK, TokensNotAhead
  <2>4. \A d \in Calls : ~IsProbe(d)
    BY <2>1 DEF BreakerInv, OneProbe
  <2>5. \A d \in Calls : IsProbe(d)' <=> d = c
    BY <2>1, <2>4 DEF IsProbe, BreakerInv, TypeOK
  <2>6. OneProbe' /\ ClosedBelowThreshold'
    BY <2>1, <2>5 DEF OneProbe, ClosedBelowThreshold, BreakerInv
  <2>7. QED
    BY <2>2, <2>3, <2>6 DEF BreakerInv
<1>4. ASSUME NEW c \in Calls, Return(c), UNCHANGED breaker, ~Current(c)
      PROVE  BreakerInv'
  BY <1>4, CurrentProbe, SameGeneration
  DEF breaker, BreakerInv, TypeOK, ClosedBelowThreshold
<1>5. ASSUME NEW c \in Calls, Succeed(c) PROVE BreakerInv'
  <2>1. Return(c)
    BY <1>5 DEF Succeed
  <2>2. CASE ~Current(c)
    BY <1>4, <1>5, <2>1, <2>2 DEF Succeed
  <2>3. CASE Current(c) /\ state = "HALF_OPEN"
    <3>1. Close
      BY <1>5, <2>3 DEF Succeed
    <3>2. failures' = 0 /\ state' = "CLOSED"
      BY <3>1 DEF Close
    <3>3. QED
      BY <2>1, <3>1, <3>2, NewGeneration
  <2>4. CASE Current(c) /\ state # "HALF_OPEN"
    <3>1. /\ failures' = 0 /\ UNCHANGED <<state, openedAt, probe, generation>>
      BY <1>5, <2>4 DEF Succeed
    <3>2. token[c] # NoToken /\ token[c].state = state
      BY <2>1, <2>4 DEF Return, InFlight, Current
    <3>3. state = "CLOSED"
      BY <2>4, <3>2 DEF BreakerInv, TypeOK, CallToken
    <3>4. ~IsProbe(c)
      BY <2>4 DEF BreakerInv, OneProbe
    <3>5. QED
      BY <2>1, <3>1, <3>3, <3>4, SameGeneration
  <2>5. QED
    BY <2>2, <2>3, <2>4
<1>6. ASSUME NEW c \in Calls, Fail(c) PROVE BreakerInv'
  <2>1. Return(c)
    BY <1>6 DEF Fail
  <2>2. CASE ~Current(c)
    BY <1>4, <1>6, <2>1, <2>2 DEF Fail
  <2>3. CASE Current(c) /\ state = "HALF_OPEN"
    BY <1>6, <2>1, <2>3, ReopenAfter DEF Fail
  <2>4. CASE Current(c) /\ state # "HALF_OPEN"
    <3>1. token[c] # NoToken /\ token[c].state = state
      BY <2>1, <2>4 DEF Return, InFlight, Current
    <3>2. state = "CLOSED" /\ failures \in Nat /\ failures < FailureThreshold
      BY <2>4, <3>1 DEF BreakerInv, TypeOK, CallToken, ClosedBelowThreshold
    <3>3. ~IsProbe(c)
      BY <2>4 DEF BreakerInv, OneProbe
    <3>4. CountFailure /\ failures' = failures + 1
      BY <1>6, <2>4 DEF Fail, CountFailure
    <3>5. CASE failures + 1 >= FailureThreshold
      <4>1. Open /\ state' = "OPEN"
        BY <3>4, <3>5 DEF CountFailure, Open
      <4>2. failures' \in 0..FailureThreshold /\ ~(failures' < FailureThreshold)
        BY <3>2, <3>4, <3>5
      <4>3. QED
        BY <2>1, <4>1, <4>2, NewGeneration
    <3>6. CASE ~(failures + 1 >= FailureThreshold)
      <4>1. UNCHANGED <<state, openedAt, probe, generation>>
        BY <3>4, <3>6 DEF CountFailure
      <4>2. failures' \in 0..FailureThreshold /\ failures' < FailureThreshold
        BY <3>2, <3>4, <3>6
      <4>3. QED
        BY <2>1, <3>2, <3>3, <4>1, <4>2, SameGeneration
    <3>7. QED
      BY <3>5, <3>6
  <2>5. QED
    BY <2>2, <2>3, <2>4
<1>7. ASSUME NEW c \in Calls, Cancel(c) PROVE BreakerInv'
  <2>1. Return(c)
    BY <1>7 DEF Cancel
  <2>2. CASE state = "HALF_OPEN" /\ Current(c)
    BY <1>7, <2>1, <2>2, ReopenAfter DEF Cancel
  <2>3. CASE ~(state = "HALF_OPEN" /\ Current(c))
    <3>1. ~IsProbe(c)
      BY <2>3 DEF BreakerInv, OneProbe, Current, IsProbe
    <3>2. QED
      BY <1>7, <2>1, <2>3, <3>1, SameGeneration
      DEF Cancel, breaker, BreakerInv, TypeOK, ClosedBelowThreshold
  <2>4. QED
    BY <2>2, <2>3
<1>8. CASE Tick
  BY <1>8 DEF Tick, breaker, BreakerInv, TypeOK, TokensNotAhead, OneProbe, IsProbe,
              ClosedBelowThreshold
<1>9. CASE BecomeHealthy
  BY <1>9 DEF BecomeHealthy, breaker, BreakerInv, TypeOK, TokensNotAhead, OneProbe,
              IsProbe, ClosedBelowThreshold
<1>10. QED
  BY <1>1, <1>2, <1>3, <1>5, <1>6, <1>7, <1>8, <1>9 DEF Next, Finish

LEMMA BreakerInvHolds == Spec => []BreakerInv
<1>1. Init => BreakerInv
  <2> SUFFICES ASSUME Init PROVE BreakerInv
    OBVIOUS
  <2>1. token = [c \in Calls |-> NoToken] /\ generation = 0 /\ failures = 0
    BY DEF Init
  <2>2. TypeOK /\ ClosedBelowThreshold
    <3>1. token \in [Calls -> CallToken \cup {NoToken}]
      BY <2>1
    <3>2. failures \in 0..FailureThreshold /\ failures < FailureThreshold
      BY <2>1, BreakerAssumption
    <3>3. generation \in Nat /\ clock \in Nat /\ openedAt \in Nat \cup {NotOpened}
      BY DEF Init
    <3>4. state = "CLOSED" /\ probe = FALSE /\ healthy = FALSE
      BY DEF Init
    <3>5. QED
      BY <3>1, <3>2, <3>3, <3>4 DEF TypeOK, States, ClosedBelowThreshold
  <2>3. TokensNotAhead
    <3>1. NoToken.generation <= 0
      BY DEF NoToken
    <3>2. QED
      BY <2>1, <3>1 DEF TokensNotAhead
  <2>4. OneProbe
    BY <2>1 DEF Init, OneProbe, IsProbe, NoToken
  <2>5. QED
    BY <2>2, <2>3, <2>4 DEF BreakerInv
<1>2. QED
  BY <1>1, BreakerInvPreserved, PTL DEF Spec

\* Whatever the calls do, a half-open circuit waits for one probe, and only a
\* half-open circuit has one.
THEOREM ExactlyOneProbe == Spec => [](TypeOK /\ OneProbe)
<1>1. BreakerInv => TypeOK /\ OneProbe
  BY DEF BreakerInv
<1>2. QED
  BY <1>1, BreakerInvHolds, PTL

\* The circuit is closed exactly while the failures in a row are below the
\* threshold.
THEOREM ClosedExactlyBelowThreshold == Spec => []ClosedBelowThreshold
<1>1. BreakerInv => ClosedBelowThreshold
  BY DEF BreakerInv
<1>2. QED
  BY <1>1, BreakerInvHolds, PTL

\* The end of a call of an earlier generation leaves the circuit alone.
THEOREM LateResultsAreIgnored == Spec => StaleResultsIgnored
<1> DEFINE Ignored ==
        \A c \in Calls : InFlight(c) /\ token'[c] = NoToken
                         /\ token[c].generation # generation => UNCHANGED breaker
<1>1. BreakerInv /\ [Next]_vars => [Ignored]_vars
  <2> SUFFICES ASSUME BreakerInv, Next, NEW c \in Calls, InFlight(c),
                      token'[c] = NoToken, token[c].generation # generation
               PROVE  UNCHANGED breaker
    OBVIOUS
  <2>1. ASSUME NEW d \in Calls, Admit(d) \/ AdmitProbe(d)
        PROVE  UNCHANGED breaker
    <3>1. CASE Admit(d)
      BY <3>1 DEF Admit
    <3>2. CASE AdmitProbe(d)
      BY <3>2 DEF AdmitProbe, InFlight, NoToken, BreakerInv, TypeOK
    <3>3. QED
      BY <2>1, <3>1, <3>2
  <2>2. ASSUME NEW d \in Calls, Finish(d)
        PROVE  UNCHANGED breaker
    <3>1. Return(d)
      BY <2>2 DEF Finish, Succeed, Fail, Cancel
    <3>2. d = c
      BY <3>1 DEF Return, InFlight, BreakerInv, TypeOK
    <3>3. ~Current(c)
      BY DEF Current
    <3>4. QED
      BY <2>2, <3>2, <3>3 DEF Finish, Succeed, Fail, Cancel
  <2>3. CASE Tick \/ BecomeHealthy
    BY <2>3 DEF Tick, BecomeHealthy
  <2>4. QED
    BY <2>1, <2>2, <2>3 DEF Next
<1>2. QED
  BY <1>1, BreakerInvHolds, PTL DEF Spec, StaleResultsIgnored

-----------------------------------------------------------------------------
(***************************************************************************)
(* The runs of the model runner.                                           *)
(***************************************************************************)
\* A step of a run is a step of the breaker, or leaves it alone.
THEOREM RunsUseTheBreaker == RunnerSpec => Spec
<1>1. RunnerInit => Init
  BY DEF RunnerInit
<1>2. [RunnerNext]_runnerVars => [Next]_vars
  <2> SUFFICES ASSUME [RunnerNext]_runnerVars PROVE [Next]_vars
    OBVIOUS
  <2>1. CASE UNCHANGED runnerVars
    BY <2>1 DEF runnerVars
  <2>2. ASSUME NEW c \in Calls, Start(c) \/ StreamText(c) PROVE UNCHANGED vars
    BY <2>2 DEF Start, StreamText, vars
  <2>3. ASSUME NEW c \in Calls, RunStep(c) PROVE [Next]_vars
    <3>1. CASE AskPrimary(c)
      BY <3>1 DEF AskPrimary, Next
    <3>2. CASE PrimaryAnswers(c) \/ PrimaryRaises(c)
      BY <3>2 DEF PrimaryAnswers, PrimaryRaises, Next, Finish
    <3>3. CASE Cancelled(c)
      BY <3>3 DEF Cancelled, Next, Finish
    <3>4. CASE PrimaryRefused(c) \/ FallbackAnswers(c) \/ FallbackRaises(c) \/ Validate(c)
      BY <3>4 DEF PrimaryRefused, FallbackAnswers, FallbackRaises, Validate, vars
    <3>5. QED
      BY <2>3, <3>1, <3>2, <3>3, <3>4 DEF RunStep
  <2>4. CASE Tick \/ BecomeHealthy
    BY <2>4 DEF Next
  <2>5. QED
    BY <2>1, <2>2, <2>3, <2>4 DEF RunnerNext
<1>3. QED
  BY <1>1, <1>2, PTL DEF RunnerSpec, Spec

\* What a run knows of itself: text shows, the fallback's answers were asked
\* for, and an end without the fallback has no error it would have covered.
Sound(x) ==
    /\ x.emitted => x.shown # {}
    /\ x.at = "FALLBACK" => x.asked
    /\ x.at = "ANSWERED" => x.from \in Models /\ (x.from = "FALLBACK" => x.asked)
    /\ x.at = "DONE" /\ HasFallback /\ ~ x.asked /\ x.shown = {}
        => x.error \in {None} \cup Final

\* A run between Start and its end has no usage record yet.
RunnerInv ==
    /\ run \in [Calls -> RunRecord] /\ ledger \in [Calls -> 0..1]
    /\ \A c \in Calls : Sound(run[c])
    /\ OneRecordPerAnswer

\* A step that leaves the ledger alone and ends no run with an answer.
NoAnswer(c) ==
    /\ \E x \in RunRecord : Moved(c, x) /\ Sound(x) /\ (x.at = "DONE" => x.error # None)
    /\ UNCHANGED ledger

LEMMA CodeNames ==
    /\ \A c \in Calls : AdapterErrors(c) \subseteq Codes
    /\ "CIRCUIT_OPEN" \in Codes \ Final /\ "DIRECT" \in Codes \ Final
    /\ "UNAVAILABLE" \notin Final
    /\ None \notin Codes
<1>1. \A status, body, streamed : Raised(status, body, streamed) \in Codes
  BY DEF Raised, Codes, Final
<1>2. \A c \in Calls : AdapterErrors(c) \subseteq Codes
  BY <1>1 DEF AdapterErrors, Codes
<1>3. QED
  BY <1>2 DEF Codes, Final, None

LEMMA IdleRun == Idle \in RunRecord /\ Sound(Idle)
  BY RunnerAssumption DEF Idle, RunRecord, Sound, None

LEMMA NoAnswerKeeps ==
    ASSUME RunnerInv, NEW c \in Calls, ledger[c] = 0, NoAnswer(c)
    PROVE  RunnerInv'
<1>1. PICK x \in RunRecord :
          run' = [run EXCEPT ![c] = x] /\ Sound(x) /\ (x.at = "DONE" => x.error # None)
  BY DEF NoAnswer, Moved
<1>2. ledger' = ledger
  BY DEF NoAnswer
<1>3. run' \in [Calls -> RunRecord]
  BY <1>1 DEF RunnerInv
<1>4. ASSUME NEW d \in Calls PROVE run'[d] = IF d = c THEN x ELSE run[d]
  BY <1>1 DEF RunnerInv
<1>5. \A d \in Calls : Sound(run'[d])
  BY <1>1, <1>4 DEF RunnerInv
<1>6. ASSUME NEW d \in Calls
      PROVE  ledger'[d] = 1 <=> run'[d].at = "DONE" /\ run'[d].error = None
  <2>1. CASE d = c
    BY <1>1, <1>2, <1>4, <2>1
  <2>2. CASE d # c
    BY <1>2, <1>4, <2>2 DEF RunnerInv, OneRecordPerAnswer, At
  <2>3. QED
    BY <2>1, <2>2
<1>7. QED
  BY <1>2, <1>3, <1>5, <1>6 DEF RunnerInv, OneRecordPerAnswer, At, Sound

\* A run that is not over has no record.
LEMMA NoRecordYet ==
    ASSUME RunnerInv, NEW c \in Calls, run[c].at # "DONE"
    PROVE  ledger[c] = 0
  BY DEF RunnerInv, OneRecordPerAnswer, At

\* The ways a run moves on without an answer
LEMMA EndsWithError ==
    ASSUME RunnerInv, NEW c \in Calls, NEW error \in Codes, Ended(c, error), UNCHANGED ledger,
           HasFallback /\ ~ run[c].asked /\ run[c].shown = {} => error \in Final
    PROVE  NoAnswer(c)
<1> PICK y : y = run[c]
  OBVIOUS
<1>1. y \in RunRecord
  BY DEF RunnerInv
<1> PICK x : x = [y EXCEPT !.at = "DONE", !.error = error, !.from = None, !.attempt = 0,
                           !.emitted = FALSE]
  OBVIOUS
<1>2. x \in RunRecord
  <2>1. 0 \in 0..MaxRetries + 1
    BY RunnerAssumption
  <2>2. QED
    BY <1>1, <2>1 DEF RunRecord
<1>3. /\ x.at = "DONE" /\ x.error = error /\ x.emitted = FALSE /\ x.asked = y.asked
      /\ x.shown = y.shown
  BY <1>1 DEF RunRecord
<1>4. Sound(x)
  BY <1>3 DEF Sound
<1>5. Moved(c, x) /\ x.error # None
  BY <1>3, CodeNames DEF Ended
<1>6. QED
  BY <1>2, <1>4, <1>5 DEF NoAnswer

LEMMA AsksFallback ==
    ASSUME RunnerInv, NEW c \in Calls, NEW error \in Codes, AskFallback(c, error),
           UNCHANGED ledger
    PROVE  NoAnswer(c)
<1> PICK y : y = run[c]
  OBVIOUS
<1>1. y \in RunRecord /\ Sound(y)
  BY DEF RunnerInv
<1> PICK x : x = [y EXCEPT !.at = "FALLBACK", !.error = error, !.asked = TRUE]
  OBVIOUS
<1>2. x \in RunRecord
  BY <1>1 DEF RunRecord
<1>3. /\ x.at = "FALLBACK" /\ x.asked = TRUE /\ x.emitted = y.emitted /\ x.shown = y.shown
  BY <1>1 DEF RunRecord
<1>4. Sound(x)
  BY <1>1, <1>3 DEF Sound
<1>5. Moved(c, x)
  BY DEF AskFallback
<1>6. QED
  BY <1>2, <1>3, <1>4, <1>5 DEF NoAnswer

LEMMA RetriesOrRaises ==
    ASSUME RunnerInv, NEW c \in Calls, NEW error \in Codes, RetryOrRaise(c, error),
           UNCHANGED ledger, run[c].attempt \in Nat,
           HasFallback /\ ~ run[c].asked /\ run[c].shown = {} => error \in Final
    PROVE  NoAnswer(c)
<1>1. CASE Ended(c, error)
  BY <1>1, EndsWithError
<1>2. CASE ~ (error = "CIRCUIT_OPEN" \/ error \notin Retryable \/ run[c].attempt > MaxRetries)
  <2> PICK y : y = run[c]
    OBVIOUS
  <2>1. y \in RunRecord /\ Sound(y)
    BY DEF RunnerInv
  <2>2. y.attempt \in Nat /\ y.attempt <= MaxRetries /\ MaxRetries \in Nat
    BY <1>2, RunnerAssumption
  <2> PICK x : x = [y EXCEPT !.at = "ATTEMPT", !.attempt = y.attempt + 1, !.error = None,
                             !.emitted = FALSE]
    OBVIOUS
  <2>3. y.attempt + 1 \in 0..MaxRetries + 1
    BY <2>2
  <2>4. x \in RunRecord
    BY <2>1, <2>3 DEF RunRecord
  <2>5. x.at = "ATTEMPT" /\ x.emitted = FALSE
    BY <2>1 DEF RunRecord
  <2>6. Sound(x)
    BY <2>5 DEF Sound
  <2>7. Moved(c, x)
    BY <1>2 DEF RetryOrRaise
  <2>8. QED
    BY <2>4, <2>5, <2>6, <2>7 DEF NoAnswer
<1>3. QED
  BY <1>1, <1>2 DEF RetryOrRaise

LEMMA FailsOver ==
    ASSUME RunnerInv, NEW c \in Calls, NEW error \in Codes, PrimaryFailed(c, error),
           UNCHANGED ledger
    PROVE  NoAnswer(c)
<1>1. run[c] \in RunRecord /\ Sound(run[c])
  BY DEF RunnerInv
<1>2. run[c].attempt \in Nat
  BY <1>1, RunnerAssumption DEF RunRecord
<1>3. CASE error \notin Final /\ HasFallback /\ ~ run[c].emitted
  BY <1>3, AsksFallback DEF PrimaryFailed
<1>4. CASE ~ (error \notin Final /\ HasFallback /\ ~ run[c].emitted)
  <2>1. RetryOrRaise(c, error)
    BY <1>4 DEF PrimaryFailed
  <2>2. HasFallback /\ run[c].shown = {} => error \in Final
    BY <1>1, <1>4 DEF Sound
  <2>3. QED
    BY <1>2, <2>1, <2>2, RetriesOrRaises
<1>5. QED
  BY <1>3, <1>4

\* A step to a place of the run that is not its end
LEMMA MovesOn ==
    ASSUME RunnerInv, NEW c \in Calls, NEW x \in RunRecord, Moved(c, x), UNCHANGED ledger,
           Sound(x), x.at # "DONE", run[c].at # "DONE"
    PROVE  RunnerInv'
<1>1. NoAnswer(c)
  BY DEF NoAnswer
<1>2. QED
  BY <1>1, NoRecordYet, NoAnswerKeeps

LEMMA Starts ==
    ASSUME RunnerInv, NEW c \in Calls, Start(c)
    PROVE  RunnerInv'
<1> PICK x : x = [Idle EXCEPT !.at = "ATTEMPT", !.attempt = 1]
  OBVIOUS
<1>1. x \in RunRecord /\ Sound(x) /\ x.at = "ATTEMPT"
  <2>1. 1 \in 0..MaxRetries + 1
    BY RunnerAssumption
  <2>2. QED
    BY <2>1 DEF Idle, RunRecord, Sound, None
<1>2. run' = [run EXCEPT ![c] = x] /\ ledger' = [ledger EXCEPT ![c] = 0]
  BY DEF Start, Moved
<1>3. run' \in [Calls -> RunRecord] /\ ledger' \in [Calls -> 0..1]
  BY <1>1, <1>2 DEF RunnerInv
<1>4. \A d \in Calls : /\ run'[d] = IF d = c THEN x ELSE run[d]
                       /\ ledger'[d] = IF d = c THEN 0 ELSE ledger[d]
  BY <1>2 DEF RunnerInv
<1>5. \A d \in Calls : Sound(run'[d])
  BY <1>1, <1>4 DEF RunnerInv
<1>6. ASSUME NEW d \in Calls
      PROVE  ledger'[d] = 1 <=> run'[d].at = "DONE" /\ run'[d].error = None
  <2>1. CASE d = c
    <3>1. ledger'[d] = 0
      BY <1>4, <2>1
    <3>2. run'[d].at # "DONE"
      BY <1>1, <1>4, <2>1
    <3>3. QED
      BY <3>1, <3>2
  <2>2. CASE d # c
    BY <1>4, <2>2 DEF RunnerInv, OneRecordPerAnswer, At
  <2>3. QED
    BY <2>1, <2>2
<1>7. QED
  BY <1>3, <1>5, <1>6 DEF RunnerInv, OneRecordPerAnswer, At, Sound

LEMMA Accepts ==
    ASSUME RunnerInv, NEW c \in Calls, At(c, "ANSWERED"), Accept(c)
    PROVE  RunnerInv'
<1> PICK y : y = run[c]
  OBVIOUS
<1>1. y \in RunRecord /\ ledger[c] = 0
  BY NoRecordYet DEF RunnerInv, At
<1> PICK x : x = [y EXCEPT !.at = "DONE", !.error = None, !.from = None, !.attempt = 0,
                           !.emitted = FALSE]
  OBVIOUS
<1>2. x \in RunRecord
  <2>1. 0 \in 0..MaxRetries + 1
    BY RunnerAssumption
  <2>2. QED
    BY <1>1, <2>1 DEF RunRecord
<1>3. x.at = "DONE" /\ x.error = None /\ x.emitted = FALSE
  BY <1>1 DEF RunRecord
<1>4. Sound(x)
  BY <1>3 DEF Sound
<1>5. run' = [run EXCEPT ![c] = x] /\ ledger' = [ledger EXCEPT ![c] = 1]
  BY <1>1 DEF Accept, Ended, Moved
<1>6. run' \in [Calls -> RunRecord] /\ ledger' \in [Calls -> 0..1]
  BY <1>2, <1>5 DEF RunnerInv
<1>7. \A d \in Calls : /\ run'[d] = IF d = c THEN x ELSE run[d]
                       /\ ledger'[d] = IF d = c THEN 1 ELSE ledger[d]
  BY <1>5 DEF RunnerInv
<1>8. \A d \in Calls : Sound(run'[d])
  BY <1>4, <1>7 DEF RunnerInv
<1>9. \A d \in Calls : ledger'[d] = 1 <=> run'[d].at = "DONE" /\ run'[d].error = None
  BY <1>3, <1>7 DEF RunnerInv, OneRecordPerAnswer, At
<1>10. QED
  BY <1>6, <1>8, <1>9 DEF RunnerInv, OneRecordPerAnswer, At, Sound

LEMMA RunnerInvPreserved == RunnerInv /\ [RunnerNext]_runnerVars => RunnerInv'
<1> SUFFICES ASSUME RunnerInv, [RunnerNext]_runnerVars PROVE RunnerInv'
  OBVIOUS
<1>1. ASSUME UNCHANGED <<run, ledger>> PROVE RunnerInv'
  BY <1>1 DEF RunnerInv, OneRecordPerAnswer, At, Sound
<1>2. ASSUME NEW c \in Calls, StreamText(c) PROVE RunnerInv'
  <2> PICK y : y = run[c]
    OBVIOUS
  <2>1. y \in RunRecord /\ Sound(y) /\ y.at \in {"ASKED", "FALLBACK"}
    BY <1>2 DEF RunnerInv, StreamText
  <2>2. PICK model \in Models : Moved(c, [y EXCEPT !.emitted = TRUE, !.shown = @ \cup {model}])
    BY <1>2 DEF StreamText, Models
  <2> PICK x : x = [y EXCEPT !.emitted = TRUE, !.shown = @ \cup {model}]
    OBVIOUS
  <2>3. x \in RunRecord
    BY <2>1 DEF RunRecord
  <2>4. x.at = y.at /\ x.asked = y.asked /\ x.shown = y.shown \cup {model}
    BY <2>1 DEF RunRecord
  <2>5. Sound(x)
    BY <2>1, <2>4 DEF Sound
  <2>6. QED
    BY <1>2, <2>1, <2>2, <2>3, <2>4, <2>5, MovesOn DEF StreamText
<1>3. ASSUME NEW c \in Calls, AskPrimary(c) PROVE RunnerInv'
  <2> PICK y : y = run[c]
    OBVIOUS
  <2>1. y \in RunRecord /\ y.at = "ATTEMPT"
    BY <1>3 DEF RunnerInv, AskPrimary, At
  <2> PICK x : x = [y EXCEPT !.at = "ASKED", !.emitted = FALSE]
    OBVIOUS
  <2>2. x \in RunRecord /\ x.at = "ASKED" /\ x.emitted = FALSE
    BY <2>1 DEF RunRecord
  <2>3. Sound(x)
    BY <2>2 DEF Sound
  <2>4. QED
    BY <1>3, <2>1, <2>2, <2>3, MovesOn DEF AskPrimary
<1>4. ASSUME NEW c \in Calls, PrimaryAnswers(c) \/ FallbackAnswers(c) PROVE RunnerInv'
  <2> PICK y : y = run[c]
    OBVIOUS
  <2>1. y \in RunRecord /\ Sound(y) /\ y.at \in {"ASKED", "FALLBACK"}
    BY <1>4 DEF RunnerInv, PrimaryAnswers, FallbackAnswers, At
  <2>2. PICK model \in Models : /\ Moved(c, [y EXCEPT !.at = "ANSWERED", !.from = model])
                                /\ model = "FALLBACK" => y.at = "FALLBACK"
    BY <1>4 DEF PrimaryAnswers, FallbackAnswers, Models, At
  <2> PICK x : x = [y EXCEPT !.at = "ANSWERED", !.from = model]
    OBVIOUS
  <2>3. x \in RunRecord
    BY <2>1 DEF RunRecord
  <2>4. x.at = "ANSWERED" /\ x.from = model /\ x.asked = y.asked /\ x.emitted = y.emitted
        /\ x.shown = y.shown
    BY <2>1 DEF RunRecord
  <2>5. Sound(x)
    BY <2>1, <2>2, <2>4 DEF Sound
  <2>6. UNCHANGED ledger
    BY <1>4 DEF PrimaryAnswers, FallbackAnswers
  <2>7. QED
    BY <2>1, <2>2, <2>3, <2>4, <2>5, <2>6, MovesOn
<1>5. ASSUME NEW c \in Calls, PrimaryRefused(c) \/ PrimaryRaises(c) PROVE RunnerInv'
  <2>1. \E error \in Codes : PrimaryFailed(c, error)
    BY <1>5, CodeNames DEF PrimaryRefused, PrimaryRaises
  <2>2. UNCHANGED ledger /\ run[c].at # "DONE"
    BY <1>5 DEF PrimaryRefused, PrimaryRaises, At
  <2>3. QED
    BY <2>1, <2>2, FailsOver, NoRecordYet, NoAnswerKeeps
<1>6. ASSUME NEW c \in Calls, FallbackRaises(c) PROVE RunnerInv'
  <2>1. run[c] \in RunRecord /\ Sound(run[c]) /\ run[c].at = "FALLBACK" /\ UNCHANGED ledger
    BY <1>6 DEF RunnerInv, FallbackRaises, At
  <2>2. run[c].asked /\ run[c].attempt \in Nat
    BY <2>1, RunnerAssumption DEF Sound, RunRecord
  <2>3. \E error \in Codes : Ended(c, error) \/ RetryOrRaise(c, error)
    BY <1>6, CodeNames DEF FallbackRaises
  <2>4. NoAnswer(c)
    BY <2>1, <2>2, <2>3, EndsWithError, RetriesOrRaises
  <2>5. QED
    BY <2>1, <2>4, NoRecordYet, NoAnswerKeeps
<1>7. ASSUME NEW c \in Calls, Validate(c) PROVE RunnerInv'
  <2>1. run[c] \in RunRecord /\ Sound(run[c]) /\ run[c].at = "ANSWERED"
    BY <1>7 DEF RunnerInv, Validate, At
  <2>2. CASE Accept(c)
    BY <1>7, <2>2, Accepts DEF Validate
  <2>3. CASE /\ UNCHANGED ledger /\ Ended(c, "DIRECT")
             /\ run[c].emitted \/ run[c].from = "FALLBACK" \/ ~HasFallback
    <3>1. ~ (HasFallback /\ ~ run[c].asked /\ run[c].shown = {})
      BY <2>1, <2>3 DEF Sound
    <3>2. QED
      BY <2>1, <2>3, <3>1, CodeNames, EndsWithError, NoRecordYet, NoAnswerKeeps
  <2>4. CASE UNCHANGED ledger /\ AskFallback(c, "DIRECT")
    BY <2>1, <2>4, CodeNames, AsksFallback, NoRecordYet, NoAnswerKeeps
  <2>5. QED
    BY <1>7, <2>2, <2>3, <2>4 DEF Validate
<1>8. ASSUME NEW c \in Calls, Cancelled(c) PROVE RunnerInv'
  <2>1. Moved(c, Idle) /\ UNCHANGED ledger /\ run[c].at # "DONE" /\ Idle.at # "DONE"
    BY <1>8 DEF Cancelled, At, Idle
  <2>2. QED
    BY <2>1, IdleRun, MovesOn
<1>9. QED
  BY <1>1, <1>2, <1>3, <1>4, <1>5, <1>6, <1>7, <1>8, Starts
  DEF RunnerNext, RunStep, runnerVars

LEMMA RunnerInvHolds == RunnerSpec => []RunnerInv
<1>1. RunnerInit => RunnerInv
  <2> SUFFICES ASSUME RunnerInit PROVE RunnerInv
    OBVIOUS
  <2>1. run = [c \in Calls |-> Idle] /\ ledger = [c \in Calls |-> 0]
    BY DEF RunnerInit
  <2>2. Idle.at = "IDLE"
    BY DEF Idle
  <2>3. QED
    BY <2>1, <2>2, IdleRun DEF RunnerInv, OneRecordPerAnswer, At
<1>2. QED
  BY <1>1, RunnerInvPreserved, PTL DEF RunnerSpec

\* The runs and their usage records stay of their types.
THEOREM RunnerTypeCorrect == RunnerSpec => []RunnerTypeOK
<1>1. BreakerInv /\ RunnerInv => RunnerTypeOK
  BY DEF BreakerInv, RunnerInv, RunnerTypeOK
<1>2. QED
  BY <1>1, RunsUseTheBreaker, BreakerInvHolds, RunnerInvHolds, PTL

\* No outage of the primary model ends a run while a fallback is configured,
\* nobody was asked and no text was shown; and a run has one usage record if
\* it ends with an answer and none otherwise.
THEOREM RunsEndAsConfigured == RunnerSpec => []RunsEndRight
<1>1. RunnerInv => RunsEndRight
  BY DEF RunnerInv, RunsEndRight, OutagesAreCovered, Sound, At
<1>2. QED
  BY <1>1, RunnerInvHolds, PTL
=============================================================================
