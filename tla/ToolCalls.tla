------------------------------ MODULE ToolCalls ------------------------------
(***************************************************************************)
(* The agent's read-only tool calls, end to end: the MCP client in the     *)
(* agent, the MCP server in a child process of its own for each turn, the  *)
(* HTTP client in it with its retries (agent_app/clients), and the gateway *)
(* check of the back end (app/core/gateway_auth.py), which accepts a       *)
(* signature for SignatureTTL seconds and keeps a nonce for NonceTTL.      *)
(* Several calls of a turn run at the same time.                           *)
(*                                                                         *)
(* There is a time limit at every level: of an HTTP attempt, of the tool   *)
(* in the child and of the call in the agent, the last two being equal.    *)
(* Time counts for the gateway only, in whole seconds, by one clock.       *)
(***************************************************************************)
EXTENDS Naturals, FiniteSets, Sequences

CONSTANTS
    Calls,          \* tool calls of the turn
    MaxRetries,     \* procurement_backend_max_retries
    SignatureTTL,   \* identity_signature_ttl_seconds
    NonceTTL        \* identity_nonce_ttl_seconds

\* config.py has 300 seconds for both.
ASSUME ToolCallsAssumption ==
    /\ MaxRetries \in Nat
    /\ SignatureTTL \in Nat \ {0} /\ NonceTTL \in Nat /\ NonceTTL >= SignatureTTL

VARIABLES
    session,    \* the child process and its session
    call,       \* each call as its callers, in the agent and the child, see it
    wire,       \* HTTP attempts that have not arrived
    age,        \* seconds since each call was signed, or one more than SignatureTTL
    nonces,     \* seconds for which the gateway keeps each nonce, the last one included
    handled     \* the ages at which the gateway let each call pass to its handler

toolVars == <<session, call, wire, age, nonces, handled>>

Attempts == 1..(MaxRetries + 1)

\* What the tools answer (UNAUTHORIZED: refused by the gateway itself, REFUSED:
\* by the handler), and what MCPClientError says when there is no answer
Answers == {"OK", "REFUSED", "UNAUTHORIZED", "SERVER_ERROR", "MCP_TOOL_TIMEOUT",
            "BACKEND_TIMEOUT", "BACKEND_UNAVAILABLE"}
Failures == {"MCP_CLIENT_ERROR", "MCP_PROTOCOL_TOOL_ERROR", "MCP_TRANSPORT_ERROR",
             "MCP_TOOL_TIMEOUT_RAISED"}

\* tool: what the child does with the call; attempt: the HTTP attempt it waits
\* for; result: what the agent gets.
Call == [tool : {"NONE", "ASKED", "WAITING", "DELAYED", "ANSWERED"},
         attempt : 0..(MaxRetries + 1), answer : Answers \cup {"NONE"},
         result : Answers \cup Failures \cup {"NONE", "PENDING"}]

ToolCallsTypeOK ==
    /\ session \in {"CLOSED", "OPEN", "DEAD"}
    /\ call \in [Calls -> Call]
    /\ wire \subseteq Calls \X Attempts
    /\ age \in [Calls -> 0..(SignatureTTL + 1)]
    /\ nonces \in [Calls \X Attempts -> 0..(NonceTTL + 1)]
    /\ handled \in [Calls -> Seq(0..SignatureTTL)]

NoCall == [tool |-> "NONE", attempt |-> 0, answer |-> "NONE", result |-> "NONE"]

ToolCallsInit ==
    /\ session = "CLOSED"
    /\ call = [c \in Calls |-> NoCall]
    /\ wire = {}
    /\ age = [c \in Calls |-> 0]
    /\ nonces = [k \in Calls \X Attempts |-> 0]
    /\ handled = [c \in Calls |-> <<>>]

Gateway == UNCHANGED <<age, nonces, handled>>
Outside == UNCHANGED <<session, wire>> /\ Gateway

-----------------------------------------------------------------------------
\* ProcurementMCPClient.__aenter__; when it fails, no call is made.
Connect ==
    /\ session = "CLOSED" /\ \A c \in Calls : call[c].result = "NONE"
    /\ \/ /\ session' = "OPEN"
          /\ call' = [c \in Calls |-> [NoCall EXCEPT !.result = "PENDING"]]
       \/ /\ session' = "DEAD"
          /\ call' = [c \in Calls |-> [NoCall EXCEPT !.result = "MCP_CLIENT_ERROR"]]
    /\ UNCHANGED wire /\ Gateway

\* The child ends, or its pipe breaks.
ChildDies ==
    /\ session = "OPEN" /\ session' = "DEAD"
    /\ call' = [c \in Calls |->
        IF call[c].result = "PENDING"
        THEN [call[c] EXCEPT !.tool = "NONE", !.result = "MCP_TRANSPORT_ERROR"]
        ELSE [call[c] EXCEPT !.tool = "NONE"]]
    /\ UNCHANGED wire /\ Gateway

\* call_tool, and the server's check of the arguments by the tool's signature
Ask(c) ==
    /\ session = "OPEN" /\ call[c].result = "PENDING" /\ call[c].tool = "NONE"
    /\ \/ call' = [call EXCEPT ![c].tool = "ASKED"]
       \/ call' = [call EXCEPT ![c].result = "MCP_PROTOCOL_TOOL_ERROR"]
    /\ Outside

\* Fault: the time limit is only looked at when the tool has answered.
CallTimesOutLate(c) ==
    /\ call[c].result = "PENDING" /\ call[c].tool = "ANSWERED"
    /\ call' = [call EXCEPT ![c].result = "MCP_TOOL_TIMEOUT_RAISED"]
    /\ Outside

\* The limit in call_tool.  The child is not told.
CallTimesOut(c) ==
    /\ call[c].result = "PENDING"
    /\ call' = [call EXCEPT ![c].result = "MCP_TOOL_TIMEOUT_RAISED"]
    /\ Outside

\* The tool's answer arrives; after the limit, nobody waits for it.
Return(c) ==
    /\ call[c].tool = "ANSWERED" /\ call[c].result = "PENDING"
    /\ call' = [call EXCEPT ![c].result = call[c].answer]
    /\ Outside

-----------------------------------------------------------------------------
(***************************************************************************)
(* In the child: ProcurementTools._execute around _request.                *)
(***************************************************************************)
Answered(c, code) ==
    call' = [call EXCEPT ![c].tool = "ANSWERED", ![c].answer = code]

\* Fault: every attempt is signed for itself.
NonceOfAttempt(c, n) == <<c, n>>

\* signed_headers is called once, before the loop over the attempts.
Nonce(c, n) == <<c, 1>>

\* An attempt is sent: the first one, or one after a delay.
Attempt(c) ==
    /\ call[c].tool \in {"ASKED", "DELAYED"}
    /\ call' = [call EXCEPT ![c].tool = "WAITING", ![c].attempt = @ + 1]
    /\ wire' = wire \cup {<<c, call[c].attempt + 1>>}
    /\ UNCHANGED session /\ Gateway

\* Fault: the retries are counted from zero.
RetryOneMore(c, code) ==
    IF call[c].attempt <= MaxRetries + 1
    THEN call' = [call EXCEPT ![c].tool = "DELAYED"]
    ELSE Answered(c, code)

\* What _request makes of an attempt that failed
RetryOr(c, code) ==
    IF call[c].attempt < MaxRetries + 1
    THEN call' = [call EXCEPT ![c].tool = "DELAYED"]
    ELSE Answered(c, code)

\* The attempt's time limit, or a transport error: the request may still be
\* on its way, and its answer is not waited for.
AttemptFails(c) ==
    /\ call[c].tool = "WAITING"
    /\ \/ RetryOr(c, "BACKEND_TIMEOUT") /\ UNCHANGED wire
       \/ RetryOr(c, "BACKEND_UNAVAILABLE") /\ wire' = wire \ {<<c, call[c].attempt>>}
    /\ UNCHANGED session /\ Gateway

\* The limit in _execute
ToolTimesOut(c) ==
    /\ call[c].tool \in {"ASKED", "WAITING", "DELAYED"}
    /\ Answered(c, "MCP_TOOL_TIMEOUT")
    /\ Outside

\* _request and _parse_response, for an answer to the n-th attempt
Parsed(c, n, status) ==
    IF call[c].tool # "WAITING" \/ call[c].attempt # n THEN UNCHANGED call
    ELSE \/ UNCHANGED call      \* the answer is lost
         \/ IF status = "SERVER_ERROR" THEN RetryOr(c, "SERVER_ERROR")
            ELSE Answered(c, status)

-----------------------------------------------------------------------------
\* A second passes: for the signatures, and for the nonces.  In its last second
\* a nonce is forgotten at some moment.
SecondPasses ==
    /\ age' = [c \in Calls |->
        IF call[c].attempt > 0 /\ age[c] <= SignatureTTL THEN age[c] + 1 ELSE age[c]]
    /\ nonces' = [k \in Calls \X Attempts |-> IF nonces[k] > 0 THEN nonces[k] - 1 ELSE 0]
    /\ UNCHANGED <<session, call, wire, handled>>

NonceExpires(c, n) ==
    /\ nonces[<<c, n>>] = 1
    /\ nonces' = [nonces EXCEPT ![<<c, n>>] = 0]
    /\ UNCHANGED <<session, call, wire, age, handled>>

\* Fault: nothing is too old for the gateway.
SignedForEver(c) == TRUE

\* verify_gateway_identity compares the seconds, and an age of the limit passes.
Signed(c) == age[c] <= SignatureTTL

\* set(..., ex = identity_nonce_ttl_seconds)
Keep(c, n) == nonces' = [nonces EXCEPT ![Nonce(c, n)] = NonceTTL + 1]

\* An attempt arrives, possibly long after others of its call.  The gateway
\* refuses a signature that is too old and a nonce it keeps; without Redis the
\* answer is 503, and nobody knows whether a new nonce was kept.
Arrive(c, n) ==
    /\ <<c, n>> \in wire
    /\ wire' = wire \ {<<c, n>>}
    /\ \/ /\ ~Signed(c) \/ nonces[Nonce(c, n)] > 0
          /\ Parsed(c, n, "UNAUTHORIZED")
          /\ UNCHANGED <<nonces, handled>>
       \/ /\ Signed(c) /\ nonces[Nonce(c, n)] = 0
          /\ Keep(c, n)
          /\ handled' = [handled EXCEPT ![c] = Append(@, age[c])]
          /\ \E status \in {"OK", "REFUSED", "SERVER_ERROR"} : Parsed(c, n, status)
       \/ /\ Signed(c)
          /\ \/ UNCHANGED nonces
             \/ nonces[Nonce(c, n)] = 0 /\ Keep(c, n)
          /\ Parsed(c, n, "SERVER_ERROR")
          /\ UNCHANGED handled
    /\ UNCHANGED <<session, age>>

ToolCallsNext ==
    \/ Connect \/ ChildDies \/ SecondPasses
    \/ \E c \in Calls :
        \/ Ask(c) \/ CallTimesOut(c) \/ Return(c)
        \/ session = "OPEN" /\ (Attempt(c) \/ AttemptFails(c) \/ ToolTimesOut(c))
        \/ \E n \in Attempts : Arrive(c, n) \/ NonceExpires(c, n)

\* Nothing is assumed of the child and of the back end: a call ends by the time
\* limits of the agent.
ToolCallsSpec ==
    /\ ToolCallsInit /\ [][ToolCallsNext]_toolVars
    /\ WF_toolVars(Connect) /\ \A c \in Calls : WF_toolVars(CallTimesOut(c))

-----------------------------------------------------------------------------
(***************************************************************************)
(* Properties.                                                             *)
(***************************************************************************)

\* However often a call is sent and however late its copies arrive, the gateway
\* lets it pass once, and an answer of the handler is one to a call that passed.
\* With two limits of the same length there is one exception: a call that passed
\* in the second it was signed passes again in the last second of its signature,
\* when its nonce has just been forgotten.
CarriedOutOnce ==
    \A c \in Calls :
        /\ \/ Len(handled[c]) <= 1
           \/ NonceTTL = SignatureTTL /\ handled[c] = <<0, SignatureTTL>>
        /\ call[c].result \in {"OK", "REFUSED"} => handled[c] # <<>>

\* Every call of a turn ends, with a child that hangs and a back end that does
\* not answer as well.
EveryToolCallEnds ==
    \A c \in Calls : <>(call[c].result \notin {"NONE", "PENDING"})
=============================================================================
