# Procurement Mind in TLA+

This directory is a verification development of the procurement system in this
repository: TLA+ modules translated from the source, TLC configurations that
model-check them, and theorems about them checked by TLAPS. All paths below are
relative to the repository root.

## 1. The system

A FastAPI **back end** (`app/`) keeps purchase requests, suppliers, employees,
notifications, agent sessions and the knowledge index's bookkeeping in MySQL,
with short-lived state in Redis. A separate **agent service** (`agent_app/`)
talks to language models and to a vector store, drafts requests and executes
confirmed actions through the back end's HTTP interface. A React **front end**
(`frontend/`) drives both.

| Component | State it keeps | Operations | Interacts with |
|---|---|---|---|
| Procurement workflow (`app/services/procurement.py`, `workflow.py`) | requests, reviews, executions, receipts, operation log | draft, save per stage, submit, reject, resubmit, approve, start, send to warehouse, complete | employees, outbox, HTTP clients |
| Employee administration (`app/services/admin.py`) | employees, roles, buildings, identities | create, update, deactivate | everything that checks a role |
| Suppliers (`app/services/suppliers.py`) | suppliers, blacklist rows | create, blacklist, release | review and purchase fields |
| Notifications (`app/services/notifications.py`, `app/workers`) | outbox rows | dispatch, resend | outbound webhook |
| Agent sessions (`app/services/agent_sessions.py`) | sessions, messages, snapshots in MySQL; state in Redis | open, add message, read and save state, snapshot, complete | agent service |
| Gateway authentication (`app/core/gateway_auth.py`) | used nonces in Redis | verify | every request |
| Knowledge sync (`app/services/knowledge_sync.py`) | knowledge documents and index status | sync, rebuild, retire | vector store |
| Back-end client (`agent_app/clients`) | - | signed requests with retries | gateway authentication |
| Chat and confirmations (`agent_app/api/routes/chat.py`, `agent_app/hitl`, `agent_app/graph`) | draft and pending action in the session state | turn, confirm, cancel | agent sessions, back end, model runner |
| Circuit breaker (`agent_app/resilience`) | circuit, count, generation | call | model runner, MCP client |
| Model runner (`agent_app/models`) | usage ledger | run with retries and fallback | circuit breaker, providers |
| Retrieval (`agent_app/rag`) | vector collections | index, swap, query, rank | knowledge sync |
| Analysis, investigation, recommendation (`agent_app/analysis`, `investigation`, `skills`) | - | plan, execute, review | back end queries |
| MCP server and client (`agent_app/mcp`) | child process | list and call tools | back end client |
| Device terms, quantities (`agent_app/device_terms`, `domain`) | index of device names | rebuild, look up; parse quantities | recommendations, vector store |
| Read models (`app/services/{analytics,records,recommendations,risk_analysis}.py`) | - | queries | all tables |
| Front end, scripts, migrations, evaluation | - | - | - |

### What is hard about it

One HTTP request is one transaction (`app/db/session.py:20`), begun by the
identity lookup every handler depends on, so under REPEATABLE READ everything a
handler reads comes from one snapshot while everything it writes meets the rows
of the moment. Concurrent requests are kept apart by a version compared in one
`UPDATE` (`app/repositories/procurement.py:104`, `workflow.py:92`) and by unique
keys. The agent service adds calls that are retried, answers that come late,
state held in two stores at once, and a confirmation that must be executed once
although it may be clicked, retried or interrupted. `PROJECT.json` lists the
hazards line by line.

## 2. Modules

| Module | Models |
|---|---|
| `Requests` | a request's rows and what each handler checks and writes, as operators without state; shared by the next two |
| `Procurement` | the back end: sessions with snapshots, every operation of the workflow, the employee tables |
| `ProcurementSerial` | the abstract specification: the same operations one at a time on the stored request |
| `Notifications` | the outbox: dispatch runs with locked rows, retries, resends, crashes |
| `Confirmations` | one conversation's pending action: overlapping chat turns, confirm and cancel requests, failing calls |
| `AgentSessions` | the sessions of one employee: rows in MySQL, state in Redis |
| `CircuitBreaker` | `AsyncCircuitBreaker`, with calls whose results come late |
| `ModelRunner` | extends it: the runs of several coroutines over the breaker they share, with attempts, fallback and streamed text |
| `ReviewPolicy` | what becomes of the issues a review raises, as operators |
| `Conversation` | extends it: a turn through the graph's nodes, its event stream, and the three calls it is persisted with |
| `Suppliers` | suppliers and blacklist entries, written by transactions with a snapshot and locked rows |
| `ToolCalls` | the agent's tool calls through the child process, the HTTP client's retries and the gateway's nonces |
| `Analysis` | an analysis plan: batches of concurrent steps, the limit of calls, the one revision |
| `Investigation` | a risk investigation: fixed lookups, those that follow from the request, the budget |
| `Knowledge` | a document of the knowledge base: its rows, its points in the vector index, rebuilding and searching |
| `Recommendation` | profiles and rights, the search stages with their limits, the ranking |
| `ReadModels` | whom a row is shown to, and what exclusions leave out |
| `DeviceTerms` | the index of device names: the script that rebuilds it, and lookups meanwhile |
| `Services` | the eight modules before it side by side; a behaviour is one of a single part |
| `MC*` | instances of these for TLC: staff, symmetry, limits |
| `*Proofs` | theorems about the module of that name, checked by TLAPS; `ModelRunnerProofs` has those of `CircuitBreaker` too, `ServicesProofs` and `KnowledgeProofs` those of the eight parts |

`Procurement` and `ProcurementSerial` extend `Requests` and pass it different
arguments: a handler reads `a` and writes `x`, which are a snapshot and the
stored row in the first and both the stored row in the second.
`ProcurementSerial` is instantiated in `Procurement` with the refinement mapping
that forgets sessions and snapshots (`Serial`, `ImplementsSerial`).

`Services` composes components that share no state, so interleaving them would
multiply states and show nothing: `part` names the one that moves. Each of the
eight has a specification of its own beside it.

### State and actions

**Procurement.** `req` holds, for each request, the rows of
`app/models/procurement.py` that share its id (review rounds, execution, receipt
and the operation log included); `staff` the employee tables; `snap` each
session's view; `adminLog` the administrator's changes. `Begin` is the identity
query that fixes the view; `Handle` is one handler, its checks on the snapshot,
its writes on the rows, the versioned `UPDATE` and the commit; `Rollback` stands
for every failed check, a deadlock's victim and a crash. `ResendNotification`,
`CreateBlacklist` and `ReleaseBlacklist` are there for the rows they write to a
completed request's log, with tokens of the same unique key: these rows are
`lateLog`, in the order they were written, and move nothing (what else the three
do is in `Notifications` and `Suppliers`). The transition table, the required
fields of each stage and who may be assigned are operators of `Requests`. A save
in which a field is left out is a save that sends its current value. Texts,
suppliers' existence and decimals are abstracted: quantities and prices are
natural numbers, `described` and `filled` say that the other required fields are
there.

**Notifications.** `row` is the outbox with times relative to now (`wait`);
`run` the transactions of the dispatch workers, `Claim` their
`FOR UPDATE SKIP LOCKED`, `Send` the call of the gateway and its answer or loss,
`Commit` the end of the transaction. `Resend` is the administrator's request; the row
it writes to the request's log is in `Procurement`.

**Confirmations.** `conv` is the stored conversation state as far as actions are
concerned, one atomic register; `turn[t].read` and `decision[d].read` are the
copies the handlers work on. `Save` and `Draft` are how a chat turn ends, `Load`
to `Resolve` the steps of `HITLService.confirm` and `cancel` between calls of
the back end, `Unsent` and `Loses` a call that fails before or after it took
effect, a refusal by the back end included. The one action a turn drafts is the
creation of a request, a POST (`Execute`) and then a PATCH (`Fill`); `effects`
(not in the code) holds the confirmations whose POST took effect, for each action,
`decided` the outcomes ever recorded of it, and `overtaken` whether some write
has replaced a state its writer had not read. `holder` is the `asyncio.Lock` of
one process for one platform identity; two agent processes, or an employee with
two platform identities, are two locks.

**AgentSessions.** `status`, `snapshot` and `message` are the committed rows,
`redis` the state in Redis, `history` (not in the code) what was ever saved.
Each request fixes its view (`Begin`), takes the row's or the employee's lock,
and does its reads and writes of Redis one by one; a write of MySQL is visible
at its commit. `Updated` is how SQLAlchemy writes a row: only the columns that
differ from what was loaded.

**CircuitBreaker and ModelRunner.** `state`, `failures`, `generation` and the
time since the circuit opened are the attributes of the breaker; `token[c]` is
what call `c` was admitted with. A method runs without an `await`, so each is one
action; a call's admission and its result are separate. Time is counted (`Tick`)
only while the circuit is open, the only time it is read. `healthy` is the
dependency. `run[c]` is where coroutine `c` is in `StructuredModelRunner.run`:
its attempt, the error it would raise, whose text was streamed. The actions are
the awaits: asking and answering of the primary model, inside the breaker, and
of the fallback, outside it, then `Validate`. `Raised` is what the adapter makes
of a provider's status and body: a plain request parses the body first
(`Unread`), a streamed one looks at the status first. `ledger` is the usage records.

**Conversation and ReviewPolicy.** `graph` is `GraphState` of the turn, private
to it, so that a node of the graph is one action and its edge is in it; `saved`
is what the back end stores between turns; `events` is the queue
`chat.py:generate` empties into `sent`, what the client has received. A message is
the kinds of terms the router finds in it (`Terms`); a draft is the number of the
turn that changed it last; an answer is the claims the review's patterns look
for (`Claims`), the evidence the kinds it has after normalisation. `GraphFails`
is the turn's time limit or an exception; `PersistFails` any of the three calls,
after its effect or before; `ClientLeaves` cancels the turn. `Decided` is a
decision that falls between turns. Overlapping turns are in `Confirmations`.

**Suppliers.** `tx[s]` is a transaction: what it read at its start, and what it
has written, whose locks it holds until `Commit` or `Rollback`. Checks that read
`tx[s]` are reads of the snapshot, those that read `entry` are `FOR UPDATE`.

**ToolCalls.** `call[c]` is a call as the agent (`result`) and the child process
(`tool`, `attempt`, `answer`) see it; `wire` the HTTP attempts on their way, which
may arrive late, out of order or after nobody waits for them; `age` the seconds
since a call was signed; `nonces` for how many seconds the gateway still keeps
each nonce in Redis (`Keep`, `NonceExpires`); `handled` (not in the code) at which
ages the gateway let a call pass to its handler. `Signed` is the check of the
timestamp. A refusal by the gateway itself (`UNAUTHORIZED`) is not one by the
handler (`REFUSED`).

**Analysis and Investigation.** `flight` is the batch `asyncio.gather` waits for,
`results` the collected results in their order. A plan is what the checks of
`AnalysisPlan` admit, any dependencies on earlier steps and any steps marked
independent. `inquiry` is an investigation with its budget and what was looked
up, called, skipped.

**Knowledge.** `document` and `parents` are the rows, `index` the version of each
point; `syncs[w]` is a run of `scripts/rebuild_knowledge.py` between two
transactions or calls of the index, each of which may fail having had its effect
or not (`IndexCall`), and the run may die at any point (`RunDies`). `search` is
the retriever between its awaits, `cached` its cache in the order of use.
`indexed_at` counts how often the index became ready. `lapsed` (not in the code)
tells that a search under the version of the other documents has asked the index
while this one was still, or again, in it.

**Recommendation and ReadModels.** `advice` is one recommendation: who asks,
which fields of the query each row of the history agrees with, the evidence so
far. A tool that answers with a failure ends the search (`CallFails`), one that
does not answer the whole recommendation (`SkillFails`). `reading` is one reader's
look at a request, by any of the queries that list, record, analyse or
recommend, or one query with exclusions.

**DeviceTerms.** `collection` is the vector store's collection and its points,
`rebuild` the script between two calls, any of which may be its last
(`RebuildFails`); `lookup` a recommendation's search for its device's name.
`indexed` and `lookup.quiet` (not in the code) are the names last indexed whole,
and whether a script ran during the lookup.

## 3. What the runs check

| Run | Question | Instance |
|---|---|---|
| `ProcurementSessions` | do two overlapping sessions ever see or leave what a serial back end would not? | 2 sessions, 1 request, versions to 10 (a completion and one more write), 6 tokens |
| `ProcurementTwoRequests` | is one token in two requests and two sessions used once, while the employee tables change? | 4 employees, 2 requests, versions to 2, one change of staff |
| `ProcurementLifecycle` | review rounds, evidence of each stage, the log | 1 session, two managers, quantities 1 and 2, versions to 11, 8 tokens |
| `ProcurementStaff` | who can act, and who is notified, while an administrator changes employees? | the same life, one quantity, one change of staff at any point |
| `Notifications` | is a notice ever stranded, sent again once recorded, or never settled? | 2 notices, 2 runs, batches of 1, 3 retries, a crash, a resend |
| `Confirmations` | only what was confirmed, once, and told truly? is every request answered? | 2 decisions, 2 turns, 1 lock, 2 actions, 2 failing decisions |
| `Sessions` | is a completed session final; is what was saved last what is read and kept? | 2 sessions, 2 opening and 3 other requests, 2 saves, a loss, a crash |
| `ModelCalls` | one probe, late results, recovery; does a run end, ask the fallback, and leave its record exactly with an answer? | 2 coroutines, threshold 2, 1 retry, a fallback, 3 generations |
| `Conversation` | is the pending action the complete draft that is shown; is no complete draft lost; one answer and one end for each stream? | 2 turns, with and without models and retriever, three pairs of limits |
| `Services` | the properties of its eight parts, below | 2 sessions, 3 tokens, 1 entry; 1 call, 2 retries, limits of one second; plans of 3 steps; 6 budgets; 1 sync run, 1 failure, 2 versions; 3 rows of history; 4 device names, 2 rebuildings |

In `Services`: a blacklist entry changes once, by who may release it
(`ReleasedForGood`); the gateway lets a tool call pass once at most, however
often and late its attempts arrive, but for one second that two limits of the
same length leave open, and the handler's answers are to calls that passed
(`CarriedOutOnce`); a call ends whatever hangs (`CallsEnd`); a step runs after
what it depends on and not again (`CalledWhenReady`); an investigation keeps its
budget and is called complete only if nothing was skipped or failed
(`CompleteWithinBudget`); a document that is ready is indexed whole
(`ReadyIsIndexed`), an answer has the evidence of the knowledge it is given
under, from the cache too, and of a document that may not be read none, unless a
search under the version of the others met it in the index (`AnswerIsCurrent`);
the limits of the search stages leave out no newer row, suppliers of one name
are not mixed, and with a whole index the device is searched for by the names of
the history (`EvidenceIsKept`); what is listed, recorded, analysed or given to a
manager as evidence of suppliers may be opened by its reader, and the other
evidence, which is of any building, shows supplier, price and terms to managers
and purchasers only (`ReadersStayWithin`).

The bounds (`MaxVersion`, `MaxTokens`, `MaxAdminOps`, `MaxGeneration`,
`MaxCrashes`, `MaxResends`, `MaxActions`, `MaxLost`, `MaxSessions`, `MaxSaves`,
`MaxLosses`, `MaxTurns`, `MaxTime`, `MaxSuppliers`, `MaxEntries`, `MaxSyncs`,
`MaxBreaks`, `MaxRebuilds`) cap counters that the code leaves open. They are
chosen so that the case the property is about occurs: eleven versions are a
draft, its saves, a rejection, a resubmission and a completion; ten let two
sessions overlap in every stage and after the completion, which needs nine; two
quantities let less be received than was ordered; a token is inserted with the
second version of a request; a circuit needs `threshold` failures, a probe and a
call left over from before; a notice needs to fail, be given up and be resent
while another run holds it; a second execution needs two confirmations of one
action, a stale turn one action drafted by another. A draft made in one turn and
lost, changed or confirmed in the next needs two turns; an entry released twice
needs two transactions that both saw it unreleased, and a second entry adds
none; two retries leave one on its way while another is answered, the calls of a
turn share nothing but their session, and limits of one second let signature and
nonce expire in every order; three steps are the least in which two run in
parallel before or after a third; a point left over needs a version with two
children replaced by one with a single child, and one failure between; a point
of an older history needs a second rebuilding. Every property has a mutant of
the code that violates it within its run.

What the runs show: the version compared in one row's `UPDATE` does protect the
five tables of a request, so the workflow is serial, and nobody's handler is
left unable to act but by an administrator's write to that very employee; the
circuit breaker and the outbox keep what they promise under every interleaving
of the instances; a confirmed action is carried out once, and answered truly,
until a turn overtakes a decision, and again only after an answer that said it
had failed; the state of an agent session survives as long as nobody opens the
session while another request saves it; signing a request once makes its retries
harmless, at the price of a refusal instead of an answer; the draft a
conversation shows is the one it confirms, across failing turns; the order of
the two stores in `sync_document` is safe against every failure of one run, and
`indexed_at` in the cache's key is what makes cached answers right.

### Where the program differs from what it says

Each of these runs expects a violation of one property, quoted from a document
of the repository in `PROJECT.json`:

- `ConfirmationsConsumedToken`: a turn that began before a confirmation saves its
  older state after it, and the consumed action is pending again.
- `SessionsTwoActive`: the employee's row is locked, and then the sessions are
  read from a view older than the lock, so the same conversation is opened twice.

The models contain the following as the code has it, without a run of their own:

- The manager may change the quantity after the price was saved, and the approved
  total is the old quantity's; a quantity cleared during the review leaves a
  request for which no purchase can be saved (`app/services/procurement.py:148`).
- Opening a session reads its state and sets it again without the lock
  `save_state` takes (`app/services/agent_sessions.py:96`); a redelivered message
  fails on its unique key, and a snapshot row can mix two states (`:120`, `:404`).
- An administrator may disable their own account (`app/services/admin.py:144`); a
  notice is sent again after a crash (`app/services/notifications.py:55`).
- A confirmation that failed may have created its request, or created it without
  filling it in (`agent_app/clients/procurement_backend.py:505`): confirming again
  creates a second one, and cancelling then says CANCELED of it. `ExecutedOnce` and
  `AnswersAreTrue` allow for such requests, and for no others.
- A plain request to a model whose answer has a status of 429, 401 or 5xx and a
  body that is not JSON, or no error message, is an answer that cannot be read,
  which is neither tried again nor given to the fallback
  (`agent_app/models/openai_compatible.py:68`, `:254`): an outage announced by a
  proxy's page bypasses the fallback, and `RunsEndRight` has the clause for it.
- A supplier can be listed twice by two managers at once
  (`app/services/suppliers.py:230`), which `knowledge/source` describes as one
  effective entry.
- A retry whose first attempt arrived is answered with a used nonce, although
  `tests/test_agent_backend_client.py:316` shows a retry that succeeds against a
  stubbed back end (`agent_app/clients/procurement_backend.py:597`).
- Signatures and nonces have the same limit, 300 seconds (`app/core/config.py:35`),
  and the age of the limit still passes: a call of a signature's first second may
  pass again in its last one, its nonce having just been forgotten.
- The history, contract, product and warehouse evidence of recommendations is of
  every building, with the number of the request it is from
  (`app/services/recommendations.py:86`, `:173`, `:256`): who has the role sees
  requests whose detail is closed to them.
- A batch of parallel steps may pass `max_tool_calls`
  (`agent_app/analysis/executor.py:61`); so may an investigation within a turn,
  which the graph counts as one call.
- Two synchronisations of one document at once can mark it ready with mixed
  points; a retired document whose points could not be deleted keeps them
  (`app/services/knowledge_sync.py:108`, `:195`). The version of the knowledge
  leaves out every document that may not be read
  (`app/repositories/knowledge.py:20`), so it is the same before and after the
  points of a retired one are deleted: what a search finds in between is cached
  under it and served afterwards.
- `emitted_delta` is reset with each attempt, so that a streaming caller would
  see the text of a failed attempt and of the next one
  (`agent_app/models/runner.py:107`); no role of the program passes a handler.
- A streamed answer is sent as it is written, and reviewed afterwards
  (`agent_app/models/roles.py:315`, `agent_app/graph/service.py:1580`): for a
  stream the review withholds nothing. An answer without sufficient evidence
  passes when the model's review raises no issue
  (`agent_app/graph/service.py:912`), and when the review itself fails it is
  answered as `REVIEW_UNAVAILABLE`; `max_tool_calls` of one leaves no call for
  the detail of a request that was searched for (`:1439`).
- A turn whose state was saved and whose snapshot failed reports an error and
  keeps the state (`agent_app/api/routes/chat.py:385`).
- A rebuilding of the device names' index that dies leaves it missing or half
  full, and as a search by meaning has no threshold, a name that is missing is
  replaced by those of other devices of its profession; a name found by its
  spelling is searched for in the one spelling the index kept
  (`agent_app/device_terms/service.py:51`, `app/repositories/recommendations.py:313`).
- A recommendation of suppliers looks at three times its limit and may return
  fewer although more would qualify (`TopSuppliers`); a tool that gives no
  answer ends a recommendation without what was found before
  (`agent_app/skills/procurement_recommendation/service.py:443`); a manager's
  own request in another building is in their list and not in their records
  (`IsRecordOf`).

### Fairness

Safety is checked without fairness. For liveness:

- a call through the circuit breaker ends (`asyncio.timeout` and the tools' own
  timeouts), time passes, a run goes on after each await, and new turns come
  (`RunnerFairness`);
- someone keeps starting dispatch runs, the gateway's calls time out, and the
  bound on crashes makes them finite;
- every call of the back end returns or times out
  (`procurement_backend_timeout_seconds`), and `async with` releases the lock
  whatever happens in it;
- a turn's task and the generator of its stream are scheduled (`Fairness` of
  `Conversation`): the task has a time limit, which is one of its steps;
- an analysis goes on, the child process is started or not, and the time limits
  of the calls expire (`GoesOn`). Nothing is assumed of the child process, the
  back end or the network.

## 4. What is proved

Every invariant and every action property that a passing run checks is also a
theorem: for every value of the constants, under the named assumptions of the
modules, which TLC evaluates in every run. A theorem that needs more says so in
its ASSUME; these hypotheses are named below, and the passing runs satisfy them.

### The back end

**`ProcurementProofs`**, first about one session's commit. `TypeCorrect`, and
`VersionIsEnough`: a session whose snapshot has the stored version has the stored
request. The inductive `VersionInv` adds that a snapshot is never ahead of the row
(`SnapshotsBehind`); each operation fails on the version or writes a new one,
which is shown operation by operation on the rows of one request, with no
session in sight (`Successors`). `BackEndIsSerial` follows: a committing handler
has read what is stored, so its step is a step of `ProcurementSerial`, and every
other step leaves `req` alone.

The same split carries the rest. A handler's effect on a row is a relation
between rows (`Writes`), and since the row it read is the row it replaces, every
step of the back end is such a write or none (`StepWrites`). The invariants are
then ones of a single row:

- `RoundsInv`, for `RoundsStayInOrder`: all rounds but the last are rejected, and
  the last is open only under review. It adds the round's status, from which the
  handler decides whether there is a round to work on.
- `EvidenceInv`, for `EachStageHasEvidence`: an execution or a receipt exists
  only from its stage on, and by then the quantity it was measured against is fixed.
- `HistoryInv`, for `LogTellsTheHistory`: a draft or a rejected request is in its
  applicant's hands, so that the next row of the log is by whom the last assigned.
- `FinalInv`, for the rows logged without a version compared: what a session reads
  as completed is what is stored, so they stand under completed requests.
  `BackEndIsSerial` needs it too.
- `PeopleInv`, for `HandlersCanAct` and `CompletionIsNotified`: the people a
  request names have the rights of its stage, or are employees an administrator
  has written to (`Touched`), and its approvers are exactly the last reviewer. The
  administrator may act at any time, between a session's view and its commit too,
  where the old view names someone who has lost the role since.

`ApprovedIsFinal` needs no invariant beyond `VersionInv`; `TokensAreUsedOnce`
needs that a write's token is in no stored log, which the unique key checks on
the rows of the moment.

**`NotificationsProofs`.** `NoNoticeStranded`, from an invariant on the
combinations of status, count and wait a row may have; `SentForGood`, from one
that a run's batch holds rows it has locked and that were due.

**`AgentSessionsProofs`.** `LocksInv` relates where a request is to the lock it
holds: `SessionsTypeOK`, and `NothingAfterCompletion`, because who writes to a
session holds its row and has found it active under the lock. `ReadersGetTheLatest`
is about the state: `HistoryInv` numbers what was saved, and `KeptInv` says
that Redis has the latest unless the completion is about to commit (`Kept`), that
a reader under the lock has it too (`ReadIsLatest`), and that the one request
that opens found nothing to restore (`OpenedOnce`). `KeptInv` is claimed only of
states in which nothing was lost and no session opened again (`Undisturbed`, part
of the property), and fails otherwise: the code overwrites a later save then.

### The agent service

**`ConfirmationsProofs`.** `TypeCorrect` and `OnlyConfirmed` hold for any
number of locks: a request about to execute was judged by its own id and
token. `AnswersTrue`, `CarriedOutOnce` and `ConsumedTokens` assume `OneLock`: the
service runs as one process (`Dockerfile:26`, `compose.yaml`), whose locks are
named after the platform identity and the conversation. Turns overlap decisions
as they like, users click whatever they see, and calls fail. The invariant
`LockInv` says that the decision at work holds the lock, alone, and has read the
action it names (`Locked`), that what is named was drafted (`Named`), and, until
something is overtaken, that the pending action is undecided and that what was
recorded of an action accounts for every request that carried it out
(`Faithful`).
`ConfirmationsConsumedToken` drops only the last condition, and finds the
violation.

**`ModelRunnerProofs`.** Of the breaker alone: `ExactlyOneProbe`,
`ClosedExactlyBelowThreshold`, `LateResultsAreIgnored`, because no token is of a
generation to come and a half-open circuit has one token of the present one.
`RunsUseTheBreaker`: the runs are a client of the breaker, every step of
`RunnerSpec` is one of its specification or a stutter, so these hold beneath any
number of runs. `RunsEndAsConfigured` adds `Sound`: who answers by the fallback
asked it, and a run that ends without having asked it, and without text shown,
ends with an answer or with an error no fallback covers, an outage's answer that
cannot be read among these.

**`ConversationProofs`.** `PendingIsWhatIsShown` and `CompleteDraftsStay`, from
`DraftInv`: until its work is done a turn has the draft that was stored when it
began, and until it stores its state it has lost no complete one; a decision
falls between turns, a failure leaves what is stored. `OneAnswerPerTurn`,
from `StreamInv` on the events sent and queued together (`Shaped`: the text first,
nothing but the end mark behind a terminal event), with what is there by the
node the turn has reached. `Limits` is any set of limits that is not empty.

### Services

**`ServicesProofs`** has a section for each part. The composition implements
the specification of each (`ServicesImplementTheirParts`): the others' steps are
stuttering steps, so an invariant proved of a part holds in `Services`.

- `ServicesTypeCorrect`: every part's types, and that a blacklist entry has its
  supplier and a row of the log its entry (`RowsExist`).
- `EntriesAreReleasedForGood`: what the open transactions have written can all
  be committed, in any order (`WritesCanCommit`): their tokens are new and
  differ, and so do the entries they release. It is what the row locks and the
  unique key are for, and the check of the snapshot alone would not give it.
- `OnceForAll`: the nonce of a call that passed, the same for all its attempts,
  outlives its signature, or is forgotten in the signature's last second, which
  leaves the one call of the first second that passes again (`NonceKept`); an
  answer of the handler is one to a call that passed (`Records`). It assumes of the
  limits only that a nonce is kept no shorter than a signature is valid
  (`ToolCallsAssumption`); kept longer, nothing is left open.
- `StepsAreCalledWhenReady`: no step that succeeded is still to be tried
  (`NotAgain`), the revised plan's included. The order of the results follows from
  the batch being of ready steps only.
- `InquiryWithinBudget`: how far the evidence has come, by phase (`Progress`).
- `RecommendationsKeepEvidence`: a row of the evidence was found by its stage,
  together with every newer row the stage matches (`FoundByStage`): the newest n
  rows of a stage have every newer one with them, whichever of them were evidence
  before and used the limit up. And the index holds the
  deduplicated names of the history while it is whole (`WholeHistory`,
  `RebuildOK`), for any number of rebuildings that fail at any step.
- `ReadersKeepToTheirRights`: a case analysis over readers and rows, evidence
  that is given by role among them; the exclusions hold because they are decided
  on all the rows and not on the shown one.

**`KnowledgeProofs`.** `ReadyDocumentsAreIndexed`: by the phase of a run, which
points the index can have (`SyncOK`) and that an active row's parents are saved
(`ActiveIsSaved`). `AnswersAreCurrent`: what the cache and a search under way
hold is of the knowledge its key names (`FoundIsFresh`), because no `indexed_at`
is given twice and no key is of a time to come; and under the version without
the document it is nothing, as long as none was found there (`lapsed`), because
a search that asks an index without its points finds nothing (`NothingFound`).
Both assume `OneRun`, one run of the synchronisation at a time, as the instance
does: with two at once neither holds of the code. `KnowledgeTypeCorrect` does
without.

### Only model-checked

The liveness properties: `RecoversOnceHealthy`, `EveryRunEnds`,
`EventuallySettled`, `EveryDecisionAnswered`, `EveryStreamEnds` and `CallsEnd`.
They rest on fairness and so on ENABLED, which is out of the provers' reach.

## 5. What is not modelled

`PROJECT.json` lists every component with its status. Within the modelled ones
these are left out: the administrator's own action tokens, overview and
`create_employee`; existence and status of suppliers where a request names one
(`Suppliers` and `Procurement` are not composed: a review or a purchase checks
only that the supplier exists and is enabled, and no operation changes that); the
purchase request a session is linked to and the listings of sessions; the front
end, which does not stop its user from clicking while a turn runs, nor does the
model. In `Confirmations` what a chat turn computes is reduced to what it leaves
pending; `Conversation` has the rest for turns that follow each other. The
versioned kinds of action `execute_confirmed_action` knows besides the creation are
drafted by no turn and left out; so is a save of the state that times out at its
caller and takes effect later. `ToolCalls` has one clock for agent, back end and
Redis, and one secret. `Analysis` has the deterministic planner the program is
built with (`agent_app/analysis/service.py:39`), not the `ModelBackedAnalysisPlanner`
nothing constructs (`planner.py:353`). What the review makes of an answer's claims
is modelled by what follows from it for the turn, and no property is about it:
its verdict is the very test a property could state. No module models
the answer of a handler as sent before or after its commit; no property depends
on it.

Not modelled at all: the parsers of quantities, device names, dates and fields
in messages (`agent_app/domain`, `device_terms/text.py`, `time_parser.py`), which
are functions of strings; statistics, thresholds and the texts of summaries and
prompts; vectors and ranking, which are external services; observability,
evaluation, front end, migrations and demo data.

## 6. Plan

The model covers the components that keep state or run concurrently, and what
its runs check of safety is proved. What is left:

- proofs of what the liveness properties rest on and a prover can reach: the
  variants that decrease with each step of a run, a turn or a notice, and that a
  request in none of its final places has a step it can take;
- a form of `ReadyDocumentsAreIndexed` for runs of different documents, without
  the hypothesis `OneRun`;
- a model of more than one synchronisation at a time, and of a decision inside a
  turn of `Conversation`.
