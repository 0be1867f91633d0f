# HonorClaw: verification project

TLA+ models of HonorClaw (the TypeScript monorepo in `src/`), the TLC
configurations that check them, and TLAPS proofs about them. `CP/` below stands
for `src/packages/control-plane/src/`.

## 1. The system

HonorClaw runs AI agents behind a control plane. A user's message is stored in
PostgreSQL and published on Redis; the agent loop answers it by asking an LLM
router and by sending tool calls to a tool execution layer (not in the
repository); people approve some of the calls. Around this run background
services: reaper, scheduler, security monitor, webhooks, audit, notifications.

Everything in the control plane is one Node.js process: handlers are
asynchronous functions, a step runs without interruption up to its next
`await`, and the handlers of different requests, subscriptions and timers
interleave at those. What they share is PostgreSQL (one statement is atomic;
transactions are hardly used), Redis (keys, lists, publish/subscribe: a
message nobody listens for is gone) and fields of objects in memory.

### Components

| component | state | operations | interacts with |
| --- | --- | --- | --- |
| Agent loop `CP/agent-loop.ts` | a handler per message: iteration, messages array, token total; the shared connection `blockingRedis` | `handleMessage`, `executeToolCall`, `publishOutput`, `publishError` | sessions, guardrails, LLM router, tool layer, approvals, client |
| Approvals `CP/api/approvals.ts` | table `approval_requests` | approve, reject, list | loop, monitor, chat page |
| Guardrails `CP/guardrails/*` | none | `checkInput`, `checkMultiTurnInjection`, `redactPII` | loop |
| LLM router `CP/llm/router.ts`, adapters `CP/llm/adapters/*` | adapters by provider, their keys, a cached token | `handleRequest`, `loadProviders`, `complete`, streams | loop, providers, secrets |
| Sessions `CP/sessions/*`, `CP/api/sessions.ts` | `sessions`, `session_messages`, `session_archives`, `session:<id>:context`, the set of active sessions | create, sendMessage, end, drainAll, reap, synchronous request | loop, chat, CLI, scheduler |
| WebSocket chat `CP/main.ts` | per connection: current session, subscriptions, rate window | messages, subscribe, tool approval, forwarding | sessions, loop |
| Scheduler `CP/scheduler/*` | `scheduled_runs`, Redis locks | due runs, headless session | sessions, loop |
| Security monitor `CP/security/monitor.ts` | Redis counters, baselines | violations, anomalies, approval timeouts | approvals, notifications |
| Notifications `CP/notifications/dispatcher.ts` | `notifications`, preferences | dispatch | monitor, audit |
| Webhooks `CP/webhooks/*` | subscriptions with a failure counter | dispatch, retry, disable | every service with events |
| Audit `CP/audit/emitter.ts`, built-in sink | buffer | emit, flush | all |
| Authentication `CP/auth/*` | users, lockout counters, sessions by token, TOTP secrets | login, register, refresh, second factor | all APIs |
| Users `CP/api/users.ts`, roles | `user_workspace_roles` | add, change, remove | authentication |
| Manifests `CP/api/manifests.ts` | versions per agent | save (read the next number, insert), list | editors, rollback of the CLI, sessions, loop |
| Agents, skills `CP/api/agents.ts`, `CP/api/skills.ts` | `agents`, `skills`, `agent_skills` | create, update, install, apply, remove | pages, sessions |
| Secrets, integrations, models APIs | `secrets`, `custom_integrations` | set, rotate, delete, define, test, reload | pages, router |
| Policy `CP/policy/*` | rate windows in Redis | enforcer, sanitizer, limiter | meant for tool calls, not wired into the loop |
| Orchestration `CP/orchestration/*` | delegations | delegate, narrow | not wired in |
| Memory, RAG `CP/memory/*`, `packages/rag` | `memories`, chunks | archive, inject, ingest | sessions, embeddings |
| Agent runtime `packages/agent-runtime` | context window, draining flag | message loop in the isolated container | Redis, LLM router |
| Providers `packages/providers/built-in` | stream cursors, cache of secrets, budget counters | publish, subscribe, get, set | loop, runtime |
| Slack, email `packages/channels/{slack,email}` | keys of threads; unseen mails, threads in memory | events and polls in, replies and decisions out | Redis, loop, mailbox |
| Other channels `packages/channels/*` | clients, callback URLs, references, pending messages | inbound, outbound, escalations, polls | API |
| CLI `packages/cli` | archives, a directory to unpack in | backup, restore, bundle, upgrade, key rotation, rollback | API, database, tools of the system |
| Web UI `packages/web-ui` | per tab: who is signed in, forms, lists, a socket with its timer | pages | API, WebSocket |

### Behaviours that are hard

* Two messages of one session have two handlers at once; they share the message
  log, the token counter and the output channel, and every session shares one
  connection for blocking commands.
* An approval is a row that a polling handler, administrators, the monitor and
  the chat page act on, each with a clock or a schedule of its own.
* Publish/subscribe keeps nothing: who subscribes late hears nothing.
* Hardly any sequence of statements is a transaction: an exception or a crash
  between two of them leaves the first one's effect.
* Locks and deadlines are wall-clock durations, and what they bound is not.
* Pages keep what they have read and send it back whole; nothing tells them what
  another page does, and they act on answers that come late.
* Channels and the chat reconnect, restart and poll again while what they had
  under way goes on.
* Archives are unpacked in one directory that failures leave behind.

Section 3 names, for each modelled component, the properties that make it
correct. `PROJECT.json` lists the hazards with their lines.

## 2. Plan

In the order of what matters most; modules are parameterised by constants, have
one action per operation, and use no RECURSIVE operators, so that they can be
proved about.

| step | modules | what for | status |
| --- | --- | --- | --- |
| 1 | `GatedCall`, `ApprovalGate` | approvals: abstract promise, and the implementation that polls | done, proved |
| 2 | `AgentLoop` | messages, requests to the model, tool calls, tokens | done, proved |
| 3 | `SessionLifecycle` | create, end, drain, reap, of several instances, against crashes | done, proved |
| 4 | `ScheduledRuns` (extends it) | the lock with a time limit against longer runs, headless sessions | done, proved |
| 5 | `WebhookDelivery` | retries, counter, disabling | done, proved |
| 6 | `WorkspaceAccess`; `Lockout`, `BrowserSignIn` | first and last administrator; failed sign-ins; who a tab says is signed in | done, proved |
| 7 | `Delegation` | narrowing as pure operators, and the handover around it; a delegate has no more than its delegator | done, proved |
| 8 | `AuditBuffer`, `StreamQueue` | loss, order and duplication | done, proved |
| 9 | `AgentRuntime` | the isolated runtime: overlapping handlers, context window, checkpoint, shutdown | done, proved |
| 10 | `LlmAdapters`, `ModelProviders` | a conversation through seven formats; keys from a page into the router's adapters | done, proved |
| 11 | `ManifestVersions`, `AgentEditing`, `Integrations` | tables that several pages change, and the loop that obeys them | done, proved |
| 12 | `ChatConnection`, `SlackThreads`, `MailPolling`, `ChannelAdapters` | reconnections, threads, polls, queues | done, proved |
| 13 | `Archives` | backups and bundles, packed, damaged, unpacked | done, proved |

Proved means every safety property that a run checks; liveness is checked only
(section 5). Worth modelling next: the pages of the audit viewer and of
delegations, and the commands of the CLI that keep files.
Components are put together where they share state; runs are few and each asks
a question.

## 3. What is modelled

### `GatedCall`, `ApprovalGate`: the human approval gate

`GatedCall` states the promise: a call of a tool with `requiresApproval`
starts only on a granted verdict, a verdict is given once, a call ends once.
`ApprovalGate` is the code: `stage` is the position of a handler in
`handleMessage` (`CP/agent-loop.ts:271-364`), `row` its row of
`approval_requests`, `due` and `overdue` the deadline of the row on the
database's clock and the limit of the poll on the handler's, `tool` the external
layer's side, `reply` and `announced` what the model and the client are told.
`Approve` and `Reject` are `CP/api/approvals.ts`; `MonitorSweep`,
`MonitorNotify` and `MonitorFails` are `checkApprovalTimeouts` of
`CP/security/monitor.ts`; `ChatDecision` is the message of the chat page, which
`CP/main.ts:395-406` publishes where nobody listens. `Fail` ends a handler with
an exception or with the process. Several handlers, one call each.

The properties: nothing runs without an approval that still stands; what the
model is told matches what ran; no request stays open once its call is answered;
notified timeouts did time out; a resolution is final; every step is a step of
`GatedCall`; every call ends and every request is settled.

### `AgentLoop`: a message from request to answer

One handler per message (`pc`), with its iteration, its calls, its messages
array (`view`) and its tokens. `log` is `session_messages` by session,
`tokensUsed` the counter in `sessions`, `contexts` the Redis context, `brpops`
the commands waiting on `blockingRedis` in order: only the first is executed,
so a handler's answer may be there while it still queues. `client` is the API
request of a synchronous send, which takes the first event of the session's
channel. `Listen`, `SendStore` and `SendPublish` are `CP/api/sessions.ts` with
`sendMessage`; `LoadContext` to `Reply` follow `handleMessage` from top to
bottom, with `Flagged` for `checkMultiTurnInjection` on the conversation it is
given; `RouterRespond` is the LLM router; `Fail` an exception anywhere. The gate
is one step, `Gate`, with either outcome: `ApprovalGate` is its detail.

Abstracted: text is a member of a small set of kinds; what checkInput rejects,
which message has PII, which signs the detector sees and what the model answers
are constants (`Rejected`, `WithPii`, `Signs`, `Responses`). An insert and the
publish that directly follows it are one step for tool messages. A request's
fields other than its messages are left out. `Patient` messages are sent only
when nothing of their session is in progress, which is what a person does who
waits for the answer.

### `SessionLifecycle`: from creation to archive

Several instances of the control plane (`Nodes`) share the tables and Redis.
`row`, `archived` and `context` are `sessions.status`, `session_archives` and
the Redis context; `stage` is how far `SessionManager.create` has come, statement
by statement; `tracked` is the set `activeSessions` of each instance and `toEnd`
what `drainAll` has before it; `todo`, `current` and `at` are the rows a reaper
has selected, the one it is at, and its next statement. `EndAt` is
`SessionManager.end`, called by DELETE and by the drain; `Scan`, `Archive`,
`EndRow`, `Clean` and `ReapFails` are `CP/sessions/reaper.ts`; `Shutdown` to
`Exit` the handler of SIGTERM in `CP/main.ts`. An exception, a crash or a
shutdown (a mishap) may come between any two statements.

The properties relate what is written at different places: an active session
whose creation got that far has its context, one without its context is in the
archive, one that an instance created and that is active is known to its drain,
and no session is active for ever, whoever died.

Abstracted: messages (they are in `AgentLoop`), so an archive is there or not;
a session is past its maximal duration or not, at any moment after its INSERT,
since a manifest may set any number of minutes.

### `ScheduledRuns`: the scheduler on top

Extends `SessionLifecycle`: a run's session is a row that the reapers see like
any other. `step` follows `executeSchedule`, `createHeadlessSession` and
`waitForCompletion`; `lock` is the Redis key with the run whose value it has,
`fresh` the runs whose lock lifetime has not passed. The completion is an event
of somebody else (nothing in the repository publishes it), heard only once the
run has subscribed. GET and DEL of the release are two steps. All runs are of
one agent, since the lock is per agent. `NoLockLeftBehind` says that the lock
never names a run that is over in a live process.

### `WebhookDelivery`: the deliveries of one subscription

`exists`, `enabled` and `failures` are the row of `webhook_subscriptions`, `log`
the rows of `webhook_deliveries`, which go when the subscription is deleted.
`phase` and `attempt` follow `deliverWithRetry` for each event; `Send` is
`deliver` with either result, `LogDelivery` the INSERT, which the foreign key
refuses for a deleted subscription, and that is what ends its deliveries.
`Count` is the UPDATE with RETURNING and `Disable` the decision taken from what
it returned, one statement later. `Edit` is what the requests of administrators
share. A delivery may be cut off by an exception or by the end of the process.
URLs, payloads, signatures and changes of the subscribed types are left out;
subscriptions are independent of each other, so there is one.

### `AuditBuffer`: from emit to the table

`buffer` and `flights` are the events in memory and the batches whose INSERT is
under way, `rows` counts rows of `audit_events` by event, `givenUp` has the
events of batches that the error log speaks of; a statement may fail and have
been executed. `process` is the shutdown: `LastFlush`, `Close` when that flush
has ended, `Exit` with whatever else is in flight. Order in the buffer is left
out: the batch is one statement.

### `StreamQueue`: the queue provider

`given` and `pending` are Redis: what the group has been given, and the pending
list of each consumer. `place` and `batch` are the poll loop: `Poll` sends the
read, `Read`, `ReadNothing` and `ReadThrows` are its outcomes, `Handle` and
`HandleThrows` the handler's (a message that does not parse throws too), `Ack`
and `AckThrows` those of XACK. An unsubscribe is seen at the head of the loop.

### `AgentRuntime`: the isolated runtime of a session

`conversation` is `session.messages`, `checkpoint` the Redis key
`session:<id>:state`. A handler per message (`at`) is where it awaits; GET,
BLPOP and SET of all handlers go over one connection, whose waiting commands are
`commands`: the first one is served, and a BLPOP in front holds up the others
until it is answered or over. A handler works on the conversation itself
(`shared`) or on the `copy` that `Prepare` selected; this is what
`SmartContextManager.prepare` returns in a short and in a long conversation.
`Receive` to `Save` are the loop of `runtime.ts`, `Answer` and `Execute` the
router and the tool layer, `LoseConnection` a Redis that stays away for longer
than the client retries, `Drain` to `Exit` the control messages and SIGTERM.
Entries are kinds with an estimate of tokens each. The conversation has no
system messages, since nothing adds one; `MaxRounds` bounds a loop that the code
does not bound.

The properties: a request shows the results of all its calls; the selection fits
the budget and keeps the recent messages; a checkpoint never goes back and has
the exchange of each message that is done; messages and shutdowns end.

### `WorkspaceAccess`: who administers a workspace

`accounts`, `deploymentAdmins` and `role` are the tables `users` and
`user_workspace_roles` for one workspace, `access` what the token of each user
says. `todo` has, per request under way, what its statements have returned:
every statement of `POST /users`, `PATCH /users/:id/role`, `DELETE /users/:id`,
of registration and bootstrap is a step, and `RequestCut` ends a request between
two of them. `others` is the count of administrators, kept as the set it
counted, so that a property can speak of it. Requests are authorised by claims.

`LastAdminNeedsOverlap` says how far the guards reach: alone, a change or a
removal leaves an administrator. Two at a time need not, see section 6.

### `LlmAdapters`: a conversation through a provider's format

A behaviour is one session with one of the seven providers. `rows` is
`session_messages`, `view` the handler's array, `heard` what the provider
answered, as it gave it; `Wire` is what `complete` of `CP/llm/adapters/*` makes of
the array, `ReplyOf` what it makes of an answer. `Speak` to `HandlerLost` are the
steps of the loop and of the adapters: the pull of a missing Ollama model, the
chunks of a stream, the access token of Vertex. A text is a sequence of pieces;
a call is an id and a name. `ConversationSurvives`: a provider is shown its own
answers in the order it gave them, and every call with its result, as far as
its format can say so; the module names the two exceptions, a handler that was
lost and a history that begins between a call and its results.

### `ModelProviders`: keys from a page into the router

`secret` is the table by path, `adapter` the router's map, `loads` the calls of
`loadProviders` with the rows they have read, `providerPage` and `known` the
state of `LLMProvidersPage.tsx`. `PostSecret`, `DeleteSecret`, `Reload`,
`Reloaded` and `FinishSave` are the requests of a save or a removal, one after
the other; `SetElsewhere` to `DeleteElsewhere` the page of the secrets and the
command line, `Restart` the process. `SavedIsServed`: when a page says that a
provider is configured, requests go out with the keys in the table, unless
another writer, a restart or a failed load came in between (`spoiled`).

### `ManifestVersions`: the manifest under several editors

`versions` are the rows of `capability_manifests`, `sheet` what each page shows
and is doing, `offered` the tools of a running session's context, `turn` the
manifest a message was begun with. `LoadSheet`, `Edit`, `Save` and `SaveReturns`
are `ManifestEditor.tsx` and `VisualManifestEditor.tsx`, `ReadNext` and `Insert`
the two statements of `CP/api/manifests.ts:18-41`, `Rollback` the command line's,
`LoadManifest` the loop's. `NewestIsObeyed`: a save that succeeded is the one row
with its number, whoever saved at the same time, and a call asks for approval
when the version that was newest as its message began wants one and is one the
schema takes. `WorkspaceProofs` has the proof.

### `AgentEditing`: agents, prompts and skills

`agent` is the prompt of the row, `installed` and `applied` the tables `skills`
and `agent_skills`, `editor` what each page of `AdminPage.tsx` and `SkillsPage.tsx`
shows and which request it waits for. Routes and answers are separate actions,
and an answer may be lost. `EditorTellsAgent`: a page that nobody got in the way
of shows the skills and the prompt that are stored.

### `Integrations`: definitions and credentials

`fields` is the definition, `stored` the paths with a row in `secrets`, `board` a
page of `IntegrationsPage.tsx` with what it is doing. A save is one request for
each field and one for the marker; a deletion is two statements; tests, reloads
and redefinitions come in between. `CredentialsGoWithIntegration`: a deleted
integration leaves no credentials unless a save went on beside the deletion or
its second statement failed (`escaped`), and a page nobody overtook shows
"connected" only where there is a credential.

### `ChatConnection`: the chat page and its sockets

`page` has the references the page keeps (the agent selected, the socket, the
timer), `sock` both ends of each socket, `timers` the closes whose reconnection
is pending, `chat` what became of each message. `SelectAgent`, `LeavePage`,
`Opens`, `Closes`, `Reconnects` are `ChatPage.tsx:63-147`; `SendChat` to `PassesOn`
the server's handler (`CP/main.ts:410-459`), which may overlap with that of the
next message. `ChatIsHeard`: words go to the agent the page shows until a
socket has been opened again for an earlier one, and the answer to a message
that waited for the one before arrives on its socket.

### `SlackThreads`

`threadKey` is the Redis key of a thread, `handler` how far the delivery of an
event has come (`packages/channels/slack/src/handlers/message.ts`), `button` and
`asked` the clicks on an approval message and what it shows. Input is published
before the output is subscribed to, and keys expire.
`PatientThreadHearsItself`: a thread whose writer waits is posted each answer
under its message, and no decision is shown that was not published.

### `MailPolling`

`inbox` is the mailbox, `poll` each poll with its connection and the mails it has
left, `threadMap` the threads in memory. A stop and a start give the adapter another connection
while an old poll still awaits an answer; the mark is set through whichever
connection there is by then. `MailsAreHandedOver`: what is marked seen was handed
over, a mail is handed over twice only when it could not be marked, and a mail
is of the thread of the one it answers, unless it or a mail it answers in turn
was handed over before the mail that one answers (`astray`).

### `ChannelAdapters`

One behaviour is about one of web, API, Teams, Discord and webhook: `line` are
the clients, callback URLs and references, `queue` what waits for a poll, `out`
what the control plane handed over, with the chunks of a text on Discord.
`LinesHearText`: each line receives what was sent to it once and in order, and
chunks together are the text but for blanks.

### `Archives`

`kept` are backups or bundles where they are kept, with the parts they have and
what was damaged since; `unpacker` the restores or installations under way, `held`
the archives in the one directory they unpack in, `database` and `configured`
what is in place. `UnpacksWhatWasAsked`: alone and after commands that cleaned
up, a command unpacks what it was given, puts in place all it has when it says
complete, and neither verifies what is damaged nor refuses after a change.

### `Lockout`

`failures`, `locked`, `mfa` are columns of `users`, `tries` the count per address in
memory, `attempt` the sign-ins under way: the read, the comparison, which takes
a while, and the write of what follows from what was read. `GuessesAreLimited`:
while sign-ins do not overlap the account counts wrong passwords exactly and
locks at the limit; overlapping or not, an address fails at most as often as
the limit and the sign-ins admitted before it allow.

### `BrowserSignIn`

`cookie` is shared by the tabs of a browser, `tab` has the page, the user of
`useAuth.tsx` and what each tab waits for; answers tell whose cookie went with
the request. `PageShowsTheSignedIn`: a page that waits for nothing shows the user
its requests are made for, unless the cookie changed behind its back or its
first answer came after that of a sign-in.

### `Delegation`

`Narrow` with its parts is `capability-narrowing.ts`, on records that say of each
tool whether it is listed, enabled, limited and approved, and of hosts, topics
and secret paths what the lists say; `Usable`, `Arguments`, `Reachable` and
`Discussed` are what a manifest then allows. `handover` and `child` follow
`AgentDelegator.delegate` statement by statement, while manifests are saved, the
target is archived and statements fail. `DelegatesNoMore`: what the delegate's
context is given, the delegator's manifest covers as it was read.
`NothingIsGained` states what the comment promises beyond that, and does not
hold (section 6).

## 4. Runs

| run | shows | instance |
| --- | --- | --- |
| `gate_safety` | nothing runs without an approval that stands, what is told is true, resolutions are final, the refinement of `GatedCall` | two gated calls: the monitor's sweep takes none, one or both; every other action touches one call |
| `waiting` | the gate lets every call go and settles every request; the runtime's requests, checkpoints and ends | a gated call and a free one; two messages with one round of up to two calls, a budget of 5 with results of weight 2, one lost connection |
| `loop_overlap` | whole requests; log, memory and tokens agree; every received message ends | two messages of one session, overlapping, two iterations, a gated call |
| `loop_patient` | histories of patient users are whole, the ends of messages are heard | three messages in turn, one rejected, one flagged, every kind of answer, two calls in one response |
| `loop_budget` | violation: a session goes on after its budget | two messages, budget 1 |
| `loop_pii` | violation: the request carries the message as typed | one message with PII |
| `loop_short` | violation: two user messages are scored as three | two messages, the second with three signs |
| `sessions` | contexts, archives, drains; every session ends | two chats created by one instance, reapers of two, two mishaps |
| `scheduled_runs` | locks of runs that are over; every run's session ends | two runs on one instance, one mishap |
| `scheduled_lock` | violation: two runs within their lock's lifetime execute at once | three runs on two instances, no mishap |
| `services` | deliveries, audit events and stream entries are accounted for whatever fails, and end | three events with one retry, bound of two failures, one edit, one mishap; three audit events, flush at two; two consumers, three entries in batches of two |
| `edges` | one property for each part around the core (adapters, administrators' pages, channels, archives, sign-in, delegation, administrators) | two pages, sockets, polls, commands, sign-ins, tabs or requests at a time; see below |

Three runs put modules side by side that share no state: `MCServices`,
`MCWaiting` and `MCEdges` choose in the initial state which of them a behaviour is
about, and the others rest. The budget of `waiting` is such that each stage of
the truncation is reached. Three deliveries are what it takes for one to succeed
between the two that fail; three audit events for two flushes in flight; three
entries for two consumers with a batch each, one of two.

`edges` takes apart what touches different rows of one module: the prompt of an
agent and its skills, the threads of Slack and its buttons, a chat with two
messages and one with three sockets. `RestingParts` gives a part at rest one
initial state, and `VIEW Moving` leaves the variables of resting parts out of the
fingerprint, which they do not change. It states safety only and assumes no
fairness. Its bounds: histories of up to six messages with a window of four,
so that a window begins in the middle of an exchange; two keys of one provider
and one of another, with two values; two versions of a manifest, and the edits
of a page while it saves; a chain of three mails, each of which answers the one
before, and two connections; texts of four characters with blanks anywhere and
a limit of two; three wrong passwords; manifests that differ from a plain one
in one thing each, for every pair; two administrators and two requests, which
an overlap of two demotions takes, one of the two requests being a change, a
removal or a registration. Where two of a kind are alike and their overlap is not
the question, `Next` lets one of them do less than the other. More pages or requests add interleavings of
the same pairs: every action touches one row, one path or one tab.

Properties that are two statements about one thing are conjunctions of named
parts: `ToldIsTrue` (`ReplyMatchesExecution`, settled requests, notified timeouts),
`SessionKeepsAccounts` (log against memory, tokens), `ActiveIsKept` (contexts,
drains), `AuditKeepsEvents`, `QueueAccountsForEntries`, `RequestIsSound`,
`NewestIsObeyed`, `ChatIsHeard`, `LinesHearText`, `ConversationSurvives`.

Deadlock is not checked: messages and calls are finite sets, and the system
rests when all have been handled.

The bounds: two iterations reach both the next request after tool results and
the fallback; `MaxHistoryMessages` is above the number of rows except in runs
that do not speak of whole histories; two handlers are enough for every race on
a queue, counter or log of which each action touches one entry.

Fairness is weak fairness of a handler's own steps and of timers
(`setTimeout`, `setInterval`, the time limit of a BRPOP), which Node.js and
Redis give while the process lives. None is assumed of people, of the LLM
router, of the tool layer, of failures (`Fail` may take a handler at any time;
liveness counts `lost` and `failed` as ends). For sessions: the reapers' timers
go on, a drain does, a session's age grows, and a process that ended is started
again by its supervisor (`src/docs/operations/disaster-recovery.md:44`). No
fairness is assumed of creators, requests, runs or completions: `EverySessionEnds`
holds by the reapers alone. `MaxMishaps` bounds exceptions, crashes and
shutdowns; without a bound a reaper could fail for ever, and the code promises
nothing then. Of the services: deliveries go on (a request has a time limit and
a pause is a timer), the audit timer fires and each statement is executed at
last, poll loops go on with a handler that returns or throws. None is assumed of
publishers, subscribers and administrators. Of the runtime: Redis serves the
commands of a connection in order, a BLPOP has a time limit
(`packages/agent-runtime/src/runtime.ts:79-83`), and the steps of the shutdown
follow each other; none of models, tools and messages. Two mishaps
are enough for a failed creation and a reaper that dies over it, or for a crash
of each instance.

## 5. Proofs

Every safety invariant and every action property of the passing runs is a
theorem, for all values of the constants that the named assumptions allow.
Where modules are put side by side for a run, `EdgesAreParts`, `WaitingAreParts`
and `ServicesAreParts` prove that each behaviour there is a behaviour of every
part's own specification, so that what is proved of a part holds of what is
checked.

Selections, sums and joined texts are recursive functions over sequences. The
library's induction over numbers takes a predicate, which the provers cannot
instantiate; `SequenceProofs` has it for a set instead (`SetInduction`: a set of
numbers with 0 and the successor of each member is all of them), proved from the
well-foundedness of the naturals, and shows that a function with given values
step by step exists (`RecursionExists`). From these follow the lemmas about the
operators of `Subsequences` (`KeepAppend`, `KeepConcat`, `KeepMembers`,
`KeepMapped`), which the other modules cite. That is why the models select with
`Keep` and a set, and not with `SelectSeq` and a predicate.

`WaitingProofs` proves, first for any set of calls, all safety properties of
`ApprovalGate` and the refinement. The inductive invariant `IInv` adds to the
types where the handler is (`StageInv`) and what its row can then be
(`RowInv`): a handler past the poll that read 'approved' has a row approved by
an administrator, because only pending rows are written. The only assumption is
`Gated \subseteq Calls`.

`AgentLoopProofs` proves, for any messages, sessions, answers and limits:
types, with the bound of the iterations; that the BRPOPs are those of the
waiting handlers, one each; that the end of a message is heard; and that a
request answers each call of its handler. The BRPOPs have no run: they are what
the other proofs rest on. The last has the strengthening that
the rows of a handler's calls in its array form whole blocks, with the last one
open exactly while the calls are being worked on. The assumption is
`ConstantsAssumption`: the shapes of the constants and that the limits are
positive.

`PatientHistoryIsWhole` needs more: for each session by itself (`SessionInv`), as
long as its users wait and no handler failed, one message is in progress at a
time, a handler in the loop has the log for its history, and the calls in the
log are answered but for those the one handler is working on. Handlers of other
sessions touch neither its log nor its histories.

`SessionKeepsAccounts` needs no patience. `Transcript` says of a handler that the
log has none of its rows before its loop begins, and from then on those that its
array has, in the same order: both are extended at the same time, and whatever
other handlers put in between is not selected. `TokensInv` is the property with
the finiteness of the messages that have begun; the sum over a set is shown not
to depend on the order it is made in (`SumsAgree`), so that it grows by what one
message counts (`SumWith`).

Of `AgentRuntime` it proves types, `CheckpointGrows`, `DoneIsSaved` and
`RequestIsSound`, for any messages, weights, rounds and lost connections.
`RuntimeInv` says that the waiting commands are those of the waiting handlers,
one each (`QueueOK`); that the checkpoint, and whatever a handler is about to
store, is a beginning of the conversation, the longer the later its SET is in
the queue (`SavedInOrder`), which is why the order of the queue is enough for
checkpoints never to go back; and that the entries of a message lie within what
its handler stores (`ExchangesSaved`). Its steps are those of one handler's
entries, of the queue, or of neither (`HandlerStep`, `QueueStep`). Of requests,
`Shown` says that the context of a handler has all its results, from its first
request on: a result is appended to the conversation and to the context in one
step, and results of a message come from its own handler alone. That a selection
fits the budget is proved of `Prepare` itself: what is taken are the newest
entries whose weights still fit (`NewestIs`). The assumption is
`RuntimeAssumption`: bounds are natural numbers, that of the tool calls positive,
and no message is the command "quit".

`ScheduledRunsProofs` proves, for any instances, sessions, runs and bound of
mishaps, types and the four safety properties of `SessionLifecycle` and
`ScheduledRuns`, for the specification that has both. `IInv` adds three facts.
`RowsInv`: whoever works on a row works on one that exists, so only an absent
row becomes active. `ReaperInv`: the row a reaper is at is archived, and past its
UPDATE it is over; it holds whatever other reapers and requests do, because a
row that is over is never active again. `VerdictInv`: a run that has been told
how its session ended knows a status. The assumption is `SessionsAssumption`:
chats and runs are different sessions, each of one instance.

`ServicesProofs` proves the types and all safety properties of the three
services, for any events, entries, consumers and bounds. Deliveries: an attempt
after the deletion is followed by a refused row (`LateInv`), and while the
subscription exists the log is as long as the attempts made (`HistoryInv`).
Audit: every event is in one place (`Places`), and the batch of the shutdown is
under way until it is done (`OwnInv`). Queue: what is pending was given out, to
one consumer (`GivenInv`), and a batch lies ahead of what its consumer has taken
up (`BatchInv`). The assumptions are those of the modules: bounds are natural
numbers, and the two that must be positive are.

`WorkspaceProofs` proves, for any users, requests, sign-ins, addresses, limits,
people and tabs, the types and the properties of three modules.
`LastAdminNeedsOverlap` of `WorkspaceAccess`: `RequestsInv` says what a request
remembers: one target, with an account once a role is to be given, and other
administrators than the target whenever it is about to take a role that was an
administrator's. One of those is still one, unless somebody else took the role.
`GuessesAreLimited` of `Lockout`: `LoneSignIn` says what holds while sign-ins do not
overlap: one is under way at most, it has compared against the count as it is,
and it is about to write the count there should be. `AddressBounded` adds to the
failures of an address the sign-ins that will count for it; a sign-in is admitted
below the limit only, and each of those counts once. `PageShowsTheSignedIn` of
`BrowserSignIn`: the sign-in of a tab behind whose back nothing changed is the
one in the cookie, and its first answer is too unless a sign-in came in between
(`FollowsCookie`). The assumptions are `LockoutAssumption` (the limit is positive,
the sign-ins are finitely many, and there is an address) and
`BrowserAssumption`: nobody's name is one of the two marks for no user.

The same module proves the types and the properties of what administrators
edit and restore, for any pages, commands and things they work on.

* `Delegation`, for any tools, hosts, lists and manifests: first that a manifest
  covers its narrowing by any other (`NarrowingIsCovered`, field by field), and
  from it `DelegatesNoMore`. `DelegationInv` says what a handover has read at
  each stage (`ReadsOK`), in which order row, context and task come wherever a
  statement throws (`ChildOK`), and that what was given is the narrowing of the
  two manifests that were read (`GivenOK`), whatever is saved meanwhile.
* `ManifestVersions`: the numbers of the versions are 1 to n, each once
  (`Numbered`): two saves may read the same number, and the table refuses the
  second row. A save holds a number that is free or taken, and a page that was
  told one shows that row until it is edited (`SheetKept`); a message and its
  last call go by the row the message began with, which no later row changes
  (`TurnKept`, `CallKept`).
* `AgentEditing`: what an editor shows, and what it will show once it hears of
  the request it waits for, is stored (`Tells`); the answer that changes the page
  and the request that changed the tables may be far apart.
* `Integrations`: a deletion that has not escaped leaves nothing (`NoneLeft`), and
  a page that does nothing tells of what there is (`Told`).
* `ModelProviders`: a page that nothing gets into is the only one at work, the
  load under way is its own and reads the table as it is, and what it has saved
  is served (`Unspoiled`); no value is numbered that was not written, so that a
  key that is written is a new one.
* `Archives`: the one directory has what an undisturbed command asked for
  (`HasDirectory`), because whatever is in it belongs to a command under way or was
  left behind (`DirectoryIsOwned`); what is held keeps its parts
  (`MadeArchives`), and what such a command verified stays undamaged
  (`Undisturbed`).

The assumptions are those of the modules: shapes of manifests, natural bounds,
`"none"` is nobody's name, each provider has keys of its own, and required fields
are secret ones.

`ChannelProofs` proves types and properties of the channels, for any mails,
polls, threads, clicks, sockets, messages and lines.

* `MailPolling`: one poll holds the mailbox on each connection (`OneHolds`), so
  that a mail that is handed over again was not marked or is in the hands of a
  poll whose connection is gone (`MailOK`, `PollOK`). Of threads: a mail in the
  map that is not astray is with the one it answers (`ThreadOK`).
* `SlackThreads`: a session is of one thread, also after its key is dropped
  (`SessionsApart`), and a patient thread has one delivery under way (`Alone`), so
  what it takes is its own answer (`HandlerOK`). That each session is minted by a
  message bounds their number.
* `ChatConnection`: a message is on a socket that was open for the agent the page
  showed (`SentOK`), a session that is marked is subscribed to or about to be
  (`SocketOK`), and messages that wait for each other make one session
  (`OneSession`).
* `ChannelAdapters`: what a line has got and what is queued for it are numbers in
  order, the former before the latter; on the REST adapter, where a callback may
  overtake the queue, they are different numbers (`LineOK`). Of a text that is
  split, `Whole` says that what is not blank in the chunks, joined, and in what
  is left is what is not blank in the text, wherever it is cut; and each chunk is
  no longer than the limit (`TextInv`).

The assumptions are finite sets of messages, where they are counted, and names
that are none of the marks the modules use; mails and sockets are numbered;
the limit of a Discord text is positive, and texts are made of the three kinds
of characters.

`EdgesProofs` proves the two properties of `LlmAdapters`, for any of the providers,
any bound on the conversation and any window. `TalkInv` has two parts.
`TalkRowsInv`: each tool result belongs to a call of the answer before it
(`HasOwner`), and an answer with calls has all its results, lost its handler
before it had them, or is being worked on, one at most (`RowsFit`); the array of a
handler is an end of the rows. `EchoInv`: the answers among the rows are those
that were heard, one by one, each as its adapter took it up. What is sent has an
entry for every row of the array (`EntryTells`), so that results are found where
the rows have them. The assumption is `AdaptersAssumption`: the providers are
among the seven, and the bounds are natural numbers, that of the window positive.
`EdgesTypes` then puts the types of the fourteen parts side by side.

The inductive invariants of this section were model-checked before they were
proved. Two properties turned out to be false beyond the instance that had
checked them, and say now what the proofs show (section 6).

The properties that are conjunctions are proved as such where they have a
theorem: `TruthIsTold`, `ActiveKept`, `EventsKept` and `QueueAccounts` combine the
theorems about their parts.

Only model-checked: liveness (`GateLetsGo`, `RuntimeEnds`, `EveryMessageEnds`,
`EverySessionEnds`, `ServicesEnd`). It rests on fairness, and the prover decides
neither ENABLED nor what weak fairness gives.

## 6. Observed while modelling

The violation runs are findings in `PROJECT.json`. Others, for which there is
no run: an approval accepted between the handler's last poll and its UPDATE
stays approved in the table while the model is told of a refusal
(`CP/agent-loop.ts:329`); the decision of the chat page reaches nobody
(`CP/main.ts:400`); a refused call is announced as `approved_and_executed`
(`CP/agent-loop.ts:361`); a synchronous request resolves with the first event of
its session, such as `tool_call_pending` (`CP/api/sessions.ts:110`); a rejected
message stays in the history the next request carries (`CP/agent-loop.ts:176`);
the multi-turn flag is recomputed for each message and may be withdrawn
(`CP/agent-loop.ts:153`). Of sessions: a session that is ended by a request or a
drain keeps its context and is not archived (`CP/sessions/manager.ts:119`), and
its messages are still answered; a message stored between the archive and the
UPDATE of the reaper is in no archive (`CP/sessions/reaper.ts:74`). Of the
scheduler: a run's status 'ended' or 'error' is refused by the CHECK of
`scheduled_runs` (`CP/scheduler/index.ts:192`, `CP/db/schema.sql:230`), so that no
run is ever recorded (`RecordRun`); the lock lives 5 minutes and a run up to 30
(`CP/scheduler/index.ts:158`), so that the next tick runs beside it; the
completion a run waits for may be published before it subscribes
(`CP/scheduler/headless-session.ts:64`). On a chat connection, two quick first
messages create two sessions, and the second of two quick messages does not
wait for the subscription (`CP/main.ts:436-451`). Of webhooks: `dispatch` is
called by the test route alone, whose event has `workspace_id` for
`workspaceId`, so that it returns at once and the route answers "Test delivery
sent" (`CP/webhooks/api.ts:161-173`, `CP/webhooks/dispatcher.ts:44-46`); each
attempt has another X-HonorClaw-Delivery id (`CP/webhooks/dispatcher.ts:112`); a
subscription may be disabled right after a success or an enabling, since the
decision is not looked at again (`CP/webhooks/dispatcher.ts:90`). Of audit: a
batch that the timer has in flight is not awaited at the shutdown
(`CP/main.ts:554`). Of the queue: what a consumer has pending is never read
again, by it or by another (`packages/providers/built-in/src/queue.ts:40`). Of
the runtime (paths below `packages/agent-runtime/src/`): with a short
conversation the request is the conversation itself, so that each tool result is
in it twice (`runtime.ts:119-137`); with a long one, the requests after tool
calls have the results without the assistant message of the calls; a message
that waits behind another handler's tool calls may have left the recent window
before its first request (`context-manager.ts:98`); nothing bounds the rounds of
tool calls (`runtime.ts:58`); a SIGTERM closes the publications before the
handlers are done, whose answers are lost (`runtime.ts:175`). Of accounts: two
overlapping demotions or removals, each with the other's administrator in its
count, leave none, and so does an invitation of the last administrator, whose
upsert has no guard (`CP/api/users.ts:48`, `72`); two registrations at once, or
one and a bootstrap, are both the first (`CP/auth/plugin.ts:244`); a bootstrap
cut between user and role leaves a workspace nobody administers, and cannot be
repeated (`CP/auth/plugin.ts:438`); the renewal of a token asks for a valid one
(`CP/auth/plugin.ts:57`), while `src/docs/api-reference.md:85` offers it for an
expired one.

Formulas that a comment or a guide states and that do not hold of the code are
kept in their modules without a run: `ApprovalIsAsked` (`ManifestVersions`,
`src/docs/guides/manifest-reference.md:46`), `SameThreadSameSession` (`SlackThreads`,
`handlers/message.ts:129-130`) and `NothingIsGained` (`Delegation`,
`capability-narrowing.ts:14`). What follows has no run either.

Of models: Gemini is given the id of a call as the name of its result and no ids
of calls (`CP/llm/adapters/gemini.ts:50-60`); Ollama is not shown the calls it
made (`ollama.ts:15-18`); an answer cut at its length loses its calls, and without
a text is stored and shown as "null" (`CP/agent-loop.ts:371`); a lost handler
leaves calls unanswered in every later request, and a history window may begin
between a call and its results (`CP/agent-loop.ts:173`); chunks of a stream are
pushed before the output filter sees the answer (`CP/llm/router.ts:264-274`). A
failing query of `loadProviders` is swallowed, and the page says "configured
successfully" (`router.ts:211`, `LLMProvidersPage.tsx:90-95`); a provider that is
removed keeps its adapter until a restart; the page of the secrets changes keys
without a reload; a removal ends halfway at a secret that is gone.

Of manifests: whole documents are saved with no base version, so that one editor
undoes another's change; edits made during a save are replaced by its answer
(`ManifestEditor.tsx:121-124`); a manifest begun in an editor has version 0 and no
tools, which the schema refuses, and a rate limit of 0, which the form accepts,
makes the loop fall back to the defaults, in which no tool needs approval; the
tools of a session are those of its creation, the approvals those of each
message. Of agents: a save before the prompt has been read, or after that
request failed, erases the prompt (`AdminPage.tsx:254`, `312-325`, `agents.ts:86`);
deleting a skill leaves its `agent_skills`, which a new installation revives;
nothing reads the archived status. Of integrations: the test of a custom one is
a 404, its id has a slash (`IntegrationsPage.tsx:322`); "Missing required fields"
is overwritten by the reload's "connected" (`369-371`, `443`); a deletion whose
second statement fails leaves secrets and cannot be repeated.

Of the chat: the close handler of a socket, after the agent was switched,
reconnects to the agent before (`ChatPage.tsx:121-127`), and after the page was
left it goes on reconnecting; a channel is marked as subscribed before the
subscription succeeds (`CP/main.ts:382-388`, `448-451`); after a reconnection a new
session begins below the old conversation. Of Slack: the input is published
before the output is subscribed to, so a fast reply is lost; its sessions have
no context, which the loop answers with an error (`CP/agent-loop.ts:89-96`);
overlapping messages of a thread take each other's output; decisions go to a
channel nobody reads; no event is recognised when it is delivered again; the
control plane starts no adapter. Of email: a mail whose handling throws holds up
those after it at each poll, threads are in memory only, and a stop during the
first fetch is followed by a timer (`packages/channels/email/src/adapter.ts:229`). A
mail that is handed over again, after a restart or a failed mark, may get another
thread than before, and mails that answered it stay in the old one: four mails
show it, where three did not (`adapter.ts:255-263`); the third part of
`MailsAreHandedOver` excepts them.
Of the other channels: web escalations go to the clients of all workspaces
(`web/src/adapter.ts:208`); messages queued before a callback URL was given are
overtaken; a failed callback loses its message; the output of an asynchronous
webhook goes nowhere; a Discord text may split into a chunk of blanks.

Of archives (`packages/cli/src/commands/`): failed exports of manifests and audit
log are swallowed; a failed psql leaves the directory, in which a later restore
finds the older archive, and two restores share it (`backup.ts:248-381`), so that
one may put in place what another unpacked after it had verified its own: three
commands show it, where two did not, and `UnpacksWhatWasAsked` speaks of verified
archives only of a command that shares its directory with none; psql runs
without ON_ERROR_STOP; the migrations that `backup.ts:14` speaks of are run by
nothing; `bundle install` leaves its directory on every refusal and only logs
images that fail to load. An upgrade on Kubernetes restarts before it migrates,
against the header of `upgrade.ts:4-8`; the key rotation calls endpoints that do
not exist.

Of sign-in: the second factor cannot be enabled through the API: the setup stores
a secret, and its verification asks for a token that login issues only once the
factor is enabled (`src/docs/administration.md:132`); `mfa` in the initial state of
`Lockout` stands for a row that was set by hand. Failures that overlap lose
counts, and an old one lifts a lock; the count is not reset when a lock runs
out; no page renews a token; a wrong password reads "Authentication required"
(`client.ts:44-77`); a slow first answer may overwrite who has signed in
meanwhile. Of delegation: the delegate's parameters replace the delegator's;
disjoint lists of topics intersect to the empty list, which allows all; blocked
wildcards are subtracted by name; the narrowed manifest in the context is read
by nobody, since the loop loads the delegate's own (`CP/agent-loop.ts:456-472`);
`AgentDelegator` is instantiated nowhere; a failure after the INSERT leaves an
orphan session. Of the monitor: an exception in one notification leaves the
timeouts after it unnotified (`CP/security/monitor.ts:143`).

## 7. Not modelled, and why

`PROJECT.json` gives a reason for each component. In short: regular expressions
(guardrails, output filter, PII) work on text; single-query APIs change one row
and return it, and so do the counters of the security monitor and the tables of
notifications and memories; the RAG package is used by no other; the tool policy
is called by no program of the repository; commands that call one endpoint and
print, and pages that list, have no state of their own; the upgrade and the key
rotation run tools of the operating system one after the other; deployment
files have no logic; the tool execution layer is outside the repository and
appears as an action that may answer. What is left out of a component that is
"partly" modelled is in its note.
