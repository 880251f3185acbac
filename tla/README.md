# A TLA+ model of openagent

The repository is a Python SDK for agents: a runtime that runs *turns* of a
conversation with a model and with tools, stores for the sessions those turns
belong to, memories, background tasks, and a gateway that connects chat channels
to sessions. This directory holds TLA+ models of its stateful parts, TLC
configurations that check them on small instances, and TLAPS proofs of their
most important properties for every instance. Paths below are relative to
`src/src/openagent/` unless they begin with `docs/` or `tests/`.

Check a model with `tlc -config <cfg> <MC module>`, a proof with
`tlapm <module>Proofs.tla`. `PROJECT.json` lists the runs, the source lines each
definition translates (`map`), the deliberate mistakes each property is known to
catch (`mutants`), the hazards and the theorems.

## 1. The system

| component | state it keeps | operations | interacts with |
|---|---|---|---|
| session store (`session/store.py`) | per session: transcript log, event log, `state.json` (side state and two counts), lease file | load, save, save_session_state_only, mark_restored, acquire and release lease | turn loop, gateway, tasks; several processes share the files |
| turn loop (`harness/runtime/core/`) | the `SessionRecord` of the turn; iteration, retry, batch of calls, pending calls | run_turn_stream, continue_turn | provider, executor, session store; its events go to the gateway |
| context engineering, providers (`harness/context_engineering/`, `harness/providers/`) | the request, the stream of partial answers, externalised results | trim, fit, recover, stream, retry | turn loop |
| tool executor, policy (`tools/executor.py`, `policy.py`) | calls set aside for the pool, denials | execute_stream | turn loop, tools |
| short-term memory (`session/short_term_memory/`) | memory per session, pending futures, files | update, wait_until_stable, load | turn loop, before and after each turn |
| durable memory, dreaming (`durable_memory/`) | records, jobs and their futures, recall counts, a lock file | schedule, run, sweep, delete | turn loop, a pool |
| background tasks, multi-agent runtime (`harness/task/`, `harness/multi_agent/`) | task records, event lists, futures, observers, notifications | start, progress, complete, fail, kill, notify, evict | worker threads; storage in memory or in files |
| gateway (`gateway/core.py`, `session_adapter.py`, `binding_store.py`) | bindings with checkpoints, in memory and in files; session handles | bind, input, control, resume, observe | channels call it; it calls the turn loop and the store |
| Feishu channel (`gateway/channels/feishu/`) | dedupe file, card records, reactions | handle a message or a click, deliver and retry cards | gateway; a platform that redelivers |
| WeCom and WeChat channels (`gateway/channels/wecom/`, `wechat/`) | dedupe file, websocket and its loop | receive, dedupe, turn, reply, reconnect | gateway; a platform that redelivers |
| host, terminal channel, channel manager (`host/`, `gateway/assemblies/`, `gateway/channels/tui/`) | loaded channels, configuration, the host's lock, the app's lock file | start, load, configure, serve a connection | channels |
| MCP (`tools/mcp/`) | session, pipes, lock, authorization state | initialize, list, call, step-up, close | a server; threads of the runtime |
| skills, roles (`tools/skills.py`, `role/`) | cache of skills, activations | discover, load, invoke, activate | files that users edit |
| builtin tools, capability surface, observability, object model, evals | see `PROJECT.json` | | |

### What is hard

* **Little is locked.** The session store, the task registry, the binding store,
  the lease, the job tables and the caches read, change and write back;
  connections, worker threads and processes fall between the steps.
* **Several files stand for one thing.** A save touches two logs and
  `state.json`; a projection a log, a binding file and the channel; a card its
  record, the message and CardKit. A crash can fall between any two.
* **Stops inside a turn.** An approval ends a generator and a later call resumes
  from what was saved; exceptions leave along many paths, each with its own save.
* **At-most-once and at-least-once.** Dedupe files, checkpoints, the `notified`
  flag, retries of cards, streams and requests, and the re-execution of an
  approved batch.

### What makes each component correct

* Session store: what a save acknowledged stays in the logs; nothing is lost or
  doubled by a crash; a log with a known loss is not extended; `state.json` never
  claims more than the logs hold; the store refuses its own writer only what is
  damaged.
* Turn loop: every turn ends; what the caller is told of its end stands; a stop
  for approval can be resumed; the model gets one answer per call.
* Model request: the user's newest message is in it; recovery ends; what one
  attempt streamed is not taken for another's.
* Memories: while turns of a session follow one another, no update is lost and what
  the model is told never goes back; every job is accounted for; a failed sweep
  does not bar the next.
* Background tasks: every task comes to an outcome, keeps it, logs it, and the
  leader is told once.
* Gateway: nothing is sent twice; a checkpoint belongs to its log; no request
  waits for ever.
* Channels: a message is given to the gateway once; what is marked as done was
  shown; a card left pending is delivered in the end; a client reconnects; one process
  consumes an app's events; loading never blocks the host for ever.
* MCP: a request gets its own answer and returns; a listing is complete; a call's
  tool runs once however often the call is sent.
* Skills: the cache holds what the files say, by precedence.

## 2. The modules

| module | what it is | proofs |
|---|---|---|
| `AppendOnlyLog` | abstract specification: what a log promises | |
| `SessionStore` | `FileSessionStore` for one session, file access by file access | `SessionStoreProofs` |
| `TurnLoop` | `RalphLoop` with the executor, one step per save or hand-over | `TurnLoopProofs` |
| `ModelRequest` | one model request: trimming, recovery, stream, retries | `TurnLoopProofs` |
| `ShortTermMemory`, `DurableMemory` | the two memory stores | |
| `MemoryMaintenance` | both composed with what a turn does with them, crash and restart | `MemoryMaintenanceProofs` |
| `BackgroundTasks` | orchestrator, registry and leader, one step per registry access | `BackgroundTasksProofs` |
| `Gateway` | gateway, adapter, binding store and lease; several hosts and threads | `GatewayProofs` |
| `FeishuCards` | the reply card's record and its delivery, call by call | |
| `FeishuChannel` | the Feishu host over it: events, clicks, retry thread, crashes | `FeishuChannelProofs` |
| `PrivateChat` | the WeCom client and host, the WeChat client and host | `PrivateChatProofs` |
| `ChannelHost` | host processes, the channel manager and the Feishu run lock | `FeishuChannelProofs` |
| `McpClient` | the MCP client over stdio and HTTP | `McpClientProofs` |
| `Skills` | the skill registry under concurrent discovery and edits | `McpClientProofs` |
| `MC...` | the instances TLC runs | |

Everything that is shared between processes is a variable of its own; what a
thread has read and not yet written is a variable of that thread. A definition
whose comment begins with *Mutant* is a plausible mistake, used only to show that
a property notices it. Three modules of proofs read two components each, the one a
component runs in and the component: `TurnLoopProofs` `TurnLoop` and
`ModelRequest`, `FeishuChannelProofs` `FeishuChannel` and `ChannelHost`,
`McpClientProofs` `McpClient` and `Skills`. The second of each pair therefore has
names of its own (`RequestSpec`, `HostSpec`, `SkillsSpec`).

### SessionStore

A *writer* is a thread of control with a `SessionRecord` of its own. Files:
`transcript`, `events`, and `stateFile` with its counts and side state.
`save_session` is `SaveBegin` (read the counts), `ValidateTranscript`,
`ValidateEvents`, `AppendTranscript`, `AppendEvents`, `OpenState` (`write_text`
empties the file), `WriteState`. `load_session` is three reads;
`save_session_state_only` and `mark_restored` have their own path. A crash may
fall anywhere. In the middle of an append it leaves any prefix of the text: some
lines, and then nothing, a whole line without its newline, or a line cut short.
`endT` and `endE` say which (`"line"`, `"bare"`, `"torn"`). A torn line makes every
later read of the file raise, and so every load and save, for ever; the same
happens when something is appended to a bare line, which glues two entries
together (`Written`). The transcript file is shared by the sessions of an agent,
so such a line bars those of its other sessions too; the model has one session.
`LoseTranscript` and `LoseEvents` cut a file from outside between calls, the case
the tests in `tests/session/test_session_store.py` are about; they cut at lines.
Left out: `transcript.ref`; `get_resume_snapshot`, which only reads; the in-memory
store.

### TurnLoop

`disk` is the saved session and `rec` the record in memory; a save is one step
here, its inside is `SessionStore`'s subject. A call is what the executor does
with it: run in place, be set aside (`pool`), need approval, ask a question when
it runs, be denied (with the count that turns repeated denials into an approval,
which a crash resets), be invalid, be unknown. `StartTurn` to `Complete` are
`run_turn_stream`; `ModelDelta` and `ModelError` are `_run_model_with_retries`;
`InBatch` to `BatchDone` are `execute_stream` with what the loop does for each of
its events; `Approve`, `Reject`, `Reply` are `continue_turn`; `Escape` is an
exception nobody catches. A turn ends in two steps: `Terminal` puts the event into
the record, `SaveEnd` saves it and tells the caller, which `told` remembers; in
between a post-turn processor or the save may raise (`EndFails`). A rejection is
saved and told in the same way (`Reject`, `SaveReject`), but its event is made after
the save. A caller that abandons the generator is a `Crash`. Left out: a tool that
yields no final result or several, which `_stream_tool_call` would allow and no
builtin tool does; each call here has one.

### ModelRequest

A message is its role, its estimated size and its place. `BuildInput` compacts
(`Retain`, `Fit`) and, past the budget, recovers from overflow; `Send`,
`PartialMessage`, `PartialCall`, `StreamEnds`, `Fallback` and `AttemptFails` are
an attempt with its stream, its capture record and its retries; `RunTool` puts a
long result into the file of its tool. Both provider families are covered.
Prompt-cache snapshots are left out: nothing that is sent depends on them. So are a
`capture_success` that raises inside the retry's `try`, after which an answered
attempt is captured as failed and retried, and a cancellation at the event of the
fallback; `Cancel` is at the deltas.

### ShortTermMemory, DurableMemory, MemoryMaintenance

A short-term memory is represented by the part of the transcript it covers.
`Update`, `Look`, `WaitReturns`, `WaitTimesOut`, `SaveMemory` are the store's
calls between which other threads fall. A durable job is taken (`NextJob`),
submitted, kept, run and completed by steps of two threads; a dream tests the
lock file and writes it in two steps, and may fail in any phase.
`MemoryMaintenance` puts both into a turn in the order of
`MemoryMaintenanceProcessor` and adds the crash, which loses tables and counters,
and the start, which reads the files. The run gives each session one thread;
nothing in the code serialises the turns of a session, and `Memory_threads.cfg`
gives one session two. Left out: a `_build_memory` that raises.

### BackgroundTasks

A thread is the list (`todo`) of registry accesses it still has to make, so that
`update` (get, put) and `append_event` (get, read, add) interleave. With
`storage = "file"` a record is copied and the whole file written back, which
others may find empty (`Torn`); `Restart` leaves the files and takes the pool
away. `Raise` says where an exception goes: out of the host's call, into
`fail_task`, or into the future. Left out: generic tasks, the task id counter of
two processes, `await_task` on a cancelled future, and time.

### Gateway

Hosts are processes over the same files; each thread serves some chats. A
request is `Spawn`, `ReadLease`, `WriteLease`, then `TurnLoad`, any number of
`TurnSave`, `TurnReturns` or `TurnRaises`, then `Sync` (the checkpoint),
`Persist` (the binding file) and `Deliver`. `Bind` replaces the binding object
while another thread may still hold the old one: `own[t]` is that old object, or
the copy a card's button for another session makes. `Resume` and `Replay` read
from the checkpoint or a given offset. `Crash` empties a host's memory; its files,
leases included, stay. Left out: a crash inside the write of a binding file, which
`Persist` makes in one step.

### FeishuCards and FeishuChannel

`SyncCard` computes every course `_sync_card_delivery` can take: each API call is
accepted, denied (which makes the code fall back to patching the message) or
fails. `FeishuChannel` runs it under the card lock from two threads. The events
thread takes a message from the dedupe test (`Receive`) through reaction, binding
and card to the gateway (`Process`) and dispatches its events, or takes a click.
Both threads retry from copies of the records that are due (`ListPending`,
`RetryCard`), and save the copy over whatever has been saved since. A record that
was copied before its card message was known sends a second one: `posts[m]` is the
sequence of the card messages of `m`, each with what it shows. Writing the card
file may raise (`SaveRaises`), which ends the turn or the click, and the retry
thread for good, as its loop has no `try`; such a failure is counted as a crash. A
crash may cut the file that is being written. Left out: a dedupe file whose write
raises; that a duplicate rewrites the dedupe file too; an answer to `send_card`
without a message id.

### PrivateChat

`link` is where the client's loop is (`_connect_forever`); `websocket` and
`looping` are two fields on purpose, as `respond` reads them apart. Handlers
dedupe, screen, send the notice and give the turn to the gateway; sends wait in
`out` for the event loop. `IdOf` is the message id, or the digest that stands in
for a missing one; a message with an empty id and no digest, which the dedupe store
lets pass, is left out. WeChat runs the handler inside its SDK's loop.

### ChannelHost

Each process has a main thread and threads of connections. Loading a channel is
`Enter` (the host's lock), `Check`, `Resolve`, `Register`, `StartHost`,
`MarkManaged`, `MarkLoaded`; a command takes the manager's path without the lock.
Commands that arrive in a chat, on a channel's thread, are left out: there a raise
is caught and ends nothing.
`AcquireRunLock` and `ReleaseRunLock` are `FeishuHostRunLock`; a process that dies
frees it.

### McpClient

Over stdio, `WriteLine` takes the transport's lock and `ReadLine` returns the next
line, whatever it is; over HTTP `Post` is one step, and either the request or its
response may be lost (`ran` counts how often the server ran the tool). A token is
represented by what it grants: `Acquire` takes the one of the last scope that
`scope_token_map` has, whatever the others are, and records all of them.
`Initialize` may acquire a first token for what the discovery names, and
`NotAuthorized` is the failure of either. `Upgrade`, `StoreAuth`, `PublishToken` are
the step-up between a refusal and the retry; a challenge names no token endpoint, so
it raises when the map has none of the scopes. A client without an authorization
adapter is one with an empty map. `token_override`, which returns the same token
whatever is asked, is left out, as are prompts, resources, roots, sampling and
elicitation, which use the same `_request`.

### Skills

A discovery is `Discover`, `ScanRoot`, one `Read` per file, `RootDone`,
`Discovered`, by any number of threads, with `Edit` in between. `ParseDocument` is
the frontmatter parser with its lenient retry, over what it tells apart in a line.
Left out: a body with unbalanced braces, or bytes that are not text, which abort a
whole discovery; and an empty value behind a line that ends with a colon
(`skills.py:549`).

## 3. What is checked

Each run ends within five minutes on two workers; bounds are named constants.

| run | instance | properties |
|---|---|---|
| `store` | two writers of one session with one loss, or one that crashes anywhere | `TypeOK`, `StateBehindLogs`, `NoAppendAfterLoss`, `OwnRecordExtendsLogs`, `OwnRefusedOnlyAfterDamage`, `OwnLogsAreDurable` |
| `turn_safety` | two turns, three iterations, one retry, batches of every kind, crashes | `ResumePoint`, `AnsweredOnce`, `ModelSeesAnswers`, `OutcomeStands`, `TurnEnds` |
| `tasks` | a background task and a verifier on one pool thread, memory or files, one restart | `NotifiedOnce`, `OutcomeLogged`, `OutcomeStays`, `TaskFinishes` |
| `gateway_chats` | one host, two chats on one session, one with a second session, crashes | `AtMostOnce`, `OffsetInLog` |
| `gateway_hosts` | two hosts on one session | `RequestEnds` |
| `memory_turns` | two turns of a session, jobs and sweeps on two pool threads, a crash, a deletion | `LatestIsKept`, `JobAccounted`, `LockReleased`, `CoverageGrows` |
| `feishu_cards` | a prompt and its cards, a click, two failing calls, a crash or a failing write; two deliveries of the prompt and of a command | `HandledOnce`, `DoneWasShown`, `SavedIsShown`, `CardsDelivered` |
| `channel_host` | two processes, one with a connection, two channels, a crash | `OneConsumer`, `LoadReturns` |
| `private_chat` | two handlers, four messages (two with one digest), two connections, a crash | `GivenOnce`, `StaysClosed`, `Reconnects` |
| `mcp` | two threads with two calls each, three tools, three scopes of which two have tokens, a fault, an unasked line | `OwnAnswer`, `ListComplete`, `RunsAtMostOnce`, `RequestReturns` |
| `model_budget` | six messages of three sizes, a budget of six tokens, one retry | `NewestUserIsSent`, `RecoveryConverges`, `AttemptsStayApart` |
| `skills` | two threads, three copies of one skill in two roots, an edit | `CalmCacheIsExact`, `SteadyCopyIsNotOutranked` |

Why these bounds are enough for what they are asked:

* **store**: one message beyond an earlier save is what it takes to repeat or to
  skip an entry, and two contents tell a repeated one from a skipped one. Two
  writers is the smallest number that interleaves; the properties of the counts
  are proved for any number. A behaviour stays in the setting it begins in, and
  what was acknowledged is left out of the fingerprint (`Seen`) where no property
  reads it. With two writers a line is cut in the transcript only; a lone writer's
  crash cuts one in either log.
* **turn_safety**: two turns of three iterations allow a stop, a crash in its
  continuation and a new turn on what is left, and a batch behind an answered one;
  every call has a neighbour before it or after it. States that differ only in
  events that are neither the last nor a terminal one are identified (`EndsOnly`);
  no step and no property of the run reads those.
* **tasks**: one pool thread with two tasks makes one wait, so that a kill may find
  it queued, running or done; two announcements are allowed where one is right.
* **gateway**: one event per session is what a checkpoint can be behind; two
  sessions of one chat let a card's copy carry the offset of the other.
* **memory_turns**: two turns are an update and one that supersedes it; three jobs
  are two extractions and a dream; one text is excluded from memory.
* **feishu_cards**: one failing call makes each fallback happen, and the retry after
  it; a second one fails the retry, or the next card while a copy of the first is on
  its way. A second delivery meets the first at any point, with the other message or
  a crash between them; behaviours with several deliveries have one failing call and
  no click (`Bounded`).
* **private_chat**: two handlers and two sockets are what a race of either needs.
* **mcp**: a page of two of three tools gives a listing of two pages, which a close
  or a dead server may cut; one tool needs two scopes, of which a token grants one,
  and one a scope that only the discovery's endpoint gives a token for, so that a
  step-up suffices, is refused or raises, and two undo each other.
* **model_budget**: a message as large as the budget, one near it and one small; a
  chain of tool messages longer than what compaction keeps.
* **skills**: a root with two copies and a root with one is the smallest case in
  which precedence and path order can disagree; symmetric threads are identified.

`AtMostOnce` is about chats served by one thread each, as the channels' clients
do, and about hosts with one gateway id. With two connections of one chat it does
not hold, and no document promises it. With two ids it does not hold either: a
host that is refused the lease of a bound session leaves a binding at offset 0 in
its memory, and sends everything again once the lease is free; TLC finds this
trace as soon as `Gateway_hosts.cfg` asks for `AtMostOnce` with two ids.
`OffsetInLog` holds in both cases and is proved for them.

`LatestIsKept` and `CoverageGrows` are checked where one thread runs a session's
turns, for waits that time out, builds that come late, crashes and torn files. They
do not hold when two threads are in turns of one session, which the WeCom client
makes possible (a thread per frame, and no lock per session): a wait for an older
update drops the entry of the newer one. `Memory_threads.cfg` ends in that trace.
They are therefore not stated as theorems.

`CardsDelivered` is about a stable card that is pending while no thread is at work
on it or has a copy of it. With a copy under way the delivery and the save of the
copy can replace it, and it is never shown (`Feishu_stale.cfg`). Nor does it hold
once the retry thread has died. `DoneWasShown` says that a final card *was* shown:
the same copy may show an older one over it later.

### Fairness

Users, crashes, faults and lost files are never fair. `TurnLoop`: the loop's own
steps are weakly fair, as it is a function on a running thread, and model calls
and tools return, raise or time out. `BackgroundTasks`: each worker and the
host's call under way; nobody is obliged to start, kill or announce, and a worker
that never returns is outside the assumption. `Gateway`: a request that was taken
goes on. `FeishuChannel`: the event that was taken is handled and the retry loop
goes on. `ChannelHost`: threads run on, and a lock that is free again and again is
got (strong fairness of `Enter`). `PrivateChat`: the client's loop runs on, and
the platform accepts a connection that is tried again and again (strong fairness
of `Connect`, `Subscribe`). `McpClient`: threads run on, the server answers every
line while it lives, and the pipe's lock is got. Liveness runs use no symmetry.

### Deadlock

Checked for the store, the gateway and the skills, which can always be asked
again. Turned off elsewhere, where the bounds on turns, kills, deliveries or calls
are used up and nothing is left to do. Where something could wait before that (a
lock, a pipe, a pool thread, a reconnection) a liveness property of the run says
that it does not wait for ever.

## 4. Disagreements with the documentation

Each of these configurations ends in a trace in which the code does what a
sentence of the repository denies. They are kept beside the runs, which all pass,
to reproduce the trace.

| configuration, module | property | what happens |
|---|---|---|
| `TurnLoop_unknown.cfg`, `MCTurnLoop` | `TurnHasOutcome` | a tool name the model made up raises `KeyError` out of the turn: neither `turn_completed` nor `turn_failed`, and the session stays `running` |
| `TurnLoop_unknown.cfg` with its other lines, `MCTurnLoop` | `ApprovalResumes` | approving a question of `AskUserQuestionTool` raises `RequiresActionError` out of `continue_turn`; the session stays where it was |
| `Gateway_interrupted.cfg`, `MCGateway` | `WriterHoldsLease` | after an interrupt the lease is gone, the cached handle is not; the next turn runs without a lease |
| `Memory_restart.cfg`, `MCMemoryMaintenance` | `RestartSafe` | the id counter starts at 0 after a restart (`durable_memory/store.py:424`), and a new record overwrites an old one's file |
| `Feishu_sequence.cfg`, `MCFeishuChannel` | `SequenceIncreases` | a card copied for a retry repeats a sequence number another thread has sent, against "strictly increasing" (`gateway/channels/feishu/cards.py:140`) |
| `Memory_sweeps.cfg`, `MCMemoryMaintenance` | `SweepsExclusive` | two sweeps both pass the test of the lock file before either writes it (`durable_memory/dreaming/state.py:103`), against "prevent concurrent sweeps" (`docs/Features/auto-dreaming.md:35`, in Chinese) |
| `PrivateChat_logged.cfg`, `MCPrivateChat` | `LossIsLogged` | a reply is lost without a line in the log when the socket is there and its loop is not (`docs/developer-guide/wecom-private-chat.md:136`) |
| `SessionStore_newline.cfg`, `MCSessionStore` | `OwnSaveCanBeLoaded` | a crash leaves the last line whole but without its newline; the next save is accepted, glues its first line to it and returns, and no later load or save succeeds, against "append-only" logs that are the "durable history source of truth" (`docs/Features/session.md`) |
| `TurnLoop_rejected.cfg`, `MCTurnLoop` | `EndIsLogged` | the `turn_failed` of a rejected approval is made after the last save and is in no log (`harness/runtime/core/ralph_loop.py:95`; `docs/developer-guide/internals/harness-and-session.md:41-48`) |
| `Feishu_stale.cfg`, `MCFeishuChannel` | `LastCardDelivered` | a copy made for a retry is delivered and saved over the newer record of a card whose delivery had failed; that card is never shown |
| `Mcp_stepup.cfg`, `MCMcpClient` | `StepUpSuffices` | one thread, undisturbed: a step-up for two scopes records both and acquires the token of the last, and the retry is refused again, although the client has a token for each (`tools/mcp/auth.py:72`), against "scope upgrade" (`docs/Features/ecosystem-compatibility.md:49`) |
| `Memory_threads.cfg`, `MCMemoryMaintenance` | `LatestIsKept` | two turns of one session: a wait for an older update drops the pending entry of the newer, whose result reaches neither the table nor the file, against "latest stable short-term memory snapshot" (`docs/developer-guide/internals/harness-and-session.md:139`) |
| `ModelRequest_fits.cfg`, `MCModelRequest` | `RecoveryFits` | overflow recovery keeps the newest message of the user even when the others exhaust the budget (`docs/Features/context-engineering.md:86`) |

Seen with TLC while the models were written, or in the code they translate, and
kept here in words only.

Turn loop and tasks:

* The whole batch becomes pending, so calls that had returned before the approval
  run again (`harness/runtime/core/ralph_loop.py:593`). The transcript still has one answer each
  (`AnsweredOnce`); the event log has two results.
* A call that was approved because of repeated denials is denied again after a
  restart, as the count is in memory (`tools/policy.py:97`).
* Two results of one tool share one externalised file; the second overwrites the
  first, whose preview still names it.
* A worker that is already running turns a killed task into a completed one
  (`harness/task/background.py:174`). A verifier whose worker raises stays
  `running` (`background.py:256`).
* File-backed tasks may be announced twice (a stale copy clears the flag), may go
  from killed back to running in the same way, and may stay `running` after a torn
  read or a restart.

Gateway and channels:

* Two hosts with the default gateway id admit each other to a lease
  (`gateway/session_adapter.py:34`), and two that read a free lease at the same
  time both write it (`session/store.py:180`).
* After a restart a bound chat can be bound to a second session, because only the
  memory is asked (`gateway/core.py:87`). A bind that is refused the lease leaves
  its binding in memory at offset 0 (`core.py:97`).
* A Feishu turn whose gateway call raises leaves its card `running`. A refused run
  lock leaves the channel listed as loaded with no host. A channel loaded by the
  main thread and by a command may be started twice, as commands take no lock; for
  Feishu the run lock stops the second.
* A clean close of the WeCom socket is followed by a reconnection without a delay.
* A dreaming lock left by a crash stays for ever: no later sweep removes it.

MCP and skills:

* Two step-ups at the same time may leave `connected.auth_state` and the transport
  with different tokens. Later calls are then refused, or are sent with a token that
  the client has no record of.
* A step-up whose scopes are all on record already sends the same token again.
* The stdio `notifications/initialized` waits for an answer line. A failed
  `initialize` leaves the server's process. A second 401, or an error page, while
  tools are listed yields an empty list.
* A slow discovery overwrites the cache of a newer one, after which `load_skill`
  raises `KeyError`. With three copies a shadowing note is lost. The lenient retry
  of the frontmatter parser hoists a second nested line.

## 5. What is proved

Every invariant and every action property that a run checks, but `LatestIsKept` and
`CoverageGrows`, is a theorem, for every value of the constants that satisfies the assumptions named in the modules:
`StoreAssumption` with `OwnerAssumption` of its MC module, `TurnAssumption`,
`ModelRequestAssumptions`, `TasksAssumption`, `GatewayAssumption`,
`ShortTermAssumption`, `DurableAssumption`, `MaintenanceAssumption`,
`HostAssumptions`, `ChatAssumptions`, `FeishuAssumption`, `McpAssumptions`,
`SkillsAssumption`. They say of what kind the constants are and that the marks for
"nobody", "nothing" and "torn" differ from everything real; the bounds of the runs
are among them, as arbitrary numbers. One theorem has a hypothesis besides:
`NothingIsSentTwice` that each chat is served by one thread and that all hosts have
one gateway id (see section 3).

| theorem | statement |
|---|---|
| `SessionStoreProofs!TypeCorrect`, `StateStaysBehindLogs`, `LostLogIsNotExtended` | `Spec => []TypeOK`, `[]StateBehindLogs`, `NoAppendAfterLoss` |
| `SessionStoreProofs!OwnRecordAlwaysExtendsLogs`, `OwnRefusalsNeedDamage` | `MCSpec => []OwnRecordExtendsLogs`, `[]OwnRefusedOnlyAfterDamage` |
| `SessionStoreProofs!OwnLogsImplementAppendOnlyLog` | `MCSpec => OwnLogsAreDurable`: both logs of a lone writer implement `AppendOnlyLog` |
| `TurnLoopProofs!AlwaysResumable`, `OutcomeAlwaysStands` | `Spec => []ResumePoint`, `[]OutcomeStands` |
| `TurnLoopProofs!AnsweredOnceAlways`, `ModelAlwaysSeesAnswers` | `Spec => []AnsweredOnce`, `[]ModelSeesAnswers` |
| `TurnLoopProofs!AttemptsAlwaysApart`, `NewestUserAlwaysSent`, `RecoveryAlwaysConverges` | `RequestSpec => []AttemptsStayApart`, `[]NewestUserIsSent`, `[]RecoveryConverges` |
| `BackgroundTasksProofs!NotifiedOnceAlways`, `OutcomeAlwaysLogged`, `OutcomeStaysForEver` | `Spec => []NotifiedOnce`, `[]OutcomeLogged`, `OutcomeStays` |
| `GatewayProofs!GatewayTypes`, `CheckpointsInLog`, `NothingIsSentTwice` | `Spec => []TypeOK`, `[]OffsetInLog`, `[]AtMostOnce` |
| `MemoryMaintenanceProofs!MemoryTypes`, `JobAlwaysAccounted`, `LockIsReleased` | `Spec => []TypeOK`, `[]JobAccounted`, `[]LockReleased` |
| `FeishuChannelProofs!HandledOnceAlways`, `DoneWasAlwaysShown`, `SavedIsAlwaysShown` | `Spec => []HandledOnce`, `[]DoneWasShown`, `[]SavedIsShown` |
| `FeishuChannelProofs!OneConsumerAlways` | `HostSpec => []OneConsumer` |
| `PrivateChatProofs!GivenOnceAlways`, `AnsweredStaysClosed` | `Spec => []GivenOnce`, `StaysClosed` |
| `McpClientProofs!EveryAnswerIsOwn`, `ToolsRunAtMostOnce`, `ListAlwaysComplete` | `Spec => []OwnAnswer`, `[]RunsAtMostOnce`, `[]ListComplete` |
| `McpClientProofs!CalmCacheIsAlwaysExact`, `SteadyCopyIsNeverOutranked` | `SkillsSpec => []CalmCacheIsExact`, `[]SteadyCopyIsNotOutranked` |

None of the properties is inductive; each module proves a stronger invariant, with
one lemma per action or per kind of step.

**Store.** `StateBehindLogs` says nothing about the counts writers have in their
hands and will write later. `CountTInv` and its twin `CountEInv` add them: while
`state.json` claims no more than the file holds, every count in use and every
record past its append is covered by the file. When a loss cuts the file below
the claim, nobody is past an append; from then on every count in use is the claim
itself, and a record that passes the validation is shorter than the claim: its
append raises. That half gives `NoAppendAfterLoss`.

The refinement is about a writer without a rival that may crash anywhere. While a
call is under way the record extends the file; a count that passed the validation
is the file's length, and past the append record and file are the same (`LoneT`,
`LoneE`). A call that raises has met a `state.json` that a crash left empty or a log
that a crash left with a line that is not JSON (`Damaged`, `Lone`), which is
`OwnRefusedOnlyAfterDamage`: the checks refuse nothing else. So every step either extends a log
at its end or acknowledges all of it, and `AppendOnlyLog` allows no more
(`Durable`).

**Turn loop.** What is saved was put together several steps before. While a turn
works through a batch, the message with the calls stays last in the transcript
and results are kept aside (`CallsAreLast`, for approved batches too); between the
request for approval and its save nothing is logged (`AskIsLast`); between turns
the record is the saved one (`OneRecord`). That what was told stands is about turns
that are behind: none of them is the one the loop is in or the one whose calls wait
on disk (`Settled`). A save puts a record on disk whose log is never shorter
(`Grown`), a request for approval is about the turn that makes it, and a rejection
and an ending save a record that waits for nothing. Most steps only log events and save
them or not (`LogStep`); the others have a lemma each.

`Transcript` is about all turns, continuations and crashes. No iteration asks for
calls twice (`AskedOnce`), because those in the transcript are of turns and
iterations that have begun (`Started`, `InIteration`); answers are distinct and
stand behind their calls (`Distinct`, `Following`). Results and pool split what the
loop has walked through (`Walked`), so what is put behind the calls at the end of a
batch is one answer to each (`AnswersTidy`), and before the model is asked again
every call of the turn has its answer (`AnsweredSoFar`).

**Model request.** `Apart` relates the captures to the retry, `Heard` the deltas to
the partial answers of the attempt under way. That the newest user message survives
is shown through every list the request goes through: it is at its place in
`messages` (`Placed`), compaction keeps it (`RetainKeeps`), each way of fitting the
budget keeps it, perhaps cut (`FitKeeps`), so it is in the request (`Asked`). The
trimmed lists are picks of places; `Rank` counts the places picked up to one, which
is where it stands in the result (`RankGrows`, `PickedHas`).

`Tokens` adds up a list recursively. What it says of a list is proved by induction
on its length: `Upto` is the recursive function, `Sums` characterises its values, and
`Counting` is the induction. When leaving out messages was not enough, only the
user's are left (`DroppedAll`, `OnlyUsers`); the newest of them is then cut to what
the others leave of the budget, at least one token, and the sum changes by exactly
the cut (`CutIs`, `FitConverges`). Every message a session gets has a size
(`Weighed`), which the sums need.

**Tasks.** Between publication and mark an announced task is unmarked: the host is
then busy with exactly that mark, and only the host could evict the record
(`Marking`). A change keeps the flag of a shared record (`ChangeKeepsFlag`), and a
task is started once, so its record is never new again.

The outcome is about the lists of registry accesses a thread still has to make. In
them every write of a record follows its read (`Paired`), and who may still access
what depends on the task's future (`Scripted`). `Telling` says that a worker that
completes, and the host that cancelled a task, have logged the outcome or have that
entry still before them, at the end of their list (`Ends`).

**Gateway.** The copy a card's button makes carries the offset of one session under
the name of another, and `Persist` writes it. `GInv` adds `Synced` (what is about to
be written was synced with its own log) and `Busy` (a request under way has a
session, and the binding it works on names one).

That nothing is sent twice needs every place where an offset is kept: nothing that
was sent to a chat lies beyond the offset in its file (`Recorded`) or in its binding
(`Covered`), and nothing of it is among what a turn or a resume is about to send.
The one exception is a binding that `bind_session` has put in place at offset 0 and
not yet synced (`Rebinding`); the request that did this goes on to the sync
(`Orderly`), as with one gateway id no lease refuses it.

**Memories.** Two threads may take the same job id, and a job may be over before its
future is kept. What makes the tables right is that the threads which have submitted
can be matched with futures nobody keeps yet (`OwnToKeep`); a future that is over
has its job in `completed` (`Finished`). The lock of a sweep is there only while
somebody sweeps, unless a crash came (`Held`).

**Feishu.** Between the mark in the dedupe file and the gateway lie reaction,
binding and card. A message on its way is marked and new, and one that was given
stays marked (`MarkedBefore`), unless a crash cut the file; the retry thread and
clicks put nothing on its way.

`SyncCard` has many courses; each is followed from the record it starts with to one
of the ends `Landed` allows: with a card message of its own that shows what the
record says, or failed and marked for a retry (`SyncLands`, with a lemma per API).
`Faithful` carries this to the file: who holds the card lock has a record that
matches what was shown (`Placed`, `Carrying`), what is saved as delivered is what its
message shows (`Saved`, `Match`), only the holder writes, and a write that raises
counts as a crash.

**Channel host.** Every consumer is the holder of the lock file
(`ConsumerHoldsLock`), which only a free lock lets anybody become.

**Private chats.** Between writing an id, under the store's lock, and the turn a
handler *owns* the id: owned ids are in the file, no two owners have the same, and
no owner has that of a message that was given (`Deduped`). A reply is closed by the
handler that owns the id, after the notice: the notice of a message is sent before
its answer or not at all (`NoticeFirst`), and what was answered is spent
(`SaidIsSpent`), so nothing comes after the last frame of a stream.

**MCP.** Nothing compares ids over stdio. The lock leaves at most one line between
client and server, and it is the holder's, going in or coming out (`OneLine`); a
dead process leaves a line only in a pipe nobody reads. A tool is run by an answer
that is no refusal, after which the call is not sent again: a call that is still to
be sent, or was refused, has not been run (`RanOnce`), whoever stores or publishes
tokens meanwhile. What a listing has collected are the tools up to its cursor
(`Listed`), and the page at the cursor continues them (`PagesJoin`).

**Skills.** First the parser: what it has after `n` lines is what the first `n` lines
say, defined without it (`Follows`, by induction on `n`); the retry parses a block
without tabs, and both readings are readings of such a block (`Reads`). Hence a
document is loaded exactly when it is usable, with what it says (`LoadIs`). Then the
discovery: an entry is the copy that no unchanged copy *behind* the discovery
outranks (`Entry`, `Behind`); what is behind grows root by root and file by file, an
edit puts its place among those nothing is claimed of, and precedence with the path
is a strict order (`BeforeIs`), so a merge keeps the claim (`EntryMerged`).

**Induction.** The library's induction theorems take an operator as parameter, which
the installed provers cannot instantiate. `Counting` takes the set of the numbers for
which the claim holds instead, and is proved from the least element of a set
(`LeastIs`). Recursive functions are then expanded to the `CHOOSE` they stand for,
and shown to exist by the same induction (`SumsExist`, `ParsedIs`).

**Model-checked only.** `LatestIsKept` and `CoverageGrows`, which hold while the turns
of a session follow one another (section 3). Liveness (`TurnEnds`, `TaskFinishes`, `RequestEnds`,
`CardsDelivered`, `LoadReturns`, `Reconnects`, `RequestReturns`): the prover has no
rules for fairness and `ENABLED`. The disagreements of section 4 are traces.

## 6. Plan

What is left, in order of worth:

1. Further theorems that no run needs yet: type correctness of the components
   whose invariant carries its types only where a proof needs them (turn loop, MCP
   client, skills), and the proved invariants as properties of small runs.
2. A refinement of the dedupe files and of the card store as one abstract
   "once" specification that `PrivateChat` and `FeishuChannel` both implement.
3. `SimpleStreamingToolExecutor`; delegation and direct input; generic tasks and
   their verification results.
4. Prompts, resources and sampling of MCP; `update_memory`, `direct_write` and
   `recall` of durable memory.
5. The composition of a channel with the gateway: `PrivateChat` or `FeishuChannel`
   giving its messages to `Gateway` instead of to a script of events.

## 7. Not modelled

Clients of messaging services beyond their loops, and HTTP exchanges; the bodies of
builtin tools (file system, processes, network); the sandbox; wording of prompts
and rendering of cards; the capability surface, which is a view; export of events
and metrics, which nothing reads back; record types, JSON conversion and paths; the
benchmark driver and the command line. `PROJECT.json` gives the reason for each.
