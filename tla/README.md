# Verification of Uncaged

Uncaged is a terminal, an account-free fork of Warp: a Rust workspace of one
application (`app/`) and its libraries (`crates/`). This directory models, in
TLA+, the parts of it where several actors meet and where the order of what
happens decides whether the program is right. TLC checks the models on small
instances; the TLAPS proof system proves some of their properties for every
instance.

Five subsystems are modelled:

1. **Agent Mode** (`app/src/ai/blocklist`): the loop in which a model's response
   calls tools, the client runs them and sends the results back.
2. **The agent engine** (`crates/uncaged_engine`): what the fork put in the place of
   the vendor's server. It lowers a request, asks a model over HTTP or a CLI agent
   over its pipes, and streams the answer back.
3. **The remote server** (`crates/remote_server`): the client and the manager of the
   daemon that runs on a host reached by SSH.
4. **Shared sessions** (`app/src/terminal/shared_session`): a terminal's events
   streamed to viewers through a server, over connections that break.
5. **The sync queue** (`app/src/server/sync_queue.rs`): edits of Warp Drive
   objects on their way to the cloud.

1, 2 and 3 are the live core of the fork. The fork's `oss` channel refuses logins
(UNCAGED.md:146-156), so in a release build of the fork 4 and 5 are compiled in and
tested but never reached: they are the code the fork inherited and keeps. They
come with the most intricate protocols of the repository, which is why they are
here.

## The system

Almost all of the application's state lives in models of the UI framework
(`crates/warpui_core`) that only the main thread touches. A callback (a user's
action, a future that resolved, a message of a stream) runs to its end; the
events it emitted are then handled, first in first out, before the next callback
(`AppContext::flush_effects`, app.rs:3417). So there are no data races to model:
the concurrency is in the order of callbacks, in what happens between an `await`
and its callback, and in the other side of a connection. The engine's turns and the
remote client's reader and writer are tasks of their own: there the order of their
steps on shared channels, locks and maps is what is modelled.

| Component | State it keeps | Operations | Interacts with | What is hard | What makes it correct |
|---|---|---|---|---|---|
| Action model, its executor and preprocessing (`ai/blocklist/action_model.rs`, `action_model/`) | batches being preprocessed, queue of calls, running phase, results, the calls the executor waits for | queue, preprocess, start, accept, finish, snapshot, cancel one, cancel all | controller (events both ways), terminal, permissions | start loops called from four places, results that come at once or by a future, cancelled calls whose futures go on | each call answered once, in order; commands run alone |
| Controller and response streams (`ai/blocklist/controller.rs`, `controller/response_stream.rs`) | stream in flight, scheduled resumes, conversation status | query, follow-up, retry, park until online, resume, stop | action model, server or engine, network status | a stop or a query in the middle of anything; recovery racing both | a turn ends or asks the user; what is shown is so |
| Sharer's network (`shared_session/sharer/network.rs`) | stage, startup attempts and timeouts, reconnect future, event numbers, unacknowledged events, buffered inputs, cached prompt | start attempt, timeout, websocket callbacks, reconnect, downstream messages, record, send, stop | session-sharing server | attempts that overlap, late callbacks, abort races, retransmission | the server's log is what was recorded, without gap or repeat |
| Viewer's network and event loop (`shared_session/viewer/network.rs`, `event_loop.rs`) | stage, connections, reauthentications, buffer of events, catching up, role | join, reconnect, reauthenticate, process event, change role | the same server, terminal view | two connections at a time, events out of order and repeated | the terminal shows the log in order and once |
| Sync queue and update manager (`server/sync_queue.rs`, `server/cloud_objects/update_manager.rs`) | queue, dependencies, requests in flight, id map, revisions | enqueue, dequeue, the callbacks of four kinds of request, start, stop, clear | Warp Drive server, cloud model | edits that depend on creations not yet answered, lost answers, logout in mid-flight | nothing forgotten, nothing stuck, what is shown as saved is saved |
| Agent engine (`crates/uncaged_engine`) | one drive and one provider task per turn, the calls being accumulated, the live session of each conversation and its lock | lower a request, open the stream, read an answer, forward text and calls, prompt an agent, end or fail | controller (requests and streams), model services, CLI agents | turns stopped while they are answered, answers that end in the middle of a call, agents that exit | each stream keeps its contract and answers its own prompt; each call arrives once; every turn ends |
| Remote server's client (`crates/remote_server/src/client/mod.rs`) | pending requests, the two queues, the `disconnected` flag, reader and writer tasks | send, read, write, fail, time out, abort, drop | daemon over SSH pipes, manager (events) | a caller that adds itself while the reader gives up; a writer that outlives the reader | no caller waits for nobody |
| Remote server's manager (`crates/remote_server/src/manager.rs`) | state of each session, index of hosts, host-scoped requests | connect, handshake, reconnect, deregister, handle events, send to a host | clients, shells, subscribers | a shell that exits in the middle of anything, a daemon that starts anew, several sessions of one host | the index is exact, hosts announced as they are, nobody forgotten or resurrected |
| Queued prompts (`ai/blocklist/queued_query.rs`, `terminal/input.rs`, `terminal/view.rs`) | rows, row being edited, command in flight, text in the input | queue, edit, reorder, delete, send now, drain at a turn's end, drain at a command's end | controller, terminal, the newest AI block | two drains that know nothing of each other; a block's reason that stands for the turn's | no row fires into a turn or beside a command, none is forgotten |
| Orchestration events (`ai/blocklist/orchestration_events.rs`) | messages for agents that are busy | enqueue, deliver at a turn's end | controller | delivered exactly once | not modelled |
| Agent event driver (`ai/agent_events/driver.rs`) | cursor, back-off | stream, reconnect, hydrate | server | missed or repeated events | not modelled |

The components with no module, and why, are in `PROJECT.json` under
`components`: UI, editor, terminal emulation, completion, persistence,
JSON-RPC/LSP/IPC, MCP, file watching, settings sync, autoupdate and the
rest. `PROJECT.json` also lists the hazards, each at its line of code with the
properties that would catch it.

## Modules

| Module | Models | Uses |
|---|---|---|
| `SequenceHelpers`, `SequenceLemmas` | `Keep` (the elements of a sequence that are in a set), and lemmas about it and about `FlattenSeq`, `Tail` and `\o` | |
| `ActionModel` | `BlocklistAIActionModel`, its executor and `PendingPreprocessedActions` | extends `SequenceHelpers` |
| `AgentTurn` | `BlocklistAIController`, `ResponseStream`, the order of effects | extends `ActionModel` |
| `AgentTurnProofs` | theorems of `AgentTurn` | extends it, `SequenceLemmas` |
| `QueuedPrompts` | `QueuedQueryModel`, the input that fills it, the terminal view that drains it | extends `AgentTurn` |
| `QueuedPromptsProofs` | theorems of `QueuedPrompts` | extends it, `AgentTurnProofs` |
| `EngineProviders` | the providers' tasks, the CLI agents' sessions and locks, the models | |
| `EngineRequest` | how a request becomes the conversation shown to the model | |
| `UncagedEngine` | `run_turn` and `drive`, the client that sends, reads and stops turns | extends `EngineProviders`, `EngineRequest`; implements `ResponseContract` |
| `ResponseContract` | the abstract specification of the response streams: opened once, messages added once and only then appended to, ended once | |
| `UncagedEngineProofs` | theorems of `UncagedEngine` | extends it |
| `RemoteClient` | `RemoteServerClient`: callers, `reader_task`, `writer_task`, one set per session | |
| `RemoteServer` | `RemoteServerManager`: sessions, hosts, host-scoped requests | extends `RemoteClient` |
| `RemoteServerProofs` | theorems of `RemoteServer` | extends it |
| `OrderedLog` | the abstract specification of a shared session: events numbered, delivered in order, each once, until it is over | |
| `SharerNetwork` | the sharer's `struct Network`, its server left open | |
| `SharerSession` | the sharer with websockets and a server | extends `SharerNetwork`, implements `OrderedLog` |
| `SharerProofs` | theorems of `SharerNetwork` and `SharerSession` | extends `SharerSession` |
| `ViewerEventLoop` | the viewer's `EventLoop` | |
| `ViewerNetwork` | the viewer's `struct Network`, the terminal manager's part | extends `ViewerEventLoop` |
| `ViewerSession` | the viewer with websockets and a server | extends `ViewerNetwork`, implements `OrderedLog` |
| `ViewerProofs` | theorems of `ViewerEventLoop` and `ViewerSession` | extends `ViewerSession`, `SequenceLemmas` |
| `SyncQueue` | `struct SyncQueue`, what the update manager enqueues and learns, the server | extends `SequenceHelpers` |
| `SyncQueueInvariants` | the invariants its proofs rest on, and what the queue's methods do to its struct | extends `SyncQueue` |
| `SyncQueueProofs` | theorems of `SyncQueue` | extends `SyncQueueInvariants`, `SequenceLemmas` |
| `MC*` | instances for TLC: sets of model values, symmetry, budgets | |

Names follow the source: a variable has the name of its field, an action that of
its method or of the callback in it. `PROJECT.json` maps every definition that
models code to its lines.

### Agent Mode: state and actions

- A callback is an action with the guard `Quiescent`. Events emitted and not yet
  handled wait in `effects` and are handled one at a time by `HandleEvent`.
  `handle_action_result` calls itself (a snapshot cancels the other commands)
  and the start loop; what it has yet to record waits in `settling`, and
  `RecordAndWait`, `RecordLast`, `RecordAndContinue` are its three outcomes.
- `send_query` cancels first and sends last; `SendQuery` is its first half, the
  recording of what it cancelled its middle, `SubmitQuery` its second half. No
  callback gets in between.
- `Starts(queue, accepted)` is every outcome one run of
  `try_to_execute_available_actions` may have: how many calls it starts, which
  of them run at once and which as futures, and where it stops. Whether a call
  needs the user is open when the loop first comes to it; a refused call
  stays refused until accepted.
- `Kind` is the phase a call belongs to (`action_phase`): reads share a phase,
  a command or any other call runs alone. In the code a kind may depend on the
  call's arguments, never on time, so it is a constant here.
- What the recovery of a stream does is `recovery_action`, as in the code. An
  error is recoverable or not, the client is online or not, at each occasion.

What is left out of Agent Mode: one conversation, interactive, owned by this
client (not view-only or shared). Passive suggestions, the control a subagent has
of a long-running command, orchestration, slash commands, custom
inputs, calls that are `NotReady`, and what an executor does are not modelled. A
result that comes at once is always `ok`. After a `StreamFinished` or an error
nothing but the stream's end follows. A resume that fires with a stream in flight
is refused, as `send_request_input` does.

### Queued prompts: state and actions

- `QueuedPrompts` adds to `AgentTurn` the rows (`queue`, `editing`), the terminal's
  command (`terminal`), whether the input has text (`draft`), and `finish_reason`: the
  `FinishedReceivingOutput` on its way to the terminal view, with the reason the view
  will read off the newest AI block. Every step of the turn is a step here, by `Turn`,
  which says what that reason is; `Settled` adds the views' events to `Quiescent`.
- `FinishedReceivingOutput` and `QueuedCommandFinished` are the two drains. Both end
  in `DrainComplete`, which has the four outcomes of `drain_queued_prompts`: a prompt
  is submitted, a command started, the head restored to the empty input, the queue left.
  `DrainStopped` is the drain after an error or a cancellation.
- `SubmitRow` is `SendQuery` of `AgentTurn`: whatever the conversation is doing is
  cancelled, as it is for a prompt that the user submits.
- `held`, `jumped` and `strayed` are not in the code. `held` is set when a drain, a stop or a
  started command of the user's own has left the queue to the user, and cleared by the
  next turn or command; `jumped` is set when a turn and a queued command have been
  started side by side, by the user (send-now, a submitted query) or by a resume.
  `strayed` is set when a batch that outlived a stop queues one of its calls. It must be
  a history: the user may cancel that call again, which leaves no trace, while the last
  response's batch is still being preprocessed; this one then starts a turn beside a
  queued command. `Astray` is `strayed` or the resume of a cancelled stream
  (`stale_resume`). `QueueDrains` and `FiresAlone` say that these are the only
  exceptions.

Left out: the locked first row of a cloud run, slash commands in a row, rows sent when
an agent's own long-running command ends, viewers of a shared session.

### The agent engine: state and actions

- A turn has a drive (`drive`, `started_text`, `stream`) and a provider task
  (`provider`, `accum`, `events`). The stream is a sequence of response events and the
  turn each is an answer to (`of`), which the code does not have and the property is about.
- The HTTP models are external: `ModelSays`, `ModelCalls` and the like are what they may
  send, `ModelEnds` how an answer may end (a finish reason, `[DONE]` or `message_stop`,
  the end of the bytes, an error). How the two providers accumulate and flush calls
  is theirs: `BlockStops`, `ModelDone`.
- A CLI agent lives in the slot of its conversation (`slots`): a lock, a live session,
  the prompts it has been sent and the lines it has printed. `LockSlot`,
  `OpenSession`, `Prompt`, `ReadLine`, `PipeBreaks` are the steps of `AcpProvider::run`
  between its awaits; `AgentSays`, `AgentAnswers`, `AgentExits` are the agent's.
- The client is the controller cut down to what the engine sees of it: `SendTurn` (a
  query, results or a resume, with any backend), `ApplyEvent`, `StopTurn`, which drops
  the stream at any point while the drive and the provider run on.
- A request is lowered by `Parse`: parts (query, text, call, result) pushed one after
  the other, coalesced by role, with the two kinds of deduplication.

Left out of the engine: the bytes (SSE framing, JSON), tool schemas, models and
effort, images and the attached context, the catalogue of connections and how the
active one is stored. The handshake with an agent is one step. Tokio's lock is fair;
here any waiter may get it next, which is more. The agent prints text for the
prompt it is answering, and no text follows a model's finish reason. The client's
own retries of a request are in `AgentTurn`.

### The remote server: state and actions

- `RemoteClient` has, for each session, a connection: `wire`, the caller's entry in
  `pending_requests`, the outbound queue, the flag `disconnected`, the places of the
  reader and the writer, the events on the way to the manager. Each access to the
  map, the flag or a channel is a step (`ReaderStops`, `ReaderClears`, `ReaderEnds`,
  `WriterWrites`, `WriterFails`, `WriterReleased`, ...): between any two of them a
  caller may come.
- `RemoteServer` has `RemoteSessionState` for each session and where its background
  task is (`task`, `attempt`). What the task sends back to the main thread by the
  spawner is an action; `HasEntry` is the check its closure makes first. `StreamEnded`
  is the drain loop's completion callback.
- A host-scoped request goes to some session of its host and is retried on another
  when its write fails.

Left out: the second `SessionBootstrapped`, the cache of directories, pushed data
events and snapshots, telemetry, tokens and their rotation, a second
`connect_session` of one session.

### Shared sessions: state and actions

- Connections are numbered. Each has a channel (`proxy`), a stream (`sock`) and,
  in the session modules, a wire (`wire`, `down`). The sharer's startup attempt
  `a` uses connection `a`, reconnects use the following ones.
- `SharerNetwork` alone lets every downstream message arrive on every open
  socket at any time: what it satisfies it owes to no server. `SharerSession`
  and `ViewerSession` add the server and the transport. Both are outside the
  repository and modelled from what the client relies on: the server appends
  events it expects next, answers a reconnect with the number of the last event,
  acknowledges; a connection carries messages in order, may break at any time
  and loses a part of what it carried.
- The viewer's session lets events arrive out of order (`Unordered`), which
  the buffer of the event loop is there for.

Left out: the selection and the developer-input context (resent like the
prompt), fire-and-forget role and permission messages, the batched writes to the
pty. `SessionEnded` ends the viewer's shared session; that of an ambient agent goes through
`end_current_ambient_session` (terminal_manager.rs:896-906, 1749-1797), which may keep the pane
for a follow-up session and is not modelled.

### The sync queue: state and actions

- `sync_queue` is the struct. Its methods are operators from one struct to the
  next (`Pushed`, `Dequeued`, `DependencyFailed`, `CreationSucceeded`, ...), and
  every call or callback an action. `told`, `answered`, `failed` are the events it has
  emitted, `dropped` the items it has skipped with a log line only; nothing reads them but
  properties and the enabling of `Resync`. A change of an object clears its `failed`.
- An object may be put into any folder the cloud model has, created or not. `create_object`
  of one whose folder has no server id by then is skipped (sync_queue.rs:1199-1208): `Skipped`
  drops it, emits nothing, and leaves it in `waiting_response`, as the code does.
- A request is `sent`, `applied` or `refused` at the server before its callback.
  An answer may be lost whether or not the server applied the request.
- `Resync` is enabled exactly when the last event told of an object is a
  failure and nothing of it is pending. The server denies only an object it
  has not applied. At startup objects never created are loaded, folders and workflows in
  folders that are loaded too among them, in any order; pending updates and actions are not. A workflow's environment variables are treated as
  its enums are.

## What the runs check

Twelve runs, each a question of its own.

| Run | Question | Distinct states |
|---|---|---|
| `agent_turn` | Two queries, a stop, two commands and two reads in any responses: is each call answered once (`OneResultPerCall`) and in order (`FollowUpInCallOrder`), do commands run alone (`PhaseBarrier`), is no conversation left in progress (`InProgressMovesOn`) or reconnecting (`ReconnectingHasARecovery`) with nothing to move it on? | 4.9 million |
| `queued_prompts` | A prompt and a command queued, edited, sent or left to fire during two queries' turns with a read, errors, a retry, resumes and two stops, beside the user's own commands: does each row stay one row (`QueueTypeOK`), does none fire into a turn or beside a command (`FiresAlone`), is none forgotten (`QueueDrains`, liveness)? | 257 thousand |
| `agent_lost_result` | *violated*: a follow-up answers every call of its response | until violated |
| `engine` | Two turns, any backend for each, a stop at any point, answers of two pieces: does no stream answer another turn's prompt (`AnswersOwnPrompt`), does each completed call reach the client once and in order, in a stream it can apply (`ClientFollows`), is the contract kept (`ImplementsResponseContract`), does every turn end (`EveryTurnEnds`)? | 731 thousand |
| `engine_forgotten_turns` | *violated*: each turn is presented to the model once | until violated |
| `remote_server` | Two sessions, two daemons, a call and a host-scoped request, two attempts, every shell free to exit: is the index exact and is each host announced exactly while connected (`HostsTracked`), does nobody wait for a host that is gone (`NoRequestWithoutHost`) or for a reader that is over (`NoCallOutlivesReader`), is no session forgotten (`NobodyForgotten`) or resurrected (`StaysDeregistered`)? | 1.6 million |
| `remote_lost_connection` | *violated*: a session whose connection is gone does not stay connected | until violated |
| `sharer_session` | With overlapping attempts, broken connections and late callbacks: do the unacknowledged events have no hole (`UnackedContiguous`), does the sharer talk to one session (`OneSession`), is nothing the server lacks forgotten (`NothingLost`), do inputs and the prompt catch up (`LatestStateArrives`), is `Finished` final (`FinishedForGood`), is `OrderedLog` implemented? | 1.5 million |
| `sharer_live` | Of a sharer with one startup attempt whose resumed connections do not break before they are confirmed: is every event delivered, or the session over? (`OrderedLog`'s live specification) | 14 thousand |
| `viewer_session` | Events out of order and repeated, breaks, and reauthentications that run two connections at a time: processed in order and once (`AppliedInOrder`, `ImplementsOrderedLog`), active with the last role exactly when caught up (`ActiveIffCaughtUp`), no gap after a reconnect (`StreamsContinue`), no role change lost (`RoleCaughtUp`)? | 1.4 million |
| `viewer_live` | Of a viewer that does not reauthenticate, whose resumed connections do not break before they are confirmed: is every event shown, or the session over? (`OrderedLog`'s live specification) | 44 thousand |
| `sync_queue` | Is nothing forgotten (`NothingForgotten`), nothing stuck (`NothingStuck`: nothing waits for what is gone but for a skipped creation, and the queue keeps draining), is none of one's own edits refused (`OwnEditsAccepted`), is what is shown as saved or as being saved so (`ShownStatusIsTrue`, but for skipped creations, failures and denials)? | 1.1 million |

Each property has a mutant in `PROJECT.json`: a plausible bug in one definition
that makes TLC find it violated. The mutated operators stand in the modules,
before what they replace, marked `Mutant:`.

### Findings

The three violated runs are disagreements between the code and its documents.

- **A lost result** (`agent_lost_result`). `handle_action_result` emits
  `FinishedAction` before it starts the next queued calls (action_model.rs:1265
  and 1317). A call that runs at once leaves nothing pending or running behind,
  only an event *behind* that `FinishedAction`. The controller therefore sees
  nothing unfinished and sends the follow-up without the last result, which the
  comment at 1251 rules out.
- **A lost connection unnoticed** (`remote_lost_connection`). The manager leaves the
  reader's `Disconnected` to the end of the event stream (manager.rs:3579), but the
  writer holds a sender of that stream and waits for something to write, which the
  manager's own client keeps possible. The session stays `Connected`, without a
  reconnect, until somebody writes.
- **Forgotten turns** (`engine_forgotten_turns`). request_parse.rs:1-6 says the history
  in the tasks and the new input together "present each turn to the model exactly
  once". Only response streams add to a task, and the engine's stream adds text and calls:
  from the second turn on the model sees its own words without the queries they answer
  and calls without their results.

### Observations

Found on the way. They are what the code does, and have no run: no document of the
repository says otherwise, or a property that excepts them is the more useful one.

Agent Mode:

- A stop or another query while a batch is being preprocessed does not cancel the
  batch (`cancel_all_pending_actions`, action_model.rs:1078): its calls are queued and
  started when the futures resolve, against controller.rs:2641, "if the request
  finished, but actions from the response are pending or mid-execution, cancels all of
  them".
- A stop between a recoverable error and the stream's end cancels the stream with
  `should_resume` set: the conversation is marked cancelled and a resume scheduled all the
  same (controller.rs:3031), against item 15 of specs/REMOTE-1894/PRODUCT.md.
- These two can leave the conversation shown as in progress with nothing to move
  it on. `InProgressMovesOn` excepts exactly these histories (`StoppedCallRan`,
  `stale_resume`); no other gets stuck (`TurnsMoveOn`).
- `AIApiError::is_recoverable` answers `true` for everything but HTTP and
  transport errors (server_api.rs:315-325), quota and overload errors included, which
  item 12 of the same PRODUCT.md excludes from recovery. (Not modelled: errors
  are just recoverable or not.)
- Cancelling the last of several calls while an earlier one has a result sends a
  follow-up all the same.
- `send_query` drains results before those of the running calls it cancels have
  been recorded; these miss the new request. Drained results may be unsorted when
  a phase was still running.
- `schedule_auto_resume_after_error` overwrites an earlier handle without
  aborting it.

Queued prompts (specs/gh-11912/PRODUCT.md is their document):

- Neither drain asks for the other: the one at a turn's end does not look at
  `command_in_flight`, which queued_query.rs:166-170 says "gates the next drain until the
  command completes", and the one at a command's end does not look at the turn. Once the
  user (send-now of a row, a query) or a resume has started the two side by side, the end
  of either fires the next row into the other. `FiresAlone` excepts this (`jumped`) and
  passes; `RowsFireAlone` proves that nothing else gets there.
- An error that hides a scheduled resume drains all the same: the head goes into the
  input although the turn will go on.
- A stop while calls run, with no stream, emits no `FinishedReceivingOutput`: the queue
  is left as it is, without a restored head. Calls cancelled one by one, too.
- A queued command that the terminal does not take, with a draft in the input, leaves
  its row at the head with nothing to fire it.

Agent engine:

- A call cut off by the end of an answer (finish reason `length`, a block that stops
  after `max_tokens`, the end of the bytes) is delivered, with `{}` when its arguments do
  not parse, although providers/mod.rs:24 calls it "A fully-assembled tool call". A
  stream that just ends counts as done; Anthropic's drops the call it was in.
- Requests of an agent (permissions) are never answered, and one whose id is the
  one awaited is taken for the answer (acp.rs:330; 263-264 say "responses stay
  unambiguous").
- The slot of a session is keyed by the conversation alone: after a flip to another CLI
  agent the old one goes on answering (config.rs:169-170, connections.rs:4-7).
- A later request may show calls without their results. A resume with an agent sends
  an empty prompt. A stop never sends `session/cancel`: the next turn waits for
  the rest of the old answer.
- The attached context is pushed before the results and so separates calls from them
  (request_parse.rs:100-105). Not modelled.

Remote server:

- Messages queued behind a write that failed for good are dropped without a
  `HostScopedWriteFailed`: a host-scoped request among them waits for its timeout
  although another session of its host is connected.
- Write and decode failures of a session that is not `Connected` are ignored
  (manager.rs:3424).
- `Disconnected` is not always the last event (client/mod.rs:70): a failed write
  may follow. Deregistering a reconnecting session announces `HostDisconnected` twice.

Shared sessions:

- A connection that ends in stage `Reconnecting` restarts nothing. A resumed
  connection that breaks before it is confirmed leaves the sharer (and the
  viewer) reconnecting for good: with `ResumeMayDrop = TRUE` the live
  specification fails. The live runs set it to `FALSE`; the safety runs do not.
- A startup connection that lost is ignored only until the stage changes
  (network.rs:925): its late close during a reconnect is met in stage `Reconnecting` and
  closes the channel in use and aborts the reconnect (1210), which nothing starts again. With
  `MaxAttempts = 2` the live specification fails for this reason too, whatever
  `ResumeMayDrop`. `sharer_live` has one attempt, as every sharer but an ambient
  agent's has (`startup_max_attempts`, network.rs:247); `sharer_session` has two.
- `close_without_reconnection` aborts only the handle of the first reconnect
  attempt (context.rs:350), so a size limit hit while a reconnect is in flight
  leaves a finished session that still opens a connection and resumes.
- `EndSession` is dropped unless the stage is `StartedSuccessfully`.
- A viewer whose websocket ends between `Initialize` and the answer stays
  pending: nothing is emitted.
- The late end of a connection that a reauthentication closed is taken for the
  end of the new one, and a healthy connection is closed and reopened.
- A role change that such a connection still brings, handled after the answer on the new
  one, leaves the viewer with the older role. `RoleCaughtUp` is stated of a viewer that has
  not reauthenticated; without that TLC finds it violated with `MaxReauth = 1` and
  `MaxRoleChanges = 2`.

Sync queue:

- A denied creation counts as a success for what waits for it
  (sync_queue.rs:1593), so a workflow may be sent with the client id of an enum
  that will never exist, against the comment at 477.
- After a failed request of an object, the success of an older one is what is
  shown (update_manager.rs:345): the object is shown as saved while the server lacks its
  last edit. `SyncedMeansSaved` excepts an object of which a change has failed or been denied
  since its last edit; once it is edited or resynced, the property holds of it again.
- An object created in a folder whose creation is unanswered, or has failed, is dropped with
  a log line only (sync_queue.rs:1199-1208). It stays in `waiting_response`, so an update
  of it waits for it for ever, and the object is shown as being saved for good. The run has such
  a folder and the theorems any number; the case is the named exception (`DroppedCreations`)
  of `WaitsOnlyForPending`, `NothingForgotten` and `InFlightMeansPending`, each of which TLC
  finds violated without it. What the properties say beyond it: nothing else is
  waited for in vain, no update is ever dropped so, and the queue goes on past it.
- A denied object is created again with its newest content while an older update
  of it still waits for an enum; the server goes back to the older edit, and the object
  is shown as saved. It takes five items, more than the run has; TLC found it with
  `MaxItems = 5`. It is why a denial counts as a failure in `failed`.
- The retry of an update whose answer was lost carries the old revision and is
  refused, hence the exception `lost = 0` in `OwnEditsAccepted`.

### Bounds, and why they are enough

- **agent_turn**: two calls of each kind, at most two in a response, one retry
  (three in the code), two queries, one stop. Two calls are the least for
  phases, order and a snapshot that cancels another command; two queries and
  four calls give a stale batch and a fresh one, and a late future of the first turn
  in the second. One retry has both sides of the budget. Commands and reads are symmetric.
- **queued_prompts**: a prompt and a command, so that each meets the other's drain, in
  either order; one call, a read (the terminal is the user's and the queue's here), two
  queries of which the row's prompt keeps its share, one retry, two stops. With these a query,
  the user's or the row's, interrupts a turn and the command fires after it, and either row
  fires after a stop. The bounds are chosen for `QueueDrains`: of the other two any bound
  is a theorem. `TypeOK` of the turn and the rest are `agent_turn`'s, with more calls.
- **engine**: two turns of one conversation, each with any backend, a stop at any point;
  answers of at most two pieces; two indices of calls, the least for calls that are
  accumulated side by side; calls of an unknown tool in the first turn only
  (`AllButOne`); a stopped turn's client asks for nothing more (`SilentOnceStopped`).
  Two turns are what an agent's session and its lock need to be shared.
- **remote_server**: two sessions and two daemons (a host may answer with another
  identity after a reconnect), one call of a client, one host-scoped request, two
  attempts. Sessions and hosts are symmetric. `remote_lost_connection` needs one session.
- **sharer**: `Budget` lets events, inputs and prompt changes compete (2 in all)
  and startup failures and reconnects too (2 in all), so that any two features meet any two
  faults. Two attempts are the least that overlap; the size limit is 2 events,
  so it is reached. `sharer_session` has no second try of a reconnect
  (`MaxRetries = 0`; `sharer_live` has one).
- **viewer**: the same with 3 and 2. Three events give a gap, a repeat and either side of
  the boundary of catching up; the theorems lift every bound. `viewer_live` leaves out reauthentications and inputs.
- **sync_queue**: an enum, a workflow that refers to it, a folder, two preferences made in
  bulk, three items, one retry, and one mishap: a lost answer or a logout (the properties
  that except the one mostly except the other too). Three items chain a creation, what waits for
  it, and what waits for that: a folder, an object skipped because of it and an update that
  waits for it, among others.

The budget is a `CONSTRAINT`: TLC checks the first state beyond it and does not
go on. No run with fairness has one. `CHECK_DEADLOCK FALSE` stands where the
system may really stop: a session is over, the bounds are spent, the queue is
empty. Only `engine` has an action constraint, `SilentOnceStopped`, which restricts
what the environment does and takes no step from the engine.

### Fairness, and why the code justifies it

Weak fairness throughout, and only of what does not depend on anyone's will:

- the main thread handles what is queued (`HandleEvent`, `Deliver`/`Discard`,
  `SocketGone`, the callbacks of connects, reconnects and timers): the executor
  runs every callback that is ready;
- a call's future and a batch's preprocessing finish, each on its own: commands
  are the exception in reality (one may run for ever), but then it is the user's
  to stop, so `QueueDrains` is a statement about commands that end;
- the server (in this fork the engine, with the model provider behind it) ends every
  response, well or with an error, and the client comes back online; a scheduled
  resume fires. A response that hangs is the user's to stop, as a command is;
- a connection that is up carries what was sent, and the server reads it;
- in `queued_prompts` the views handle their events and a queued command ends
  (`QueueFairness`);
- in `engine` some turn advances while one can (`Advance(t)`: its drive, its provider, and
  the model or agent that owes it an answer); an answer has an end, so no turn is passed
  over. An agent that prints nothing for ever hangs its turn in reality, as the code has
  no timeout: the user stops it;
- in `remote_lost_connection` a session's task, its reader and writer where they have
  something to do, and the drain of its events.

There is no fairness for what the user does (queries, stops, acceptances, closing
a pane), for events the terminal produces, for acknowledgements, for breaks,
timeouts or role changes. The sync queue has no liveness run: that it keeps going
is a part of the invariant `NothingStuck`.

## What is proved

TLAPS proves these for every value of the constants. Nothing but the named
assumptions on the constants is assumed: `SharerAssumption`, `EventLoopAssumption`,
`ActionAssumption`, `TurnAssumption`, `RowAssumption`, `ProviderAssumption`,
`ClientAssumption`, `ManagerAssumption`, `SyncQueueAssumption` (bounds are natural numbers, sets that must
not meet do not, `None` is no call, stream, row, reason, object or status; the objects of the sync
queue are finitely many).

- **`AgentTurnProofs!CommandsRunAlone`** (`PhaseBarrier`) is inductive by itself.
  The lemma that carries it, `StartsKeepBarrier`, says that whatever one run of
  the start loop starts may run beside what ran before and beside each other:
  by the call that comes later in the queue, which had to join all before it.
- **`AgentTurnProofs!RetriesWithinBudget`** (`StreamTypeOK`): no stream spends more
  than `MAX_RETRIES`, a parked retry included, which is why the invariant says
  that a parked stream has a retry left.
- **`AgentTurnProofs!RecoveryIsComing`** (`ReconnectingHasARecovery`). It holds only
  between callbacks; its inductive strengthening `RecoveryInv` also says what holds
  in the middle of one: only an open attempt is parked, a query that has cancelled the
  recovery is about to be sent (`submitting`), and the end of a stopped stream is about
  to make the conversation cancelled (`Stopping`).
- **`AgentTurnProofs!AgentTypesHold`** (`TypeOK`) and **`EveryCallAnsweredOnce`**
  (`OneResultPerCall`). That no result is recorded twice is not inductive: a late future, a
  stale batch or an event on its way may each be about to record one. The strengthening
  `CallsInv` says where a call is. `Once`: no place holds a call twice. `InOnePlace`: the
  eight places (the response being received, batches being preprocessed, the queue, the
  futures waited for, the events that report a result, `settling`, the finished results,
  what a request took) are apart, and hold only calls some response has made. Each step
  moves calls from one place to a later one.
- **`AgentTurnProofs!ResultsInCallOrder`** (`FollowUpInCallOrder`) from `CallsInv` and
  `Ordered`: whenever nothing runs and nothing is left to record, the finished results are
  in the order of the calls, since `RecordLast` sorts them (`InCallOrderSorts`).
- **`AgentTurnProofs!TurnsMoveOn`** (`InProgressMovesOn`) from `TurnInv`, which adds to
  `CallsInv` and the invariant of `RecoveryIsComing`:
  - `Underway`: a running call is one the executor waits for or has reported; a
    cancellation that announces a follow-up has one coming; a finished action that is not
    handled yet has a result, until a request has taken it;
  - `Alone`, one turn at a time: a query goes out with nothing else in motion; no resume is
    scheduled beside a stream or another resume; with a stream in flight or a resume to come
    the older calls that may still report more than a cancellation are ones the user has
    stopped, and so are those of every batch but the last;
  - `Moving`, the property inside a callback too, where an event still waits to be handled.

  The last two hold until a stopped call runs or a cancelled stream is resumed, the
  histories the property excepts, and each needs the other parts: a follow-up goes out
  with no batch waiting because it reports a call that was not stopped, and a result
  recorded beside a stream shows the conversation in progress only while the stream is
  open.
- **`SharerProofs!TypeCorrect`**, **`UnackedStayContiguous`**,
  **`FinishedIsFinal`**, against a server that may say anything. The first two come
  from one invariant `IInv`: `TypeOK`, `UnackedContiguous`, `event_no <=
  num_bytes_shared` (only the byte limit bounds the event numbers) and a retry left
  for every reconnect that backs off. `TypeOK` needs the contiguity, since the flush
  after a reconnect stops only at the first missing event. Finality needs no
  invariant: every action that sets another stage than `Finished` looks at it first.
  `SessionIsOpenNetwork` carries them over to the composition with a server.
- **`SharerProofs!NeverAnotherSession`** (`OneSession`), **`EventsAreKept`**
  (`NothingLost`), **`StateArrives`** (`LatestStateArrives`) and
  **`SessionImplementsLog`** (`ImplementsOrderedLog`), for any number of attempts,
  reconnects, events, inputs and prompts. All follow from `SInv`. Its parts: `Logs` (a
  log is 0, 1, 2, ...; only the sharer's session has one), `Phases` and `Sockets` (what
  each stage says of the connections), `Asking` (the request that opens a connection is
  alone in its channel), `Answered` (its answer comes first, and what a
  `SessionReconnected` says of the server's log is still true when it is read),
  `Serving` (one connection speaks for the session), `NoGap` (the events in that
  connection's channel continue the log), `Kept`, `PromptSent`, and `InputsSorted` (the
  server's inputs, those in the channel, the buffered ones and the next are in
  order). `NoGap` needs `Answered`: the flush after a reconnect starts where the
  answer says, which is right because nothing else may have fed the log since.
- **`ViewerProofs!EventsAppliedInOrder`**, **`NoEventHeldBack`**,
  **`ActiveOnceCaughtUp`** from `LoopInv`, for any number of events, in any order,
  any number of times; about the event loop alone (`LoopSpec`).
- **`ViewerProofs!NetworkTypesHold`** (`NetworkTypeOK`), **`SessionAppliedInOrder`**,
  **`SessionActiveOnceCaughtUp`**, **`ReconnectLeavesNoGap`** (`StreamsContinue`) and
  **`SessionImplementsLog`** (`ImplementsOrderedLog`), about the viewer with its
  connections, reauthentications and a server (`SessionSpec`), from `VInv`. It adds to
  `LoopInv` what the sharer's invariant says of its side (`Phases`, `Sockets`,
  `Asking`, `Answered`), that nothing is read ahead of the answer that creates the
  event loop (`AnswerFirst`), and `NoGap`: of each connection the server serves, the
  viewer has, or finds on it, each event from `next_event_no` on. It holds after a resume
  because the request asked for no later event than the viewer lacked when it was
  answered (`Asking`), although the old connection may bring more meanwhile.
- **`ViewerProofs!ViewerCatchesUpRole`** (`RoleCaughtUp`), about the same, from `VInv` and
  `RoleInv`. While the session lasts and no reauthentication has begun one connection is
  open at most (`OneOpen`), the viewer has a role once it has joined (`HasRole`), and what
  a connection it is served on still brings ends with its role: the newest message that
  bears one, an answer or a `ParticipantRoleChanged`, has it, or the viewer has it already
  (`RoleComes`, with `Brings`). The connection is part of the invariant because an event
  may overtake others but no role change, and because what a resumed connection brings
  first is its answer, with the role of that moment. That `RoleCaughtUp` must exempt
  reauthentications came out of the attempt to prove it without (Observations).

- **`RemoteServerProofs`**, for any number of sessions, hosts, calls and requests:
  `TypeCorrect`; `HostsStayTracked` (the index of hosts is exact and a host is announced
  exactly while a session is connected to it); `NobodyWaitsForALostHost`;
  `SomebodyGoesOn` (a session that is not settled has somebody who will move it on);
  `CallersReleased` (no caller waits for a reader that is over); `NeverResurrected` (no
  late closure brings back a session that was deregistered). The inductive invariant
  `IInv` is the conjunction of these with `TypeOK`, `TaskFitsState` (where a session's
  task is, by its state), `HostRemembered` (a session that reconnects knows its host)
  and `EntryDropped` (the entry of a caller that has found the flag unraised goes with the
  reader that clears the map).
- **`UncagedEngineProofs!OwnPromptAnswered`**: whatever an agent prints, late, for a
  stopped turn or with other sessions beside it, a turn's stream shows only what answers
  its own prompt. It rests on `LockInv` (the holder of a slot's lock is the one turn at
  work with its session), `Started` and `Owned` (the unread lines of a session answer
  the holder's prompt).
- **`UncagedEngineProofs!ContractImplemented`**: every step of the engine is a step of
  `ResponseContract` or a stutter, by three lemmas: how a stream opens, how it
  goes on, and calls on their way to it. `TypeCorrect` is what they assume.
- **`UncagedEngineProofs!ClientKeepsUp`** (`ClientFollows`), for any number of turns,
  calls and pieces of text, from `FollowInv`. A call's way is the accumulator, the
  provider's events, the stream, the client's history: `PipeFollows` says that each part
  of it holds a call at most once, in call order, and only calls that come after those of
  the parts further on (`AccumOrder`, `EventsOrder`, `StreamOrder`, `HistoryOrder`), and
  that no completed call is outside it (`Underway`). `StreamShape` says what a stream may
  begin with, that a message is added before it is appended to and that the end is its
  last event; `Delivered` that a turn is done only when its provider is over and its
  stream read to the end, so nothing is underway any more.
- **`SyncQueueProofs!TypeCorrect`** (`TypeOK`), **`QueueMoves`** (`NothingStuck`) and
  **`ChangesAccounted`** (`NothingForgotten`), for any objects, folders
  still to be created included, any number of items, lost answers, retries and logouts. A
  creation that was skipped is the one exception of `QueueMoves`; `ChangesAccounted` says
  that besides it only actions are skipped so (Observations).
  Neither is inductive. `QueueInv` adds to them `Well`, the invariant of the dependency
  maps. An item is `Flying` if it is waited for without being queued: what is in flight, and
  the creations that were skipped, which the maps do not tell from it. Item numbers are unique
  in the queue and in flight (`Numbered`); a dependency names an item that is queued or flying
  under the name its end would let go, an item or an object of a bulk that is still counted
  (`DependenciesLive`); what is waited for under an id is flying and would be looked up under
  that id (`WaitingLive`, `CountedLive`); a bulk waits for nothing, so no failure takes it out
  of the queue before its objects are counted (`BulksWaitForNothing`). `WaitingLive` and
  `CountedLive` are what makes `ItemsWith` return only names that are live when a new item
  infers its dependencies from them.
  The methods are functions from one struct to the next, so there is a lemma per method
  for `Well` and one for `Progress` (every queued item is kept, sent or answered), and an
  action's proof composes them: a callback leaves no trace of its item (`Traceless`), then
  its request may go (`EndedKeepsWell`), then `dequeue` runs (`DequeuedKeepsWell`). A bulk's
  objects come one by one, so its callback is an induction over them (`NextObject`).
- **`SyncQueueProofs!NoOwnEditRefused`** (`OwnEditsAccepted`), for the same bounds and
  from `QueueInv` and `EditsInv`: while no answer is lost and nobody logs out, `EditsHold`.
  - `Orderly`: an update waits for every earlier one of its object and none is sent while
    another is in flight (`UpdatesWait`), which needs that the queue finds the earlier ones
    by either id (`UpdatesKnown`) and that nothing creates an object twice (`CreatedOnce`).
  - `Current`: every update that is queued or in flight carries the revision the cloud model
    has, or none.
  - `Revisions`: the server is ahead of the cloud model only by a request that is applied and
    not answered. With `Orderly` there is no other request for that object then, so the
    revision of an update that arrives is the server's own.
  The queue's methods take items away and let dependencies go (`Eases`); `EasesKeepsOrder`
  says once why that keeps the order. Two lemmas carry the new facts: `UpdatesInferred`, that
  a new update waits for every update of its object, and `RevisedCurrent`, that the updates
  that are queued when an answer comes all learn its revision.
- **`SyncQueueProofs!StatusShown`** (`ShownStatusIsTrue`), for the same bounds and from
  `QueueInv`, `EditsInv` and `StatusInv`. The work of an object is the changes of it that are
  queued or in flight, so both halves compare what is shown with the work left to do.
  - `BeingSaved`, until a logout: an object that is shown as being saved has work, or its
    creation was skipped (`NotCreated`). A step that takes other work away reports it
    (`Reports`, `Stays`), and a change of the content adds to it.
  - `WillBeSaved`, until an answer is lost or the user logs out: of an object of which no change
    has failed or been denied since its last edit, the work leads to that edit (`LeadsTo`).
    When there is none and the object is shown as saved, the server has the edit; when there
    is some, its latest item carries it. A creation comes before the updates, and while there
    is one the object is not shown as saved, so that a skipped creation may leave no work and
    no lie. `SyncedMeansSaved` is the case without work; it is not inductive by itself, as
    it says nothing of an object that is still being saved.
  - `EditsApplied`, in `SavedShown` with it: a change that is applied and not answered is the
    last the server knows of. So when the last item is answered its edit is the server's; no
    update was refused meanwhile, which is `Revisions` of the theorem before.
- **`QueuedPromptsProofs!RowsStayDistinct`** (`QueueTypeOK`) for any rows and bounds.
  It is inductive by itself; the work is in what removing, inserting and appending do
  to a sequence without repetition (`RemoveAtKeepsInjective`, `InsertAtKeepsInjective`).
- **`QueuedPromptsProofs!RowsFireAlone`** (`FiresAlone`): a drain looks neither at the
  turn nor at the queued command, so that it finds neither must follow from what can
  have come before it. `FiringInv` adds to `TurnInv`, until a run is `Astray`:
  - `CompleteIsOver`: a block that finished as complete was the last of its turn; at most
    the end of a stream the user stopped is still to be handled.
  - `CommandBesideNone`: a queued command that was started alone is still alone. A stopped
    batch may end beside it, but releases nothing that could start (`IdleBatch`), and the
    future of a cancelled call changes nothing (`IdleCallback`).
  - `Course`, which these two rest on: what the conversation shows as a turn goes on. A
    stream being received is in progress, and what is still to be handled beside it has
    a follow-up (`StreamShown`, `QueryFollows`); a batch the user has not stopped is the
    only thing its turn is about (`BatchAtWork`); a turn that is over has no call waiting
    (`OverIsIdle`); the end of a stopped stream is handled alone (`StopsAlone`).
  - `NoneStopped`: no call in hand is one the user has stopped. This is where a batch that
    outlives a stop would break in, and where `Alone` of `TurnsMoveOn` applies.

`SequenceLemmas` proves the lemmas these share. Two of them (`LeastNumber`,
`InductionOnASet`) are induction for a given set, which needs no operator as a parameter;
with them what `FlattenSeq`, `Keep` and the loop over a bulk's objects return is proved for sequences of any length.

Model-checked only:

- liveness (`QueueDrains`, `EveryTurnEnds`, `OrderedLog`'s live specifications), which
  is beyond the prover.

## Not modelled

Most of the repository is a user interface: views, panes, the editor, settings pages,
themes, completion, rendering, a terminal emulator. Their state is changed by one thread
in answer to one event at a time, and what could be wrong with them is in what they
show. No property of an order of events speaks about them, so a model would restate
their assignments; that is why the lines modelled are few beside the lines there are.
What is left with an order of its own:

- orchestration events and the agent event driver, which are in the plan;
- MCP, LSP and JSON-RPC: request tables of the kind `RemoteClient` models, with
  third-party peers;
- batched writes to the pty (in the plan), presence, selections and the heartbeat of a
  shared session: last message wins, or dead code;
- polling and merging of Warp Drive objects: the server is the only writer in
  `SyncQueue` besides the client's own requests;
- persistence: one writer thread that applies events in the order of a channel.

## Plan

Done: the agent's turns and its queued prompts, the engine, the remote server, both ends
of a shared session, the sync queue.

Next, in this order:

1. The server's objects as a second writer in `SyncQueue`, and the count of requests in
   flight.
2. The agent event driver (cursor, reconnects, hydration) and orchestration events
   over `QueuedPrompts`.
3. Batched writes to the pty, sharer and viewer; sharer and viewer end to end through
   `OrderedLog`.

The runs are kept to a dozen of a few minutes each, so that all of them can be
repeated on every change: a new run absorbs or replaces one that has become a special
case of it.
