# LG TV manager: a TLA+ verification

`lgtv_manager` is a Rust crate that keeps one WebSocket connection to an LG webOS TV
for its caller. A manager task (`LgTvManager::run`) takes the caller's messages, drives
a state machine task, starts one WebSocket task per connection, listens to a task that
pings the TV, reconnects when it is asked to, and persists the pairing key. The
difficulty is in how those tasks interleave: four of them, six bounded channels, a join
handle, a status that is a delayed copy of another task's state, a reconnect flow that
six handlers change, and a file that outlives all of it.

This directory models the crate in four compositions, checks them with TLC and proves
their main safety properties with TLAPS. Source paths below are relative to the
repository.

## 1. Inventory

### The parts

| Part (source) | State it keeps | Operations | What makes it correct |
|---|---|---|---|
| **Manager** (`src/lgtv_manager.rs`, `lgtv_manager/*.rs`) | `manager_status`, `connection_details`, `last_good_connection`, `ws_url`, `client_key`, `is_connection_initialized`, `is_manual_disconnect_requested`, `is_pairing`, `reconnect_flow_status`, `reconnect_attempts`, `session_connection_count`, `ws_join_handle`, both ends of the WebSocket channels | one handler per caller message, per machine Output, per WebSocket update, per network result; `force_manager_reset`, `initialize_manager_state`, `initiate_reconnect` | the status is the machine's; no task is forgotten or awaited in vain; retries happen when they are asked for and only then; nothing of an old connection leaks into the next |
| **State machine** (`src/state_machine.rs`) | the state, an input and an update channel | `transition`, `output`, the task, cancellation | every Input is answered by a State and an Output in that order, or by a TransitionError |
| **WebSocket client** (`src/websocket_client.rs`) | the connection, the connection test, two channels to the manager | connect, send, receive, ping, shut down | every task ends once it is told to, replaced or cut off, and says so |
| **TV network checker** (`src/tv_network_check.rs`) | a copy of the TV's address, is-on-network flag, test status, is-pinging flag, notifications | take an address, take a request, tick, ping, notify | results are for the address in use; every new address is pinged |
| **Persisted state** (`src/lgtv_manager/persisted_state.rs`) | one JSON file per data directory: URL, client key, MAC address | read, import, write in two steps | the three belong to one TV, through crashes and failed writes |
| **TV details** (`src/state.rs`, `orchestration.rs`) | volume, inputs, apps, software, system, screen | stored from responses, dropped on a reset | a detail is the connected TV's answer to the request for it |
| **Payloads and commands** (`src/ssap_payloads.rs`, `src/tv_commands.rs`) | none | a request for each command; untagged decoding of responses | a response is decoded as what it is |
| **Settings and URLs** (`src/connection_settings.rs`, `src/helpers.rs`) | none | URL of a connection, IP address of a URL, register request, `reconnect_falloff` | the wait grows to its maximum |
| **Builder** (`src/lgtv_manager_builder.rs`) | none | `new`, `with_data_dir`, `build` | nothing of the default directory stays behind |
| **Output messages** (`out_emitters.rs`, `message_senders.rs`) | a bounded channel | emit to the caller, awaited | a caller that reads does not hold the manager up for good |
| **Discovery** (`src/discovery.rs`) | none | one-shot network I/O in a task of its own | |

### How they interact

- caller to manager: a channel of `ManagerMessage`s; manager to caller: a bounded
  channel of outputs, each awaited.
- manager to machine: `Input`s. Machine to manager: the new `State`, then the `Output`
  the manager must carry out. `manager_status` is only set when that State is read, so
  it lags the machine by the updates in the channel, and every Output is carried out in
  a machine state that may be older than the present one.
- manager to WebSocket task: payloads, a connection test, `ShutDown`. Task to manager:
  status updates and decoded responses, which become `Input`s. A new connection
  *replaces* both channels and the join handle.
- the manager awaits a task's join handle inside `force_manager_reset` and
  `handle_disconnected`, without a timeout, and handles nothing else meanwhile. It also
  sleeps inside `initiate_reconnect`.
- network checker and manager: a shared address, flag and test status, and four
  `Notify`s that hold one permit each.
- instances of the manager over time share the files of their data directories.

### What is hard

- **Stale reads.** A `Connect` is checked against the lagging status; updates of an old
  task survive a reset; `is_tv_on_network` is read twice on the way to a retry; the
  checker pings a copy of the address.
- **Ordering.** `select!` picks at random: an Error overtakes the Output it follows
  from, and a reset is queued behind what came before it.
- **Waiting.** An awaited join handle whose task nobody has told to stop is a deadlock;
  so are two tasks that wait for room in each other's full channel.
- **Failures.** Failed attempts and sends, closed and lost connections, unanswered
  pings, refused pairings, a file that cannot be created, a crash or an error between
  truncation and write.
- **Retries.** Two settings, four flow states, a session count and a network flag,
  changed by six handlers, decide together whether and when there is another attempt.

`PROJECT.json` lists every hazard with its source line and the properties for it.

## 2. The modules

| Module | Models |
|---|---|
| `LgTvTypes` | the data: URLs, keys, connections with their settings, `Option`, the backlog bound |
| `StateMachine` | the transition and output tables as one set of rules, and the task |
| `WebSocketClient` | the WebSocket tasks with their channels, and the TV at the far end of each |
| `TvOnNetwork` | abstract: the network checker as the manager sees it |
| `LgTvManager` | the manager's handlers, composed with the three above; `Spec`, `FairSpec`, the properties |
| `ConnectionStatus` | abstract: the connection flow the manager promises its caller |
| `LgTvManagerClaims`, `TvMemoryClaims` | claims of the documentation that the code does not keep |
| `TvNetworkCheck` | the checker's task in detail, with the manager's side of what they share; implements `TvOnNetwork` |
| `Backpressure` | the tasks over bounded channels, each handler as the list of its awaited operations |
| `TvCommands`, `SsapPayloads` | the request a command becomes; what a response decodes as |
| `TvMemory` | what is known of a TV: details, URL, MAC address and key, in memory, in the files and over restarts |
| `MCLgTvManager`, `MCTvNetworkCheck`, `MCBackpressure`, `MCTvMemory` | instances for TLC: connections, socket symmetry |
| `LgTvManager_proofs` | theorems `TypeCorrect`, `StatusIsMachineState` and lemmas about the handlers and the queues |
| `WebSocketTasks_proofs` | theorems `TasksAreJoined`, `RegistersOnce`, `JoinsEnd` |
| `Reconnect_proofs` | theorems `ReconnectsFromRest`, `WaitsForAnAddress`, `ShowsConnectionFlow`: a refinement |
| `PatientCaller_proofs` | theorems `ConnectsAreAccepted`, `StoredPairsMatch` |
| `Settled_proofs` | theorem `SettlesConsistently` |
| `Backpressure_proofs` | theorems `ChannelsInBounds`, `MessagesStayBounded`, `NobodyWaitsInCircles`, `CapacitiesOfTheCode` |
| `TvNetworkCheck_proofs` | theorems `ResultIsCurrent`, `ImplementsTvOnNetwork`: a refinement |
| `TvMemory_proofs` | theorems `MemoryTypes`, `KeptTogether`, `KeysStay`, `KnownTv`, `DetailsAreAnswers` |

### The manager and its tasks (`LgTvManager`)

The manager's fields are one record, `mgr`, under their source names. Each `select!`
branch is an action (`Connect`, `HandleConnectError`, `Registered`, ...); what a handler
computes is an operator from records to records named after the Rust function
(`InitiateConnectToTv`, `InitializeManagerState`, `OptionallyPrepareForReconnect`), and
its result (fields, Inputs sent, where it goes on) is carried out by `Commit`. A failed
send to the machine makes the manager a zombie, there.

A handler is **one step up to the place where it waits for another task**. `mgr_pc` says
how it then goes on, and keeps the resets of the different callers apart: after
`force_manager_reset`, `HandleConnectError` goes on to decide about a retry,
`initialize_connection` goes on to send the rest of its requests, each of which resets
the manager once more (`FinishInitialize`). While it waits, the other tasks run. What the
manager shares with others within a handler are the channels, which it appends to, and
the network flag. Where a handler reads the flag twice the model does too: between
`optionally_prepare_for_reconnect` and `initiate_reconnect` lie several steps, and in the
handler of a network result, which reads it again after awaited outputs
(`lgtv_manager.rs:645`, `orchestration.rs:430`), `TvNetworkChecked` has an alternative
in which the TV has gone again. The six requests of `initialize_connection` are one step:
a task that ends between two of them is one that ends before the first, or after the
last, and the resets that follow from it are one (`FinishInitialize`). That a send may
itself wait for room is what `Backpressure` is about.

`ws` maps names for WebSocket tasks to the task's phase, both its channels and what the
TV knows of it; `cur_ws` is the task whose channels the manager holds. Starting a task
replaces `cur_ws`: the task before finds its channels closed, which is how it ends. An
ended task's unread updates stay, because `from_ws_rx` survives a reset.

The TV is external: it answers a register request by registering, prompting or an
unsupported pairing type; a prompt by registering or declining; subscriptions, if it has
registered the client, by volume payloads. It may do so late or never. Which further
faults happen is the constant `Faults`.

The wait before a retry has no duration; how long the code would wait is
`RetryWait(mgr)`, `reconnect_falloff` of the attempts counted so far, which the liveness
property `RetriesSlowDown` looks at.

### The network checker (`TvNetworkCheck`)

The task's loop with its three sources (`PingIntervalTick`, `ReceiveTvIp`,
`CheckRequested`) and `check_tv` in three stages: the address is copied and `is_pinging`
set, the ping ends and the result is stored, the manager is notified, `is_pinging` is
reset. The manager's side (`SetTvIp`, `RequestCheck`, the two notified handlers) is the
environment. `Abstract` is `TvOnNetwork` under the mapping that a notification is due
when the result is stored.

### Full channels (`Backpressure`)

`todo` is the list of operations the present handler has still to await: outputs to the
caller, Inputs, messages to the WebSocket task, a join. Each is a step that can only be
taken when there is room, or the task has ended. The machine sends its State and its
Output one after the other. The caller reads an output when it likes; a write of the
WebSocket task waits for the TV. It has one connection at a time and no retries; these
add no send that a first connection does not have.

### What is known of a TV (`TvMemory`)

The manager's fields about the TV itself, the file of each data directory, and the
processes over time. A handler is one step, but the write of the file is two, with a
crash or an error between them. A key is a TV and the data directory it was issued to, so
that "not in the right file" can be said; details are the TV whose answer they are.

Every way in which a connection ends is there: told to (`Disconnect`, `TvError`), lost
(`HandleDisconnect`), and *reset by force*, because a send finds that the task has ended:
a command (`SendTvCommand`), the ShutDown of `initiate_disconnect_from_tv`
(`DisconnectFromTv`, `ResetOnLoss`), the register payload (`RegisterFails`), the requests
of `initialize_connection`. Such a reset clears the details and leaves `from_ws_rx` as it
is. What the ended task has sent is handled after it: responses are stored, a loss may
be taken for the failure of the attempt that has begun since (`LateDisconnect`). Only a
new task's channel drops the rest (`Connected`, `ConnectError`, `RegisterFails`).
`answered` and `leftover` are history: what the connected TV has answered, and whose
answers the last reset has left unread.

Simplifications: the machine is where its Inputs have led, so that each handler and what
it makes the machine do is one step (the interleavings are `LgTvManager`'s); the six
requests of an initialization are one step; no `CancelReconnect` and no
`TestConnection`; the checker is not operational; no send to a task that still runs
fails; a `Disconnected` update behind a `ServerClosedConnection` is one with it; a MAC
address is that of one TV; the caller connects when the manager is Disconnected, or is
refused (hazard at `orchestration.rs:53`), and brings a key only when it is accepted
(`MayConnect`, see the hazard at `orchestration.rs:49`).

`Decode` is what `serde` does with the untagged `LgTvResponsePayload`: the first variant
whose required fields the payload has, and none of whose unknown ones it denies. It is
the variant with the least index among those that fit (`Fitting`).

## 3. The runs

Except for `network_checker`, deadlock is not checked: a bounded caller that has sent
everything, with a TV that stays silent, really is the end. Liveness runs take its place.

| Run | Instance | Checks | Distinct states |
|---|---|---|---|
| `races` | impatient caller, 2 calls of Connect/Disconnect/TestConnection/SendTvCommand/CancelReconnect; the checker works, 2 pings; auto reconnect; failed attempts and sends, closed connections, lost pings; a host without a URL | `TypeOK`, `StatusLagsMachine`, `NoForgottenTask`, `JoinedTaskWasTold`, `RegistersOncePerSocket`, `ReconnectFromRest`, `WaitingKeepsConnection` | 2,384,513 |
| `one_at_a_time` | patient caller, two TVs, 3 calls with ConnectLastGood and CancelReconnect; pairing declined or unsupported, failing disk | `PersistedPairMatches`, `SettledMeansConsistent`, `ConnectIsAccepted` | 196,427 |
| `shut_down` | impatient caller with ShutDown, fairness | `ShutDownCompletes`, `HandlersFinish`, `ReplacedTasksEnd` | 246,588 |
| `status_flow` | patient caller, both retries on, fairness | `StatusSpec` (the refinement), `RetriedConnectionSucceeds`, `RetriesSlowDown` | 34,688 |
| `network_checker` | `TvNetworkCheck`, two addresses, fairness | `SettledResultIsCurrent`, `NewAddressIsPinged`, `NetSpec` (the refinement) | 2,202 |
| `burst` | `Backpressure`, patient caller, bursts of 2 calls of Connect/SendTvCommand/ShutDown, fairness | `TypeOK`, `NoCircularWait`, `HandlersFinish`, `ShutDownCompletes` | 291,679 |
| `tv_memory` | `TvMemory`, two processes, TVs and directories, crashes, failing creation and write | `TypeOK`, `DetailsAreTheAnswers`, `KeptTogetherMeansOneTv`, `KeysStayInTheirDirectory`, `KnownTvIsNotPrompted` | 4,453,700 |

Together these runs take every action and every disjunct of the next-state relations.
Each property has a mutant in `PROJECT.json`: a plausible bug of the code, named as an
operator beside the definition it changes, with which TLC finds the property violated
under the same configuration.

What the properties say:

- `StatusLagsMachine`: the status is the machine's state, late by exactly the State
  updates that are still to be read.
- `NoForgottenTask`: no reset or disconnect drops the handle of the current task, whose
  channels the manager holds, before that task has ended. A `ConnectToTv` may replace a
  running task, handle and all (`orchestration.rs:159`); that such a task ends by itself
  is `ReplacedTasksEnd`. `JoinedTaskWasTold`: when the manager awaits a handle, that task
  is ending or has a ShutDown to read; `handle_disconnected` sends none itself and
  relies on every way to get there.
- `RegistersOncePerSocket`: no second pairing prompt on a connection.
- `ReconnectFromRest`: the wait before a retry starts Disconnected, with a connection to
  go back to, and no old task. `WaitingKeepsConnection`: the same of the wait for the TV
  on the network, with an address to ping.
- `PersistedPairMatches`: the URL and the key in the file are those of one TV.
- `SettledMeansConsistent`: with nothing under way, a live status has a running
  connection to that TV behind it, and Disconnected has none.
- `ConnectIsAccepted`: the machine never refuses a Connect of a patient caller.
- `StatusSpec`: `ConnectionStatus`, the flow of `README.md` as an abstract state machine
  with fairness, is implemented by the manager under the refinement mapping
  `status <- mgr.manager_status.tag, url <- mgr.manager_status.url`.
- `RetriedConnectionSucceeds`: with both kinds of retries and a TV that can be reached
  again and again, Connecting leads to Communicating, unless the caller disconnects or
  it comes to a pairing prompt: no failed attempt is the last. Connections that are lost
  are not among the faults of `status_flow`; of them the like is not true, as the run
  `lost_connection` shows. `RetriesSlowDown`: if no attempt succeeds any more, from
  some point on every wait is the longest.
- `SettledResultIsCurrent`: with nothing pending between checker and manager, the result
  the manager goes by is that of the address it gave last. `NewAddressIsPinged`: every
  address it gives is pinged, or replaced. `NetSpec`: the checker does what
  `TvOnNetwork` says, so that `LgTvManager` may be composed with that.
- `NoCircularWait`: the manager and the machine, or the manager and the WebSocket task,
  never wait for each other's channel. `HandlersFinish`, `ShutDownCompletes`: every
  handler comes to its end, and so does `run()` after a ShutDown.
- `DetailsAreTheAnswers`: each detail the connected TV has answered is shown as that TV's
  answer to the request for that detail, though responses are told apart by their fields
  only; and no other detail is shown, however the connection before has ended, with two
  exceptions, which are what the code does and not what it should do: what a forced reset
  has left unread (the finding `stale_updates`), and the answer to turnOnScreen as a power
  state (see *Met while modelling*).
  `KeptTogetherMeansOneTv`: a URL and a MAC address that are kept together, in memory, in
  a file or in a wake-up, are of one TV; in a file the key is that TV's, too. In memory it
  need not be: a Connect to another TV keeps, and sends, the key of the one before.
  `KeysStayInTheirDirectory`: a key issued under one data directory is never held or
  written under another. `KnownTvIsNotPrompted`: the register request to the TV in the
  file carries a key that TV accepts.

### The bounds

- `Backlog = 2` (`LgTvManager`): a task takes on no work that fills a channel in which
  this many messages are unread. Two are enough for a State and an Output of one
  transition to be separated by other events and for stale messages behind a reset.
- `Socket = {s1, s2}`: two WebSocket tasks alive at once: one being replaced, one new.
  With three the manager needs a third connect before the first task has ended; the
  properties speak of each task by itself or in relation to the current one.
- `MaxCalls` 1 to 3: connect, act, connect again is what brings two connections
  together. Retries are not calls, and are not bounded: in `races`, where auto reconnect
  is on, they are what follows the two calls. Its seven invariants are theorems for any
  number of calls and pings.
- `MaxAttempts`: where `reconnect_attempts` stops counting. Only the length of the wait
  depends on it: 8 in `status_flow`, as 2^(6+8) > 10 000 ms, so that the longest wait is
  reached; 1 elsewhere.
- `MaxChecks = 2` (`races`): the flag begins off, goes on, and off again, in the middle of a
  handler, too.
- One TV in most runs, two in `one_at_a_time`, `network_checker` and `tv_memory`: mixing
  up two connections needs two.
- `burst`: `MaxCalls` and `MaxVolumes` bound one *burst*, what happens between two rests
  (`AtRest`: nothing under way, though a connection may be open); the number of bursts,
  and so of calls and of connections, is not bounded. `Backlog = 9` for the machine's
  channels and `Buffer = 2` for the others **are the smallest for which the properties
  hold** with two calls and a payload a burst: with 8, or with 1, TLC finds tasks that
  wait for each other. `OutputBuffer = 1`, so that every output may wait; the details (1
  for 6) and requests (1 for 6) are in proportion. Theorem `NobodyWaitsInCircles` says
  what room is enough for any bounds; it asks for more than these minima.
- `tv_memory`: two processes (`MaxStarts`), so that one reads what another wrote; three
  connects, so that one that is reset is followed by one to another TV and one back;
  `MaxUpdates = 2` unread updates, so that a volume payload and the end of the connection
  may both be left by a reset. Commands and disconnects are not bounded.

### Patient callers

`Patient = TRUE` lets the caller connect only when nothing is under way (`Quiet`). The
comment at `src/lgtv_manager/orchestration.rs:54` knows of the lag: a second Connect that
is read before the first State update passes the check, overwrites `connection_details`
and `ws_url`, and is then refused by the machine. `PersistedPairMatches`,
`SettledMeansConsistent`, `ConnectIsAccepted` and the *fairness* of `StatusSpec` really
fail for such a caller (TLC then finds a manager that stays in Disconnecting). The steps
of the flow hold for any caller: theorem `ShowsConnectionFlow`. `races` and `shut_down`
do without the assumption. In `Backpressure` it means the same: a Connect is sent at rest
(`AtRest`) and without a connection; its theorems are for either caller.

### Fairness

- `TaskFairness` of `LgTvManager` assumes what the runtime gives: weak fairness for each
  task (it is polled again when it can go on) and strong fairness for each *source* of
  the manager's `select!`, which chooses at random among those that are ready; a
  connection attempt ends, at the latest by its timeout of 5 s. Nothing is assumed of
  the caller, the TV or the network.
- `RetriedConnectionSucceeds` is about a TV that is on, and states that as its own
  premise (`TvFairness`): an attempt repeated for ever succeeds, and the TV answers.
- `CheckerFairness`: a ping ends, at the latest by its timeout; the sources of the
  checker's `select!` are strongly fair. The timer is not assumed to tick.
- `TaskFairness` of `Backpressure`: the same for its tasks, and a caller that reads its
  outputs and a TV that reads what is written to it. Without the first every handler
  may stop; without the second a write, which has no timeout, may.

### Findings: what the documentation says and the code does not do

Each has a run that TLC must find violated, and a finding in `PROJECT.json`.

- `failed_send`: a failed send ends the WebSocket task, which then reports
  *Disconnected* only; while Communicating, the machine has no transition for
  `DisconnectionComplete`, and the manager stays Communicating without a connection.
- `stale_updates`: `from_ws_rx` survives a reset. A command sent to a task that has ended
  forces one (`message_senders.rs:65`), after which the responses this task had queued
  are still handled. A volume payload is stored while nothing is connected, and sets
  `is_connection_initialized`; a `Connect` clears neither. The next connection begins with
  the volume of the TV before, where `README.md:71` has `TvState` contain "the entire state
  of the TV", and never leaves Initializing, as StartCommunication is only sent when the
  flag is not yet set. Other details are left behind in the same way, which is the
  exception `leftover` in `DetailsAreTheAnswers`. With impatient use, or with connection
  tests that time out, the flag also breaks `SettledMeansConsistent`, which is why
  `PingTimeout` is not among the faults of `one_at_a_time`.
- `initial_retries`: with initial retries alone nothing is retried: the first failure
  looks at auto reconnect only and sets the flow to Inactive.
- `constant_wait`: with auto reconnect alone, each attempt passes through Inactive, which
  resets the count: all waits are 250 ms, where `README.md:196` has them grow.
- `lost_connection`: with auto reconnect and initial retries, a connection that the TV
  closes may not be retried at all, though the caller has not asked for its end, and
  `README.md:196` says that the manager will attempt to reestablish it. The machine is
  Disconnecting and its output asks for a ShutDown of the task, which by then has ended:
  the failing send forces a reset, which brings the machine to Disconnected, where
  it refuses the `DisconnectionComplete` that would have led to `handle_disconnected` and
  the retry. The flow stays Active, and nothing happens any more. A second way has no run
  of its own: a TV that closes the connection before the register payload is sent finds
  a flow that is already Inactive (`lgtv_manager.rs:498`) when the failing send resets
  the manager, which therefore forgets the connection.

### Met while modelling

Behaviour that a reader of the code would want to know of; no document says otherwise,
or there is no property of states about it.

- A host *name* gives the checker nothing to ping: after a lost connection the flow may
  wait for a TV that nobody looks for. Hence the hypothesis of `WaitsForAnAddress`.
- Smaller channels than in `burst`, or more messages, and tasks do wait for each other:
  with `Backlog = 2` the manager waits for room in the machine's channel and the machine
  in the manager's, for good; with a small `Buffer` the manager joins a task that waits
  for room in a channel only the manager reads. In the code every channel holds 32:
  about 50 commands sent without reading updates in between, or a ShutDown
  behind 17 unread commands (whose updates the cancelled machine can no longer deliver),
  get there.
- With auto reconnect alone, a `CancelReconnect` read during an attempt has no effect.
- A refused `Disconnect` stays remembered, and keeps the next lost connection from being
  restored.
- A refused `Connect` leaves its `client_key` behind (`orchestration.rs:43-52`).
- A crash, or an error, between truncation and write loses the pairing key.
- A ShutDown after the TV has closed the connection ends as a zombie.
- `is_pinging` is reset after the result is notified (`tv_network_check.rs:183-186`), so
  that the handler of the ping's start may still report InProgress as the last word.
- The answer to turnOnScreen has the fields of a `GetPowerState` payload, which comes first
  among the variants (`ssap_payloads.rs:38`). It is stored as the power state, and the arm
  that sets `is_screen_on` (`orchestration.rs:332-335`) is never reached.
- A ping that ends between `optionally_prepare_for_reconnect` (`network_utils.rs:143`) and
  `initiate_reconnect` (`orchestration.rs:430`) makes the latter return with an Active flow,
  which a later notification that the TV is there does not restart.
- `IsWakeLastSeenTvAvailable` is emitted from the manager's MAC address, while the wake
  itself reads the file; `WaitingToReconnect` may show an imported URL.
- Two discoveries at once: the first to end reports `IsDiscovering(false)`.
- `Url::port()` is `None` for a scheme's default port, so that port 443 becomes 3001
  (`helpers.rs:117`).

## 4. The proofs

TLC checks small instances; the theorems hold for all values of the constants that meet
the named assumptions (`TypesAssumption`, `SocketAssumption`, `NetAssumption`,
`ManagerAssumption`; `MemoryAssumption` for `TvMemory`, `BackpressureAssumption` for
`Backpressure`): any number of TVs, tasks, connections, calls, pings, processes and
directories, any capacities, any faults, patient callers or not, except where a theorem
names its hypotheses.

**The manager and its tasks.**

- **`TypeCorrect`**: `Spec => []TypeOK`. `TypeOK` is not inductive: after its sleep
  `initiate_reconnect` takes `connection_details` without looking. `TypeInv` adds that a
  sleeping manager has one. The proof has one lemma per helper (`SetFlowType`,
  `InitializeType`, `InitiateConnectType`, ...: each maps fields to fields), one per
  effect (`CommitType`, `TellType`, `SendToWsType`), one per group of actions with a step
  per action, and one for a rule of the machine (`RuleTypes`). Its content: no handler
  connects without a URL, resumes without a connection, or sends the machine something
  it does not know.
- **`TasksAreJoined`**: `Spec => []NoForgottenTask`, about the current task and the
  handlers that reset or disconnect; of a running task that a `ConnectToTv` replaces it
  says nothing. Inductive once the types are known:
  an ended task stays ended while it is current (`WsStepStaysEnded`), every action that
  drops the handle has `Joined` as its guard, and only `ConnectToTv` changes the current
  task, together with the handle.
- **`StatusIsMachineState`**: `Spec => []StatusLagsMachine`. `StatusInv` strengthens it: a
  zombie still reads updates, so the queue's part must hold of it too. Three lemmas on
  queues (`ReadQueue`, `ReportState`, `ReportOther`) say what reading and reporting do to
  the last State in the queue; for each handler, that it keeps the status or loses it
  (`StatusKept`).
- **`RegistersOnce`**: `Spec => []RegistersOncePerSocket`. The manager does not look
  whether the Connected it reads is of the task it has started last, so that a machine
  that already connects with the next task may ask it to register while it is still
  connecting. That this is not asked twice is the order of the outputs in the queue:
  `RegisterInv` says that a SendRegisterPayload finds a task that has not been asked,
  which it does if a ConnectToTv precedes it with no SendRegisterPayload in between, or
  no SendRegisterPayload precedes it and the task has not been asked yet; and so will
  the one that a Connecting machine is still to report.
- **`JoinsEnd`**: `Spec => []JoinedTaskWasTold`. At the join itself this is evident for
  `force_manager_reset` and not at all for `handle_disconnected`. `JoinInv` says why it
  holds: each output in the queue that leads there finds the task told, which it is if a
  DisconnectFromTv precedes it with no ConnectToTv in between, or no ConnectToTv
  precedes it and the task is told already; and so will the one that a Disconnecting
  machine is still to report. A task that is told stays so until it is on its way out
  (`StaysTold`).
- **`ReconnectsFromRest`**: `Spec => []ReconnectFromRest`. `RestInv`: an output that ends
  a connection stands directly behind the State Disconnected in the queue, so that the
  handler which reads it is Disconnected, and stays so until its sleep; and a manager
  whose machine may be gone is at its end, so that no status is lost on the way.
- **`WaitsForAnAddress`**: `ByAddress => (Spec => []WaitingKeepsConnection)`, where
  `ByAddress` says that every connection that has a URL has an IP address in it. The
  invariant `HasWhereToGo` is carried through each helper: a waiting flow has a
  connection, and a connection has given the checker an address. Without the hypothesis
  the property is false (first item above).
- **`ShowsConnectionFlow`**: `Spec => Status!Init /\ [][Status!Next]_(Status!status_vars)`,
  the safety part of the refinement. The machine's transitions follow the flow
  (`RulesFollow`); `FlowInv` says that the States in the queue lead on from the status
  the manager has, each from the one before. Reporting needs `StatusInv` (which State is
  the last), reading needs `RestInv` (a zombie does not read).

**A patient caller.** Three properties need the caller of `one_at_a_time`, who connects
only when nothing is under way, and a checker that does not operate. Both hypotheses are
needed: without the first see *Patient callers* above; a checker that sees the TV come
back reconnects by itself, and may do so when a Connect is already read by the machine
and its State is not yet read by the manager.

- **`ConnectsAreAccepted`**: `Spec => []ConnectIsAccepted`. `OneAttempt` says that there
  is one attempt at a time, in one of four places: a Connect on its way to the machine,
  a machine that is not Disconnected, an output in the queue that ends an attempt, or a
  handler that may go on to a retry. Each step moves it from one place to the next:
  the machine takes a Connect only if Disconnected, leaves an attempt only with such an
  output, the manager reads that into such a handler, and the handler sends at most one
  Connect. The caller may send one when `Quiet`, where `StatusInv` makes a Disconnected
  status that of the machine.
- **`StoredPairsMatch`**: `Spec => []PersistedPairMatches`, if in addition no connection
  is tested and no send fails unnoticed. `handle_registered` writes the key the task has
  reported next to its own `ws_url`, which an attempt sets long before its task exists
  and a reset sets anew from the file. `PairInv` says, queue by queue, that the two are
  of one attempt: `Waiting` (whenever a TV may yet answer a registration, or its answer
  is unread, the manager is at its `select!` and `ws_url` is the URL of that task),
  and what this needs of the time before (`Asking`, `Starting`: a Connect or ConnectToTv
  on its way carries the `ws_url` of now), after (`Refused`, `EndsAreLast`) and of a task
  that is not spent (`OneTask`: nothing on its way starts another attempt, so that a new
  one finds the old task over and all its updates read). The order of a task's updates is
  `InOrder`; that no answer is there before it is asked for is `Unheard`, which uses
  `RegisterInv`. A failing disk, a refused or forgotten pairing, and lost connections
  are all allowed for. A failing send is not: its task ends without the Error that would
  keep a late answer from being read into the next attempt; and a test that fails ends an
  attempt at any time.
- **`SettlesConsistently`**: `Spec => []SettledMeansConsistent`, under the hypotheses of
  `StoredPairsMatch`. That a rest is consistent is proved by an invariant of the unrest,
  `SettleInv`: of each state that the machine is to leave, and of each task that is to
  end, it says what is still to come. A Connecting machine has a task that still
  connects, or its outcome in one of the two channels (`Awaiting`). A machine with a
  connection has a task that runs and has not been told to end, or an Error or a Reset
  that will reach it (`Attended`), on the URL of them all (`OneUrl`). A Disconnecting
  machine has a DisconnectFromTv before it, a task that is told, or the report of the
  task (`Leaving`). Because a report can be overtaken or used up in a state that ignores
  it, two more parts are about order: an Error does not come behind the end of its own
  connection (`ErrorsFirst`), or the machine would go to Disconnecting with the
  DisconnectionComplete already behind it; and a task on its way out has its end still
  to report, to a machine that can hear it (`EndIsReported`). `OneTask` of `PairInv` is
  what makes a Disconnected machine one without a task. At rest every queue is empty,
  so that nothing is still to come, and what is left are the states of the property.
  `HandlerKeepsSettled` reduces the manager's handlers to what each does to the task,
  the handle and the URL; the machine's steps are reduced to `FsmDecides` and
  `FsmComesFrom`, the tasks' to `TaskGoesOn`.

**The checker.** `ResultIsCurrent` and `ImplementsTvOnNetwork` rest on one inductive
invariant, `CheckInv`: the types, that the checker's copy of the address is current or an
address is waiting for it, and that a ping or a notification is due where there is no
current result. With the second theorem `LgTvManager`'s composition with `TvOnNetwork`
is justified for the safety properties; `NetSpec`'s fairness is checked by TLC.

**What is known of a TV.** `MemoryInv` is the conjunction of `Types`, of the agreement of
URL and MAC address in the manager (`FieldsAgree`) and of these and the key in the files
(`FilesAgree`), of keys with their TVs (`KeysNameTheirTv`), and of the TV's side: the
connection (`LinkAgrees`), its updates (`UpdatesAgree`), the register request and the
wake-up (`RequestAgrees`, `WakesOneTv`). `KeptTogether`, `KeysStay` and `KnownTv` follow
from it. What makes them hold through forced resets is in `UpdatesAgree`: the end of a
connection is its last update, a key that is still to be stored is one of the TV whose
URL the manager has, and once no registration is under way what is unread are responses
and the end (`IsLate`). `MemoryAssumption` asks of the caller that a MAC
address it gives is that of the URL's TV, and that a key it gives is not one issued to
the manager. Callers that connect while something is under way, and sends that fail
though the task runs, are outside the model and so outside the theorems.

`DetailsAreAnswers` is about the steps from a request to what is shown: a response is
decoded from its fields alone, and each shape is decoded as the detail it answers, or as
the power state for turnOnScreen. That `Decode` finds the least fitting variant is
proved shape by shape from the table of required fields. `DetailsInv` adds whose
responses are in the channel: the connected TV's, or, after a forced reset, those of the
TV in `leftover`, which is why the theorem makes an exception of that TV and of no other.

**Full channels.** `NoCircularWait` does not hold for every capacity: it holds where
there are fewer messages than room, so the proof counts them, in all channels, handlers
and tasks together. The books (`Books`) give each message a charge for all that may still
come of it: a Connect for its Input, the updates, the task, its reports and the requests
it sets off, down to the last answer of the TV. A table of such charges is a *tariff*,
and it *covers* the code (`Covers`) if no transition of the machine, no handler, no task
and no answer costs more than the message it is for was charged. Then every step keeps
the invariant `LoadInv`: the total is at most the allowance, a constant and a share for
each call and each payload of the burst (`NextLoad`, with a lemma per action). A burst may
begin the count anew because what is left at rest, an open connection with its prompt,
is within the constant (`CallerCovered`). The weight of a channel is a sum over a
sequence, which would need induction; instead `Weighs` carries the partial sums along,
with the lemmas for the empty, the appended to and the shortened sequence.

- **`ChannelsInBounds`**: `Spec => []TypeOK`, by `TypeInv`, which adds that only a
  running task writes and that nothing is reported before it is connected.
- **`MessagesStayBounded`**: `Spec => [](MessagesBounded /\ ReportsBounded)`, for any
  capacities. Two tariffs: `MachineTariff` charges one for each Input and update, and
  bounds what is before and behind the machine by `MessageLimit`; `ReportTariff` charges
  one for each report of the WebSocket task, and bounds these by `ReportLimit`. A lemma
  for each (`MachineTariffCovers`, `ReportTariffCovers`) checks it against the rules of
  the machine and the handlers' operations.
- **`NobodyWaitsInCircles`**: `Roomy => (Spec => []NoCircularWait)`. For the manager and
  the machine to wait for each other both their channels must be full, with one more
  update in the machine's hands and one more Input in the manager's; for a ShutDown the
  updates alone must fill theirs; and a WebSocket task that waits for the manager has
  filled its channel with reports and holds one more. `Roomy` says that there are not
  that many. The rule is sufficient and not necessary: it charges
  an Input that waits for both updates it may cause.
- **`CapacitiesOfTheCode`**: with channels of 32, six requests and a patient caller,
  `Roomy` comes to 2 x calls + payloads <= 19 in a burst, ShutDown among the calls or not.
  An impatient caller, whose every Connect may set off a whole connection, costs 15 for
  a call in place of 2.

**Model-checked only.** Liveness under fairness (`HandlersFinish`, `ShutDownCompletes`,
`ReplacedTasksEnd`, `RetriedConnectionSucceeds`, `RetriesSlowDown`, `NewAddressIsPinged`,
and the fairness of the two refinements) is beyond the prover. Every invariant and every
step property that a run checks is proved.

## 5. Not modelled

- **Discovery** (`src/discovery.rs`): one-shot network I/O in a task of its own, which
  shares nothing with the manager but the output channel. Its one promise that others
  rely on, that a device's MAC address is that of its URL, is an assumption of
  `TvMemory`.
- **Texts**: of URLs (`helpers.rs`), of JSON, of outputs and logs; TLS certificates. No
  property is about them.
- **Time**: durations of sleeps, pings and timeouts; that they end is fairness.
- **The crate root** (`src/lib.rs`): documentation and re-exports.

What could be added: retries in `Backpressure`, a tighter tariff, which charges an Input
that the machine refuses for one update only, and `CancelReconnect` in `TvMemory`.
