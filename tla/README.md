# A verification development for Ligament Apps

Ligament is a corporate help-desk and remote-control system. This repository
holds its end-user side: a Flutter application (`lib/`), a Windows service in Go
that lets an operator reach a host when nobody is logged on (`windows/link_agent`,
the *Link agent*), a small C++ watchdog service, a credential provider, and
platform runners. This directory holds TLA+ models of the parts whose logic is
concurrent, survives crashes or talks to unreliable peers; TLC checks them on
small instances and TLAPS proves the safety properties for all sizes.

All paths below are relative to `src/`.

## 1. Inventory

### Link agent (Go, `windows/link_agent`)

| Component | State | Operations | What is hard |
|---|---|---|---|
| **Session worker broker** `session_worker.go` | `b.sessions`, per session: send function, outbound queue, attached process, context, `terminateRequested`, restart window | `Handler` (`session_offer`, signals, `session_close`), `start`, `run` with writer and reader goroutines, `route`, `stop`, `remove`, `RebindSender` | `stop` takes the entry out under the lock and finishes outside it; the server may offer the same id again meanwhile; `run` restarts crashed workers; the queue holds signals for a worker that died |
| **Control connection** `agent_ws.go` | dial loop, worker scope and grace timer, heartbeat clock, backoff counter | `RunAgent`, `serveAgentConnectionWithWorkerScope`, `nextReconnectDelay` | workers outlive a connection; a grace timer races a reconnect |
| **Recorder client** `recorder_client.go` | pending frames and events, `queuedBytes`, spool index | `EnqueueFrame`, `EnqueueEvent`, `Flush`, `drainSpool`, `Complete`, `IsThrottled` | the flush ticker and `Complete` run the same code at once; answers are lost; the network goes away; the pipe reader may return before anybody completes the session |
| **Disk spool** `spool.go` | a directory per session with chunk and temporary files | `WriteBatch`, `ReadPendingBatches`, `RemoveBatch`, `RemoveSession`, quota | crash between write and rename; eviction while others write, and evictions that fail unnoticed |
| **RDS session supervisor** `rds_supervisor*.go` | map of recordings, the WTS sessions it has announced | `HandleSessionLogon/Logoff`, `SyncActiveSessions`, `ApplySessionPolicy`, `StopAll`, `runSessionRecording` | events, a periodic sync, server answers and the service stop meet in any order |
| **Service, enrolment, identity** `cmd/link-agent/main_windows.go`, `runtime.go`, `enrollment.go`, `binding_pipe_windows.go`, `identity_store_windows.go` | identity file, registry values, the service's worker | `Execute`, `RunStoredAgent`, pipe binding, headless enrolment, `--enroll`, unbinding | two processes over one identity file; kills between two writes; one-time tokens whose answer is lost |
| **Update manager** `update_manager*.go` | status, cached packages, `upgrading.lock`, the detached script | `StageUpdate`, `ApplyUpdate` | one goroutine per message, the lock held only around the status; restarts |
| Worker processes, Unix variants, wire format | – | launching in another Windows session; sockets and files on macOS/Linux; JSON and signatures | outcomes only, or not modelled |

The broker is the hub: the connection calls its `Handler` for every message;
`Handler` starts update goroutines and hands recording policies to the
supervisor; the supervisor gives each recording a recorder client, and all
recorder clients share the spool. Everything a message starts runs under the
connection's worker scope.

### Watchdog service (C++, `windows/service/service.cpp`)

Restarts the client application where policy forbids leaving it, unless
`upgrading.lock` says that an installation is running. It shares that file, and
nothing else, with the update manager; neither looks at whether writing or deleting
it succeeded.

### Client application (Dart, `lib/services`)

| Component | State | What is hard |
|---|---|---|
| **WebSocket service** `ws_service.dart` | generation, channel, candidates, backoff, two timers | callbacks of channels that were given up; login and logout in between |
| **Authentication state** `auth_state.dart` | session, stored token, logout marker, `_authEpoch`, login generation | every `await` may be crossed by a logout, a cancelled login or an account switch |
| **Link host session** `link_host_session.dart` | peer connection, consent, policy, file transfers | offers, policy changes and teardown cross each other |
| **Link host recorder and spool** `link_host_recorder.dart`, `link_spool_storage.dart` | queue, epochs, encrypted chunks | as for the Go recorder, with cancellation by epoch |
| **Remote support** `support_service.dart` | capture, signalling, `_captureEpoch` | switching screens against teardown |
| **Calls** `call_session_manager.dart` | call state machine | answers and hang-ups from two sides and from CallKit |
| **Chat and tickets**, **RDP launcher**, alerts, push, telemetry, API client | lists, caches, one-time credentials, queues | merging pushed and fetched data; retries |
| Screens, widgets, runners, Android and Swift glue | – | user interface and platform calls |

### Windows native (C++, `windows/credential_provider`, `windows/runner`)

| Component | State | Operations | What is hard |
|---|---|---|---|
| **Logon tile** `LigamentCredential.cpp` | what was typed, the factor chosen, `m_authenticated`; under `m_csPoll`: the job, its secrets and its result | LogonUI's calls (`SetStringValue`, `CommandLinkClicked`, `GetSerialization`, `SetDeselected`, `ReportResult`, `Advise`/`UnAdvise`), the worker's jobs (push, one-time code, WebAuthn), start, stop and join of the worker | two threads in the logon process; `m_authenticated` is outside the lock; every call of LogonUI may wait for the worker, and the worker calls LogonUI back; secrets are copied for the worker |
| **Provider and filter** `LigamentProvider.cpp`, `ClassFactory.cpp`, `dllmain.cpp`, `common.h` | scenario, configuration, the one tile, the count of the DLL | `SetUsageScenario`, `Filter`, `Advise`, `GetCredentialAt`, the destructors | one provider lives through several scenarios; filter and provider must decide alike |
| **Requests, RDP gate** `HttpApiClient.cpp`, `rdp_gate.cpp` | – | one function per request | a refusal must not look like an outage, or fail-open lets everybody in; the two are told apart by an error text |
| **Remote input and capture** `input_block.cpp` | injection queue, the worker's desktop, the hooks, the caller's buffer | send key, mouse, Ctrl+Alt+Del; attach to a desktop, inject; block and unblock; capture | the queue is bounded and drops events; desktops switch, and the permission is withdrawn, between check and injection |
| **Diagnostic log** `debug_log.cpp` | a file and its backup, shared by processes | `Write` with rotation | any process may be ended in the middle of a rotation |
| **Start and binding** `main.cpp`, `link_agent_binding_bridge.cpp` | the mutex, the windows; the pipe, `busy_` | the single-instance start; binding a host | dead or hung instances; a service that is stopped or replaced while a thread waits for its answer without a time-out |
| **Bridge of the link-host worker** `link_host_bridge.cpp` | a pipe | connect, check who serves it, copy lines | one guard, not modelled |

`PROJECT.json` lists all components with their files and status, and, under
`hazards`, each place where a test would hardly reach what can go wrong.

## 2. Modules and the code they model

A step is what one goroutine, thread or Dart callback does between two points
where another can interfere: a critical section, a blocking call, an `await`.
Definitions keep the source's names; `PROJECT.json` maps each to its lines. A
definition called "Mutant" is a plausible bug used to show that a property can
fail.

**SessionBroker** – `sessions` is the map, `sid`, `send`, `outbound`, `process`
the fields of a `workerSession`, `pc` the place in `run`. `StopTail` is the
unlocked end of `stop`. The other modules' messages are left out of its
`Handler`; the connection appears as link up/down, rebinding of the sender and
the end of the scope.

**AgentConnection** – discrete time. `DialOk` includes `ensureWorkerScope`;
`TimerExpires` and `CancelWorkers` are separate since `time.AfterFunc` runs its
function in a goroutine of its own. The backoff is computed in milliseconds.

**RecorderClient** – one session's queue and directory. Flusher and completer are
two processes over the same actions, and `reader` is the goroutine that feeds them
and whose return stops the ticker and takes the recording out of the supervisor's
map: `FlushTake` is the critical section of
`Flush`, `PostOk`/`PostFail` the request (a failed request may still have reached
the recorder), `Spool` the write, `ReadPendingBatches`/`DrainOk`/`DrainFail` the
drain. Sizes are in units of 128 bytes.

**DiskSpool** – files with sizes and times; `WriteTemp` and `CommitChunk` are the
two halves of `WriteBatch`, with `Crash` between them; the quota is part of
`CommitChunk`, as in the code: `Evicted` says which directories its loop removes. The
loop looks at no error, and neither does the model: any directory may be unreadable
(it counts nothing) and any removal may fail, wholly or in part (its size is
subtracted all the same). The history variables `unread` and `stuck` name those
directories for `QuotaKept`.

**RDSSupervisor** – `HandleSessionLogoff` is split where it unlocks:
`TakeEntry`, `CancelRecording`, `CompleteRecording`. `ApplySessionPolicy` is
`ApplyCheck` and `ApplyRegister`, its two critical sections. `SyncStale` works on
`snap`, an enumeration that may be old.

**AgentService** – the service process, its worker, and the command line as a
second process, whose uses `cli` counts. The identity file may be there and not be
loadable. The server (which keys it accepted or archived, which tokens are spent) is
external. The history variable `contested` holds the keys that were saved while
another enrolment was already past its check.

**UpdateManager** – goroutines of update messages, package files by what they
hold (right, wrong, partial), the detached script.

**ClientWatchdog** – extends UpdateManager: the two services composed over
`upgrading.lock`. Writing the lock, deleting it and looking at it may fail, and
nobody notices; `worker` is another process of the same executable, which the
watchdog takes for the client. The history variable `lost` records that a pending
script was without its lock: never written, too old, removed by an overlapping
script, or not seen.

**WsService** – every callback is an action; a channel that was replaced stays in
`channels` and may report at any later time, and one whose handshake failed reports
twice, through `ready` and through its stream (state `over` in between).

**CredentialConfig**, **HttpApiClient** – operators without state: the settings as
read from policy and local key, who is exempt, when the second factor applies, and
what each request tells its caller for every answer of server and relay. Of an
error only `network_error` is told apart, as in the code, which copies an answer's own
error text into the same place: `Texts` lets an answer carry that very text.

**CredentialTile** – LogonUI's thread (`upc`, `cont`) and the worker (`wpc`) over the
fields of the tile. A call of LogonUI is one step unless it stops or joins the
worker or reads its result: `StopPollThread` and `JoinPollThread` are steps of their
own, and `cont` says what the call has still to do. `w` is `m_worker`; each step of
the worker ends at a critical section (`PublishBegin`, `PublishStatus`). The
history variables `owner` and `conf` record for whom a job was started and for whom
a server confirmed; `out` is the logon handed to Windows.

**LigamentProvider** – extends CredentialTile: the provider, its scenarios, the
filter, the references that keep tile and DLL alive, and LogonUI as the environment.
Two constants select variants. `EventsMarshalled` says whether a call-back of the
worker to LogonUI is served by LogonUI's own thread; the code prepares for it
(global interface table) but whether Windows does it is not decided by the
repository, so both are checked. `ScenarioWhileBusy` lets LogonUI change the
scenario while a worker runs; the runs exclude it (section 6, observations).

**WorkerSlot** – the abstract specification of the worker: a slot for one job, which
is started for somebody, can grant to that one only, and grants nothing once it was
cancelled. `SlotSpec` in LigamentProvider instantiates it with a refinement mapping.

**InputBlock**, **DebugLog**, **RunnerStart**, **LinkBridges** – the four native parts of
the client. Events are kinds of keys, log lines are numbers, a picture is its size,
a process is what its window does. The two erasing loops of a full queue are
`DropOldest` of the moves and then of what is no release. **WindowsRunner** puts them side by side: they
share no variable, so a behaviour follows one of them. In InputBlock the worker's
attach with the test of the permission and its `SendInput` are two steps, between
which the desktop may switch and `SetDesktopScope` may withdraw the permission (the
history variable `withdrawn`); the worker tests the name it remembers (`secure`),
which is that of an earlier desktop when the present one's cannot be read (`unnamed`).
A line of the log that was written in part counts as a line. LinkBridges is the
binding bridge: its thread, the pipe, and the service at the other end.

The `MC*` modules are the instances TLC checks. Parts that share no variable are
checked in one run: a behaviour follows one part, chosen in its initial state,
while the others rest in a state in which fairness asks nothing of them. The
`*Proofs` modules hold theorems.

## 3. Runs

Passing runs:

| Run | Shows |
|---|---|
| `agent_safety` | Broker: a `stop` racing a re-offer of the same id, crashes, restarts, reconnects; a live session stays reachable and unique, no leaked worker, frames use the newest connection, no relaunch after `session_terminate`, no signal of a dead worker reaches its successor. Spool: the quota holds after each write, (but for directories that could not be read or removed), evicts the oldest and no more than needed, and a writer never loses its own chunks |
| `agent_sessions` | Broker: every stop completes; every offer is served, rejected or cancelled. Supervisor: at most one completion, active sessions come to be recorded, closed recordings end |
| `connection` | At most one live scope, a silent server is dropped within three heartbeats, an outage ends in a reconnect or in the end of the workers, a stop returns |
| `recorder` | No accepted item is lost before completion while the disk works; spooled items arrive after an outage while the reader lives; `Complete` ends |
| `agent_host` | Service: until the command line is used the identity is the configured server's; it is never replaced and goes only when archived, command line included, unless two enrolments overlapped; enrolled agents run. Update manager with the watchdog: one download at a time; the watchdog starts no client during an installation unless the lock failed it; the client comes back |
| `client` | WebSocket: while logged in, a channel or a timer is always under way, otherwise never, and failover reaches a relay that is up. Input: a full queue never leaves a key down, nothing is injected into a secure desktop unless the permission was there when the worker looked (or the desktop's name could not be read), a released key comes up in the end. Capture: what is returned fits the buffer and the size asked for. Log: the newest lines are in the file or its backup whatever was interrupted. Start: a start ends with a window that answers. Binding: every binding ends and lets the next one in |
| `cred` | A logon passes as confirmed only after a server confirmed a job of this tile; without a factor only where policy allows it and nobody answered (or the answer called itself a network error); no worker outlives the tile or the DLL; no copy of a password outlives its use; every call of LogonUI returns; the tile implements WorkerSlot |

Violation runs check what a comment in the repository claims, and fail; `findings`
quotes the claim:

| Run | Claim and what happens |
|---|---|
| `connection_scope_race` | Sessions survive a reconnect; one that comes as the grace timer expires keeps a scope about to be cancelled |
| `rds_stopall` | `StopAll` "stops all active recording sessions"; two policies for one session leave one it does not find |
| `cred_reset_race` | A confirmation "must not survive ... a switch to another user name"; the worker confirms after `m_authenticated` was cleared and before it is told to stop |
| `cred_join_deadlock` | The join is "finite by construction"; it waits for a worker whose call-back waits for the joining thread, where call-backs are marshalled |
| `runner_start` | A dead instance is cleaned up so that a start is not refused; the window of a link-host worker is taken for the application's |

### Bounds

Bounds are constants in the guards and named in the modules (`MaxConns`,
`MaxScopes`, `MaxItems`, `MaxMsgs`, `MaxKeys`, `MaxStarts`, `MaxLogons`,
`MaxSessions`, `MaxPolls`, `MaxBacklog`, `MaxWritten`, ...). They are chosen so that
the case a property is about occurs and one more: two `workerSession`s for one id
(a re-offer against a stop), two connections (a rebind), a queue of one signal (full
and stale), one restart beyond the limit; two scopes (the old and the new); three
items of sizes that do and do not fit one batch, so that a queue outlives a flush;
two recordings of one session (two meeting policies, or one and its successor); two
servers, two keys, two starts of the service and one use of the command line; two
update goroutines and three messages, so that a download meets an installation and
two installations overlap; beside the watchdog two messages, enough for two
overlapping installations; two logins with channels of the earlier one still
reporting (four numbers for generations: the present one, its timer's, and two
channels that still report). Time units: a heartbeat of 2 and a grace period of 3 let a timer expire
at every point of a heartbeat.

In the credential provider: two names of different form and domain, so that a
confirmation may meet another user; three registries (everything on with fail-open
and a relay; a policy over a local key with an exempt account; an http server,
which counts as none), remote and local, two scenarios, one poll before the
time-out. In the client: a queue of two events and a backlog of three, so that the
queue, with the event in the worker's hands, overflows with and without moves in it; two keys of which one is a modifier; screens that fit
the buffer exactly or exceed it by one pixel; two processes writing five lines into
a file of two, so that a rotation follows a rotation; three starts; a service
that runs as two processes in turn beside a stranger.

Only `agent_safety` uses symmetry (of `workerSession` objects); a run with a
liveness property never does. In `WsService` generations are only compared for
equality, so a number nobody refers to is used again: this removes a bound instead
of adding one.

`CHECK_DEADLOCK FALSE` stands where a bound or a return lets the system come to
rest, with the reason in the cfg; `cred` checks for deadlock.

### Fairness

Goroutines, timers and tickers that can run do run (weak fairness); a cancelled
context ends the calls that wait on it. About the outside as little as possible
is assumed: nothing for the broker and the connection; for the recorder, that a
request repeated for ever is answered some time; for the supervisor, that Core
answers a start sent again and again; for the WebSocket, that a candidate that is
up accepts a handshake tried again and again; for the watchdog, that a launch
tried again and again, with the lock gone or seen to be too old, succeeds; for the
binding, that its own steps and those of the service at the pipe go on (the service
answers within its limits or ends; a stranger that serves the name need not); for the logon tile, that a request to the server
ends (its timeouts say so), whatever its result; for input and start, nothing about operator, user or
desktop. Each `Fairness` definition says so.

## 4. Proofs

Each proof follows the same argument: an inductive invariant, one lemma per action
(or group), a temporal step by PTL.

| Theorem | Rests on |
|---|---|
| `SessionBrokerProofs` – `TypeCorrect`, `LiveSessionsReachable`, `EndedSessionsReleased` | `IndInv`: type, `Fresh` (unused objects are in nothing), `Budget` (the restart count against its limit), `UnmappedIsStopped` (a goroutine not in the map has been stopped). The last is the strengthening: reachability itself is not inductive, since `stop` takes the entry out before the goroutine knows |
| `SessionBrokerProofs` – `FrameInvariance`, `SenderCurrent`, `NeverRelaunched`, `NoStaleSignals` | `FrameInv`, on top of `IndInv`: every launch but the first has spent a restart (`RestartsCounted`), so `run` drains the queue before each of them; a writer is one of a worker launched already, and of the last only after that drain (`WritersStarted`); hence what is queued for a restarted worker was routed for it (`QueueFresh`); `session_terminate` leaves its mark before `run` tests it (`ByeMarked`). `NoStaleSignal` is an action property: the writer that delivers is compared with the head of the queue |
| `AgentConnectionProofs` – `TypeCorrect`, `ScopeUnique`, `SilentServerDropped`, `GraceBounded`, `GraceComplete`, `BackoffKept`, `BackoffWithinJitter` | clocks related to each other: the age of the last acknowledgement to the ticker, the time down to the time left on the timer; the arithmetic of the jitter for every attempt and draw |
| `RecorderClientProofs` – `TypeCorrect`, `AcceptedNotLost` | the shape of the queue, `EmptyHanded` (a goroutine that is not posting holds nothing), `IndexUnique` (no two chunks share an index, so removing one cannot remove another), `OkIsDone`; lemmas on `SubSeq` and `Append` |
| `RDSRecordingProofs` – `TypeCorrect`, `MapIsAlive`, `CompletedAtMostOnce` | an entry in the map has no closer yet; taking it out gives it its only one |
| `RDSRecordingProofs` – `OwnChunksSafe` | `WritingTemp`: what is being written is one temporary file, so neither a crash nor a failed rename touches a committed one; `WriterSurvives`: whatever the sizes, the order of the directories and the removals that fail, the quota spares the session that writes |
| `AgentHostProofs` – `ServiceTypeCorrect`, `StoredIdentityAccepted`, `IdentityNotReplaced`, and until the command line is used `IdentityAtConfiguredServer`, `RunningIdentityStored` | a key being saved was accepted. `KeptInv`, with any use of the command line: whoever is past its check found no identity, so there is one by now only if two enrolments overlapped (`Settled`), and the key that runs is the stored one or the stored one came by such an overlap (`RunsOwn`). Until the command line is used, configuration and registry agree and whoever enrols has no identity |
| `AgentHostProofs` – `UpdateTypeCorrect`, `DownloadsExclusive`, `CacheTrustworthy` | a download keeps the status busy; what has passed verification is whole |
| `AgentHostProofs` – `WatchdogStaysAway` | `WatchdogInv`: a pending script has its lock, unless it was noted that the lock failed it: not written, taken away too early, or not seen. The lock is written before the script is started, so the watchdog never sees a script without one; the model takes the two as one step, and another script that ends just between them is a case of the overlap of section 6 |
| `WsServiceProofs` – `TypeCorrect`, `AlwaysUnderWay`, `OwnMessagesOnly` | the number of a new channel is one nobody refers to, so a current channel is of the present login (`Ours`); a reconnect timer and a channel exclude each other (`OneWayOn`), so whoever takes one away must have set the other, and the second report of a failed handshake finds no channel of its own |
| `LigamentProviderProofs` – `Invariance`, `ReleasedQuiet`, `SlotRefinement`, `FilterTheorem` | `Inv`: the types of what the threads share, and `ThreadInv`: the handle is set exactly while a worker exists, a worker has an owner and a living tile, a call that submits has credentials, the count of the DLL is that of its objects. One lemma per call of LogonUI and per step of the worker. The refinement maps where the worker is to the phase of the slot and shows every step to be one of the slot's or a stutter |
| `LigamentProviderProofs` – `SecretsTheorem`, `FailOpenTheorem` | `SecretInv`: a copy of the password is with a worker that has still to send it. `CallInv`: only a call that waits for the worker knows what comes next. `ReachInv`: a result that says `network_error` is that of a job nobody answered, or answered with that very text only, and that job sends no further request |
| `LigamentProviderProofs` – `ConfirmedTheorem`, where LogonUI does not change the scenario while a worker runs | `GrantInv`: wherever a call may take a factor for confirmed, a server has confirmed one; `KindInv`: the job that runs is that of the mode on the tile, since the same field of a result means different things for a code and for a push. `Initialize` replaces the mode under a running worker, so without the hypothesis `KindInv` and the theorem are false (section 6) |
| `WindowsRunnerProofs` – `KeysReleased` | `KeyInv`: the last event queued for a key the operator has let go is its release, and when none is queued the one in the worker's hands is, or the key is up, or its release was missed. The lemmas say what an overflow leaves of a queue for every queue and limit: the places that stay keep their order (`RankBijective`, `WithoutKeeps`), so the last event of a key is still its release (`KeepsSettled`, `MakeRoomKeeps`) |
| `WindowsRunnerProofs` – `SecureDesktopSafe`, `PictureFits` | the name the worker tests is that of the desktop its thread is attached to, unless that could not be read (`DesktopKnown`), and it holds an event for a secure desktop only after a test that found the permission, which may be gone by now (`TestedBefore`); integer division: scaling by the smaller quotient keeps both sides within the limit (`QuotientBound`, `TargetFits`). The arithmetic is exact; the code's doubles may come out a pixel smaller, and its 32-bit product of the sides is taken not to overflow (2^29 pixels) |
| `WindowsRunnerProofs` – `NewestLinesKept` | `LogInv`: the file holds the last lines in order (`Numbered`); a rotation is for a file that holds all of the newest lines by itself, and a copy in progress is a beginning of it (`Rotating`), so an interrupted rotation costs older lines at most; whatever of the newest has left the file is in the backup (`OlderInBackup`) |

The theorems assume what the `ASSUME` of each module says and hold for every value of
the constants, the bounds included: bounds are natural numbers, `None` is not a
member, `Heartbeat` and `Grace` are positive; in `InputBlock`, the operator's keys and
the local user's are named apart (the model tells the two keyboards apart by the name
of a key) and a screen has a positive size (the code rejects others); in `DebugLog`,
the capacity of the file is a natural number of lines.

Some theorems state properties that no run is spent on any more: the grace period
is neither cut nor extended and the backoff stays within its jitter
(AgentConnection), the stored identity was accepted and is the one that runs
(AgentService), the cache holds whole packages (UpdateManager), the supervisor's map
holds running recordings only, the push connection hears its own login only (WsService), filter and provider decide alike
(LigamentProvider).

Every invariant the passing runs check, and every action property but one, is proved.
Only model-checked are:

- all liveness properties, which are outside the prover's reach, and with them
  RunnerStart, about which nothing else is claimed;
- `QuotaKept`: it compares sums over directories sorted by age, and what a sum or a
  sort returns takes an induction over data, which the prover cannot do here;
- the violation runs, which are counterexamples of TLC.

## 5. What is not modelled

Screens, texts, logging and telemetry contents; encodings, signatures, DPAPI and
ACLs (in DebugLog an ACL is one of three classes); Win32 and platform calls, which
appear as outcomes; the servers, which are nondeterministic peers; the registration
and the start and stop of the watchdog service; the registration of the credential
provider, its field descriptions and bitmaps; the list of monitors, keep-awake and
the window code of the runner and the bridge of the link-host worker, whose one guard
accepts any LocalSystem process of session 0; vendored code (`qrcodegen`) and embedded images. The
Unix variants of the agent share the code modelled through the Windows build. The
rest of the Dart client is planned below.

## 6. Observations

Disagreements between code and comments, and places a reader should know of, that
reading and modelling the code showed. The models contain the behaviour except where
noted, but no run is spent on it:

- `RunAgent` "returns only when ctx is canceled" (`agent_ws.go:119`); it also
  returns when the server archives the identity.
- `HandleSessionLogoff` cancels the session's context before it calls `Complete`
  (`rds_supervisor.go:141`): the flush in progress then spools its batch, and when
  that comes after the last drain, `RemoveSession` deletes it, although no request
  failed. `Complete` is said to flush "all remaining items"
  (`recorder_client.go:366`). `NothingVanishes` therefore ends at the completion.
- `Complete` calls `Flush` once, which sends one batch of a queue that may hold
  many; and the cancelled flush may write its batch after `RemoveSession`, where
  nobody drains it.
- `EnqueueFrame` counts titles and process names in `queuedBytes`, `Flush` does not
  subtract them: with long titles an empty queue ends up throttled. (`IsThrottled`
  itself only reads and is not modelled.)
- The ticker that flushes a recording stops when the reader of the worker's pipe
  returns (`rds_supervisor_windows.go:156`), and the same return takes the recording
  out of the supervisor's map (`:21`), where a logoff would find it. If the worker dies
  before the logoff, nobody flushes or completes the session any more: what is queued
  is lost and what is spooled stays on disk. `Recovered` therefore speaks of a session
  whose reader lives.
- The quota subtracts the size of a directory whose removal failed (`spool.go:204`)
  and passes over directories it cannot read, so the spool may stay above its limit
  after a write; `QuotaKept` claims the limit for the other directories only.
- A recorder client that a restarted service makes for the same session id numbers
  its chunks from 1 again, and `WriteBatch` then replaces an undelivered one (not
  modelled: whether Core hands out an id again is decided outside the repository).
- A recording runs under the worker scope and so ends, uncompleted, after an outage
  longer than the grace period, although `Flush` is to "keep going even if network
  is down" (`recorder_client.go:299`).
- `EnrollAndStoreIdentity` checks for an identity, enrols, and replaces the file:
  the command line and the pipe can both pass the check, and the later one replaces
  the identity of the earlier. An archived agent deletes whatever the file holds by
  then (`DeleteIdentity`), also an identity the command line has just stored.
  `IdentityKept` shows that these overlaps are the only ways an identity is lost.
- `--enroll --server` writes the registry's server before it checks for an identity
  (`main_windows.go:94`), and leaves it changed when the enrolment is refused.
  `PinnedServer` speaks of a host whose command line is not used.
- A binding's answer may be lost: `ServeOneBindingPipe` disconnects the pipe right
  after it has written it, and what the client has not read by then is gone. The
  client then reports a failure although the host is enrolled. `BindingSettles` says
  that the binding ends, not how.
- The broker's server URL is set before the first binding that configures one (not
  modelled).
- `ApplyUpdate` of a version that is not cached downloads it without a checksum;
  a download that ends late overwrites the status `applying`; two overlapping
  scripts share one lock, which the first to end removes.
- Neither the write of `upgrading.lock` (`update_manager_windows.go:34`) nor its
  removal (`service.cpp:215`, and the script's) is looked at: an installation may run
  without a lock, and a lock that cannot be deleted is honoured until it is too old
  and passed over after that. `NoInterference` names these ways.
- `AppRunningInSession` (`service.cpp:128`) counts every process of the installed
  executable, so the watchdog does not start a missing client in a session where a
  link-host worker runs; `ClientReturns` counts such a process as well.
- The WebSocket backoff is reset at each handshake, while its comment
  (`ws_service.dart:15`) speaks of a stable connection; `AuthState.isOnline` stays
  true when a channel is closed on purpose (not modelled).
- `SetUsageScenario` stores the scenario before its early return
  (`LigamentProvider.cpp:96`, `:134`): after LOGON, a CREDUI prompt that is not an
  elevation, and then one that is, the tile is not initialised anew and keeps the
  scenario LOGON, which the comment at `:153` means to exclude.
- The same scenario announced again reloads the provider's configuration, not the
  tile's; filter and provider read the registry separately, so a policy that changes
  between the two calls can hide the password tile without showing another.
  `FilterTheorem` speaks of one registry.
- "`network_error` is set only on a transport failure", says the comment at
  `HttpApiClient.cpp:443` (in Russian), and that fail-open therefore is
  "transport-only". The lines after it copy an answer's own error text into the same
  variable, as do `VerifyCombined` and `WebAuthnBegin`: an answer with that text
  passes for an outage. Whether the server ever sends it is not decided by this
  repository; `FailOpenOnlyUnreached` excludes such answers by name.
- The worker's other copies of secrets, the one-time code in `m_jobOtp` and in the
  worker's `otp`, are not tracked by `SecretsWiped`, which speaks of passwords.
- A scenario that changes while a push job exists would let the one-time-code branch
  take that job's result for its own. LogonUI is taken not to do this
  (`ScenarioWhileBusy = FALSE`).
- `IsBypassAccount` is given the name already stripped of its domain, so that
  `hadDomain` is never set and a short entry matches a name typed with a domain too,
  which the comment at `common.h:253` means to exclude. The model follows the code.
- A physical key that is down when blocking begins stays down for Windows, since the
  hook swallows its release (`input_block.cpp:397`); `NoStuckKey` shows this to be
  the only way.
- The desktop's permission is a plain variable that another thread clears
  (`input_block.cpp:511`): an event the worker has already tested is still injected,
  at most one. The name it tests is the remembered one when the present desktop's
  cannot be read (`input_block.cpp:195`). The model has both;
  `SecureDesktopUntouched` says what is left.
- `Signal` of the broker looks a session up and then puts the message into its queue,
  without a lock in between (`session_worker.go:497`); the model takes the two as one
  step. A session that is removed in between only gets a message nobody reads.
- Keep-awake injects a mouse movement without asking whether the desktop is a secure
  one (`input_block.cpp:324`; not modelled).

## 7. Plan

Done: the Link agent, the watchdog and the client's WebSocket service, the credential
provider and the native side of the Windows client. Next:

1. **AuthSession** (`auth_state.dart`, the token of `ApiClient`, local detection):
   logins, claims, cancellation, logout and start-up over secure storage and the
   logout marker, one action per `await`. Properties: a cancelled or ended session
   is never restored, the API client's token is the session's, nothing of an ended
   session goes on listening. Composed with WsService (`onUnauthorized`, the callbacks that set `isOnline`).
2. **LinkHostSession**: offer, consent, policy changes, teardown and file
   transfers; an abstract specification (a viewer controls only under a policy
   that allows it and a consent that is present), and the detailed one shown to
   refine it.
3. **LinkHostRecorder** and its encrypted spool, beside RecorderClient; one abstract
   "reliable queue" that both refine.
4. **CallSession** (calls), **SupportCapture** (`_captureEpoch`), **ChatSync** (merging
   pushed and fetched messages, retries, read markers), **RdpLaunch**.
5. The Unix variants as a second initial state of AgentService; start and stop of the
   watchdog.
6. Proofs: an abstract "one worker per offered session" specification that
   SessionBroker implements; the map of the supervisor as another; the quota of the
   spool, should the prover come to do inductions over data.
