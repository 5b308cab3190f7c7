# A formal model of TermFast

TermFast is a desktop and Android SSH client: a daemon (Rust, tokio) keeps SSH
sessions to servers, forwards ports, runs proxies, fires triggers on events and
shares its terminals with other devices; a Tauri front end, an Android app and
a command line talk to it.  This directory models the parts of the daemon and of
its clients whose correctness depends on the order in which tasks run, on what
fails or on where a process ends, checks the models with TLC and proves their
main safety properties with TLAPS.

Paths below are relative to the root of the repository.  `instance.rs` is
`crates/core/src/server/instance.rs`, `engine.rs` is
`crates/core/src/trigger/engine.rs`, `port_forward.rs` is
`crates/core/src/proxy/port_forward.rs`, `sqlite_storage.rs` is in
`crates/core/src/config`, `manager.rs` is `crates/core/src/server/manager.rs`,
`terminal.rs`, `handler.rs`, `server.rs` and `remote_server.rs` are in
`crates/daemon/src`, `client.rs` is `crates/cli/src/client.rs`.

## Inventory

The repository has about 500 files and 150 000 lines.  Its own core logic is in
`crates/core` and `crates/daemon`; everything else is a front end of it, a
library of formats, or glue.

| component | state it keeps | operations | what is hard | where |
|---|---|---|---|---|
| server instance (`server/instance.rs`, `lifecycle.rs`) | status, auth of the last connect, handles of its background tasks | connect, disconnect, start and stop proxy, connection monitor, timers, firing | requests and the monitor write the same status and slots, each behind a lock of its own; tasks are aborted wherever they are | `ServerLifecycle` |
| SSH client (`ssh/client.rs`) | handle of the session, its state, host keys | connect, disconnect, `is_connected` | the session can end at any time; two dials at once | `ServerLifecycle`, in part |
| port forwarding (`proxy/port_forward.rs`, `ssh/forwarded_dispatch.rs`) | map of forwarders, the SSH handle, map of senders | start, stop, stop all, auto-start, accept and receive loops, dispatch | loops outlive their stop by up to 500 ms; the handle of a lost session | `PortForward` |
| trigger engine (`trigger/engine.rs`) | per-server lock, pauses, cooldowns, running count | `fire_event`, `manual_fire`, pause, resume | calls from six kinds of task at once, aborted in the middle | `TriggerEngine` |
| health checks, IP detection (`trigger/health.rs`, `ipcheck.rs`) | last result, last address | periodic check, fire on a change | a copy of the triggers taken at the start | |
| server manager (`server/manager.rs`) | map of instances | add, remove, reload, import | it follows the configuration, which is behind another lock; connects and monitors go on meanwhile | `ServerRegistry` |
| proxies (`proxy/manager.rs`, `socks5.rs`, `http.rs`, `mixed.rs`) | open channels, byte counts | open a channel, copy | the limit of channels | |
| configuration (`config/`) | the configuration, runtime state, encrypted SQLite file | modify and save, migrate, change the key | a change of the key that fails or is cut off | `Vault`, `ServerRegistry`, in part |
| daemon terminals (`daemon/terminal.rs`) | sessions, subscribers, history ring, announced ends | open, input, resize, subscribe, close | output goes on while a subscriber catches up; a terminal's end is announced by whoever comes first | `OutputFanout`, `LocalTerminals` |
| remote terminals (`daemon/remote_server.rs`, `remote_client.rs`, `remote_frame.rs`) | subscriptions, handles, pending and answered questions | list, subscribe, open, close, answer, flush | tunnels that die with frames on them; first answer wins | `OutputFanout`, `AgentQuestions`, `LocalTerminals` |
| relay tunnel (`daemon/tunnel_client.rs`, `frame_crypto.rs`) | connection, nonces | run, back off, encrypt, decrypt | reconnection against stop; replay | |
| daemon process (`daemon/server.rs`, `frame.rs`, `lock.rs`) | lock file, clients, shutdown flag | acquire, accept, serve, broadcast, shut down | requests and events share a connection; crash leaves a lock; drain of running triggers | `IpcConnection`, in part |
| request handlers (`daemon/handler.rs`) | none of their own | one per method | each request is a task; checks before long awaits | `ServerRegistry`, `CloudSync`, `LocalTerminals` |
| credentials (`crates/credential`) | master password, key store | initialize, change, reset, lock | one step of several failing | `Vault` |
| cloud sync (`crates/cloud-sync`, `handler.rs`, `android-ffi/cloud_sync.rs`) | hash, version and password hash of the last sync | upload, download, delete | several devices, no conditional write | `CloudSync` |
| agent status (`src/hooks`) | state of the agent in a terminal, the question pushed | patterns, timers, push, answer | answers from several devices, against the agent that goes on | `AgentQuestions` |
| window (`src/components`, `App.tsx`) | tabs of terminals | open, close, report, reload | events that arrive before the tab does | `LocalTerminals` |
| command line (`crates/cli`) | one connection | call, follow events | takes the next frame for its response | `IpcConnection` |
| Android bridge and app, desktop shell, relay scripts | handles, windows | glue | | in part, see `PROJECT.json` |

How they interact: a request handler finds the server's instance in the manager
and calls it; `connect` dials through the SSH client, hands its handle to the
forwarding manager and the channel opener, starts detection, health checks and
timers, fires the connect triggers and starts the auto-start rules; the handler
then starts the connection monitor.  The monitor polls the handle and, when the
session is gone, dials again and restarts all of this.  `disconnect` aborts the
monitor and takes everything down.  The engine is called by connect, the monitor,
detection, health checks, timers and manual requests, and executes commands over
the same session.

The configuration is the source of all servers: handlers change it first and the
manager's instances afterwards, and a download from the cloud drive replaces all
of it.  It lies in the encrypted database whose key the password gate provides.
A local terminal belongs to the terminal manager, to a tab of the desktop's
window and to any number of phones, which reach it through the relay tunnel; its
output goes to them through the fan-out, the questions of an agent in it through
the window's hook, the daemon's queue and the phones.  The window calls
the daemon in its own process, the command line over a connection, which carries
events as well.

What makes each component correct is listed with the hazards in `PROJECT.json`,
each at its line; the properties of the runs are chosen from that list.

## Modules

| module | models |
|---|---|
| `PortForward` | the forwarding manager, forwarders, loops and dispatcher |
| `MCPortForward` | an instance of it for TLC |
| `PortForwardProofs` | its theorems |
| `ServerLifecycle` | status, session and connection monitors of one server instance, under concurrent requests |
| `TriggerEngine` | the engine of one server, and the timers |
| `MCTriggerEngine` | instances of it for TLC |
| `OutputFanout` | a terminal's output on its way to the phones that watch it |
| `OutputFanoutProofs` | its theorems |
| `ServerRegistry` | servers in the configuration and as running instances, under concurrent requests |
| `ServerProofs` | the theorems of `ServerLifecycle`, `TriggerEngine` and `ServerRegistry`, whose specifications have names of their own (`LifecycleSpec`, `EngineSpec`, `RegistrySpec`) for it |
| `CloudSync` | several devices that share one file on a cloud drive |
| `MCCloudSync` | an instance of it for TLC: passwords are interchangeable |
| `CloudSyncProofs` | its theorems |
| `Vault` | the encrypted database, its copy and the master password, with failures and crashes |
| `VaultProofs` | its theorems |
| `IpcConnection` | one connection of the command line client to the daemon |
| `RequestStream` | what a client may expect of it: the abstract specification that `IpcConnection` implements |
| `IpcConnectionProofs` | the refinement, and what it rests on |
| `AgentQuestions` | the questions of a coding agent between the window, the daemon and the phones |
| `AgentQuestionsProofs` | its theorems |
| `LocalTerminals` | the life of local terminals and who announces their end |
| `LocalTerminalsProofs` | its theorems |

Each operator marked *mutant* in a comment is the operator after it with a
plausible bug; it is used by no specification, only to show that a property
would notice the bug.

### PortForward

One member of `Fwd` is a forwarder object together with its background loop.
`forwarders` is the manager's map, and `op` the operation that holds its lock:
`start_rule` holds it from the duplicate check to the insertion, across
`tcpip_forward`; `stop_rule` and `stop_all` hold it while they stop, one by one,
what they took out of the map.  A start of a local rule has no await at which
anything could intervene and is one step.  `loop` and `listener` are the accept
loop (spawned, listener taken, running, ended; the port is free only when the
listener is dropped) or the receive loop (spawned, registered, leaving,
unregistered).  `listening` is what the SSH server listens on for the live
session, `senders` the dispatcher's map, and `inflight` a `dispatch()` that has
cloned a sender and waits for room.

`sup` is what the server instance is doing: a connect or a reconnect that starts
the auto-start rules (the latter after a `stop_all`), or a disconnect.  A
disconnect may arrive while the monitor restarts the forwarding; it then aborts
the monitor where it waits (`DisconnectAborts`), and an interrupted `stop_all`
forgets what it had drained.  Those forwarders are remembered in `dropped`, a
history variable, so that the invariants can say that nothing *else* is ever
orphaned.  A stop asks the server to cancel a remote forwarding and ignores the
answer (`port_forward.rs:515`): `CancelForward` is the request that a live session
grants, or one that goes to a handle that is gone; `CancelRefused` the one that a live
session refuses, after which the key is listened on without an owner and is in the
history variable `refused`.  Other overlaps of the instance's own operations are in
`ServerLifecycle`.

Left out: copying of bytes and counters; port 0 (the server chooses); the
rejection of a rule by the user interface.

### ServerLifecycle

Requests and monitors are tasks with a program counter; a step ends where the
code awaits or lets go of a lock another task may take.  `handle_connect_server` and
`handle_start_port_forward` do not serialise the requests for one server
(`handler.rs:408`, `:6016`), nor does the model.  `status` is
`ServerInstance.status`; `handle` the SSH client's handle (none, up, or closed by
the peer, which is what `is_connected` asks); `monTask` the slot
`connection_monitor_task`.  `start_connection_monitor` takes what is in the slot
and aborts it, spawns its own monitor, and stores that, in three steps
(`ConnectStopsMonitor`, `ConnectSpawnsMonitor`, `ConnectStoresMonitor`); a second
connect between them leaves a monitor that is in no slot.  The history variable
`displaced` has the monitors stored by connects that overlapped there (`Overlaps`),
and `MonitorsTracked` says that every other one can be reached.

An `abort()` marks the monitor: it ends at its next wait (`MonitorDies` may also
happen at once), but steps that need no wait go on, because the runtime has several
worker threads.  Timing: a monitor sleeps at least 5 s before it looks at the
session, and a task that was aborted while being polled stops within one poll.
`MonitorWakes` therefore requires that no aborted monitor is still being polled.
This is an assumption on speeds, the only one.

`connect_with_reconnect` has no caller and is left out, as are the proxy, IP
detection, the health checks and the timers, on which no status, handle or monitor
depends.  The model has `auto_reconnect` set.

### TriggerEngine

A firing is one call of `fire_event` or `manual_fire`: it takes its snapshot,
checks the pause, waits for the lock, and for each matching trigger checks the
cooldown, records it and executes.  `manual_fire` goes through the same steps
with one trigger and no cooldown.  `age` is the time since a trigger was
recorded, and `Tick` the clock.  A firing that belongs to a task of the instance
may be aborted anywhere (`Abort`): its guards give the lock and the count back.
The order of the triggers in the list is left open.  `fired` is a history
variable.

### OutputFanout

`forward_and_broadcast` appends what the terminal's reader has merged to a ring
buffer and offers it to the bounded channel of every subscriber with `try_send`.
A subscriber whose channel was full *lags*; the next time there is output and
room it is sent the ring buffer as HISTORY instead, and lags no more.  `Flush` is
the beginning of this function: the ring buffer, and what each subscriber is to be
offered (`Offer`), with its flag.  Then each `try_send` is a step of its own, as the
forwarders empty the channels meanwhile: `OfferFits`; `OfferFails`, after which the
next chunk of a snapshot is tried all the same, while a piece of data makes the
subscriber lag and ends its turn; and `OfferClosed`.  `work` has the frames still to
be offered, and while there are any the subscribers' lock is taken (`Unlocked`).
`Subscribe` is `subscribe_remote` with the forwarder `handle_subscribe` spawns:
ring buffer and subscribers are behind that lock, so it is one step.
A forwarder takes a frame out of the channel (`Take`) and waits for room
in its tunnel's queue (`Forward`); it ends when the tunnel is gone
(`ForwardFails`) or its subscriber is (`ForwardEnds`).  `tunnel` is where the loop
of `handle_tunnel` is: selecting, or in the answer to LIST_REQUEST, where it waits
for room in the queue that it alone reads (as do the answers to REDRAW_REQUEST
and the pending questions after SUBSCRIBE, which are left out).  Channels and
tunnels are used once, as in the code.

Data are units of one frame (64 KiB), numbered as the terminal puts them out.  A
smaller flush fills a frame partly; the ring buffer holds pieces as they were
flushed and evicts whole pieces, which `history` keeps by their first unit.

`Wedge` is the loop waiting for room it will not get: in the tunnel's outbound
channel, whose bridge may wait for the loop to take what the phone sent
(`tunnel_client.rs:252`), or in its own queue.  Nothing makes it go on but the end of
the tunnel, and nothing makes it happen.

A HISTORY transmission is not always complete: a chunk that does not fit is skipped,
one after it may fit again, and the flag is cleared even so.  `NoSilentGap` is what is
left of the promise: what was lost shows in the numbers of the chunks around it, or
comes after a HISTORY frame without the last-frame mark.  (The phones clear the
screen at chunk 0 and append the rest; they do not use the numbers otherwise.)
It also needs flushes no larger than the ring buffer (256 KB), which nothing in
the SSH reader's merging ensures; the theorem has that as its hypothesis, and
the runs as their constants.

Left out: NOTIFY frames and questions of agents, which share the channels; the
end of the terminal; the bridge behind the tunnel's outbound channel, but for
`Wedge`; encryption.

### ServerRegistry

`cfg` is what `config_manager` holds, `reg` the manager's map, and `inst` all
instances ever built: one that has left the map may live on.  `op[t]` is the
request task `t` serves, and its program counter names the step to come:
`handle_add_server`, `handle_remove_server`, `handle_update_server` and
`apply_full_export` change `cfg` (`AddConfig`, `RemoveConfig`, `UpdateConfig`,
`ImportConfig`), let go of its lock and go on with the manager (`AddInstance`,
`RemoveDisconnects`, `RemoveInstance`, `Reload`, and `ImportStep` for each server
of `sync_from_config`, which holds the manager's lock all along).  A change of
triggers goes to the entry and then to the engine of the instance it finds.  A
connect takes the triggers of the configuration first (`ConnectSync`) and dials
outside all locks; `ForwardConnect` is the connect of a remote port forward,
which does neither that nor the check of the limit.  `Lose`, `Reconnect` and
`GiveUp` are what the connection monitor of `ServerLifecycle` does to the status.

An entry is the version of its settings and the version of its triggers, so that
the properties can tell whether an instance runs what the configuration says.
Two changes of one server that overlap may leave the two apart (an update that
overtakes a removal builds an instance nobody can remove); `overlapped` remembers
such servers and the properties speak of the others.

Left out: saving, which succeeds; cancelled requests; runtime state; the ports.

### CloudSync

A device runs one sync operation at a time, whose steps end where the handler
awaits the drive: `UploadBegin` (password and conflict checks), `UploadFile`,
`Refetch`, `RecordState`, `RecordPassword`; `DownloadBegin`, `DownloadFile`,
`Apply`, and the same two to record.  `Abandon` is an error or the end of the
process at any of these points.  A file is its revision, password and one trigger
of the device `Author`.  Daemon and phone run the same sequence; they differ in
`Stripped`, which on a desktop removes all triggers from what it applies.
`seen` says that a device wrote or applied the very file on the drive;
`interfered` marks a write that fell between an upload and the re-fetch of its
hash.

Each provider has a recorded hash of its own, but the password hash is one for all
(`handler.rs:4485`), and setting, changing or resetting the master password empties it
(`credential_manager.rs:66`).  The model follows the file of one provider;
`SyncElsewhere` is a sync of the device with the other one, of which only the
password hash is seen, and `ClearPassword` the emptying.  Either, or a sync that ended
before its password hash was saved, makes the stored hash another one than that of
the last sync with this drive: `stray` remembers it, and `PasswordChangeConfirmed`
excepts it.  Devices start with any password hash or none.

Left out: tokens, formats, and `check_rollback`, which compares clocks that may
differ arbitrarily and is one of the reasons of `Abandon`.

### Vault

`db` and `bak` are the database and `.db.bak`, each a key, the number of the last
write and the marker `using_default_dek`.  A change of the password goes through
`Backup`, `PragmaRekey`, `Mark`, `RemoveBackup` and `Cache`, a reset through
`Clear` and `Uncache` at the end; each step may fail where the code returns an
error, and `Crash` may come between any two or inside the copy or the rekey, which
then leaves the old key, the new one or a file no key opens.  The process starts
with `Start` (`DEFAULT_DEK`), `CachedUnlock` (the keychain, tried by the start
itself and by the gate) and `Unlock` (the gate); all go through
`open_or_recover`.

`confirmed` is the key the user was last told of, or that opened the database;
`attempts` are those of changes since that got no answer.  Two exceptions are
histories: `leftover`, a copy that a change cut off behind the rekey has left, and
`skipped`, a reset that believed the marker of such a change.

Left out: SQLite's journal, the rows, key derivation, and processes that open the
file side by side.

### IpcConnection and RequestStream

A request is written in `Parts` pieces and read by a poll that takes what is
there (`Read`).  `handle_unix_client` waits for a request and for an event with
`select!`, and an event that comes first (`ForwardEvent`) drops a read under way
(`torn`); what is read next is no length the daemon accepts, and it closes.  The
client takes the next frame for its response (`Receive`): events have the type of
responses, so one that was broadcast before is taken too, and `returned` records
which frame each call took.

`RequestStream` says what the daemon promises in spite of that: requests are
handled in order, at most once, and answered before the next; `InOrderAtMostOnce`
maps its `broken` to `torn \/ daemon = "closed"`.

Left out: the accept loop; the named pipe of Windows, served alike; the size of
the socket's buffer.

### AgentQuestions

`ref` is `pushedQuestionIdRef` of `useAgentRemoteAnswer.ts`: the question the front
end has pushed and holds.  It is settled when the agent goes on (`Unblocked`), but not
when the screen shows an idle agent (`TurnsIdle`, `useAgentStatus.ts:373`): then it is
kept, and a dialog that comes up later passes for the one it is about.
What the front end asks of the daemon
(`notify_agent_blocked`, `notify_agent_resolved`, `mark_question_answered`) is in
`calls` until it is served, one at a time and in any order, as the tunnel
manager's lock hands them out; `notify_agent_blocked` broadcasts and enqueues in
two steps (`asking`).  A phone's tunnel is flushed all pending questions when it
opens and when the phone subscribes; a broadcast is dropped where the queue is
full.  A phone answers, dismisses, confirms or types in the terminal; the desktop
answers through `LocalAnswer`, which marks the question first and types only if
it was the first, or, while the front end holds no question, because an event has
cleared it, through `LocalAnswerUnmarked`, which just types
(`TerminalView.tsx:472`).  When the terminal closes it leaves the IdMap with its
subscribers (`CloseTerminal`), and the daemon then finds none of its pending questions
to remove (`remote_server.rs:660`); its tab goes some time later (`TabGone`).
`Forget` is the removal from `answered_questions` after 30 s.

Exceptions in histories: `lost` (the terminal had no handle yet, or the tunnel
died with the frame) and `ghosts` (settled before it was enqueued, or when its terminal
was closed).  What the desktop types unmarked to a question that was answered already
is seen in `again`, and `FirstAnswerWins`, which is about marked answers, leaves it out.

Left out: the text of questions and how a dialog is recognised; expiry after a
day; the limit of 100 questions.

### LocalTerminals

A terminal's main task (`main`) reads until its shell ends, then claims the
announcement under the lock of `closed_sessions` and sends it (`MainClaims`,
`MainSends`); `close()` removes the session, kills and aborts, then claims it in
turn with the lock of `sessions` still in its hands (`Remove`, `AnnounceClosed`).  A
main task that is handed input for a shell that is gone may also find its writer's
channel closed and leave without any announcement, the session staying in the map
(`MainBreaks`, `terminal.rs:694`).
Requests are `handle_terminal_close` of the window, which marks the end as
announced and fires `BeforeTerminalClose` itself; CLOSE_TERMINAL of a phone;
LIST_REQUEST, which gives out handles (`ListHandles`), sends its answer into the queue
that its own loop empties and so may wait for ever (`ListResponse`), and then closes
the sessions that no tab shows (`Zombies`); and the shutdown.  Opening ends in `Opened` after 300 ms and then in the window's tab
(`Return`) or the phone's handle (`Show`, `Adopt`).  `gui` are the events on their
way to the window, `tabs` what it shows, `alive` what it last reported.

Histories: `sent` and `direct` count announcements, `cut` marks a main task that
was aborted between its claim and its sending, `silent` one that left without a word,
`missed` a tab that was not there yet when the event came.

Left out: SSH terminals, input and output, names, the triggers.

## Runs

| run | instance | shows |
|---|---|---|
| `PortForward` | a local and a remote rule, both auto-start, 2 forwarders alive at once, queue of 1, fairness | five safety invariants; stopped loops end, the lock is given back; the server may refuse a cancellation |
| `ServerLifecycle` | 2 requests at once, 2 monitors, 1 dial attempt, fairness | monitors can be reached, a loss is noticed |
| `TriggerEngine` | 2 triggers (timed with cooldown, one-time), 3 calls, fairness | exclusion, exact count, cooldown, every call returns |
| `OutputFanout` | 1 phone, 1 tunnel, 2 subscribers in all, channels and ring buffer of 3, 6 units of output | gaps that show, exact flags |
| `OutputFanoutLive` | 2 phones, 2 tunnels, 2 subscribers in all, 1 unit of output, fairness | one subscriber a phone, forwarders of removed subscribers end |
| `ServerRegistry` | 1 server, 2 requests at once, 2 instances, 1 new version | registry and engine follow the configuration; no connection outside the registry |
| `CloudSync` | a desktop and a phone, 2 interchangeable passwords, 3 uploads | hashes, overwrites, passwords, no foreign triggers |
| `CloudSyncHash` | the same | *violated:* the recorded hash may be another device's |
| `Vault` | 3 passwords, 3 writes | no lock-out, no old password, recovery only after a cut-off change |
| `IpcConnection` | 5 calls of 3 parts, 5 events, fairness | refines `RequestStream`; calls behind by the events taken; every call returns |
| `AgentQuestions` | 1 phone, 2 dialogs, 2 questions, queue of 1 | the question held is not forgotten, none queued that is settled, one marked answer typed |
| `LocalTerminals` | 1 terminal, 2 requests at once, fairness | one announcement, none missing, tabs marked, requests return, all but for a task that left without a word and an answer that waits for itself |

Bounds.  Two forwarders are what it takes for a rule to be stopped and started
again while the old loop still runs, or for both rules to be up; identities are
used again, so the number of starts is not bounded.  A queue of one makes `dispatch()` wait.  Two requests are
the two connects that overlap in `start_connection_monitor`, or a connect and a
disconnect, in every order; two monitors are theirs, or a new one that starts while an
aborted one is still being polled.  Three calls are a
holder of the lock, a waiter and one that enters; a cooldown lasts one
tick, which is the clock's cap.  In `OutputFanout` six units are what it takes
to fill a channel of three, lose one, and recover with a snapshot of three chunks
whose second is lost and whose third is not, because the forwarder took a frame in
between; subscribers that replace each other, on one tunnel or on two, are in
`OutputFanoutLive`.  In `ServerRegistry` two requests overlap in
every pair of operations, and the second instance is the one that replaces the
first.  Three uploads in `CloudSync` let each device write and one write again
over the other's file.  In `Vault` three passwords are the old, the new and the
wrong one.  Three parts let a request be torn after its length and inside its
text.  Two questions in `AgentQuestions` are the one on screen and its
predecessor; deadlock is checked there, as the phone can always reconnect.  In
`LocalTerminals` two requests are every pair of closers of one terminal, next to
its main task; terminals share nothing but locks, and the theorems are about any
number of them.  Where the
bounds end the behaviour (writes, uploads, versions, output, calls) the
configuration turns the deadlock check off.  The theorems have none of these
bounds.

Fairness.  `PortForward`: every spawned loop is polled (its waits have a timeout
of 500 ms) and the holder of the manager's lock proceeds, because a request to
the SSH server is answered or fails; connects and reconnects need not happen.
`ServerLifecycle`: every task is polled, and a dial ends by its timeouts.
`TriggerEngine`: a call proceeds, because commands have timeouts, and tokio's
mutex serves waiters in order (strong fairness of `Acquire`); pauses, aborts and
the clock need not happen.  `OutputFanout`: a task that can go on does; tokio's
channels serve waiting senders in order (strong fairness of `Forwarder`); a tunnel
whose loop waits for itself or for its bridge is excluded by the property, and nothing
forces the loop to wedge; output, requests and
closing tunnels need not happen.  `IpcConnection`: a client that runs goes on, the daemon polls its
connections and a handler returns; nobody need call, broadcast or end.
`LocalTerminals`: the main task and a request go on where they can, but the answer to
a LIST_REQUEST need not get out; shells need not exit, nor writers give up, nor the
window do anything.

## Proofs

Every invariant and every action property that a run checks is also a theorem;
so is the refinement of `RequestStream`.  The theorems hold for every value of the constants that satisfies the module's
named assumption, which types them and bounds them from below (`ServerRegistry`
also has that `NoServer` is no entry); `OutputFanout`
also assumes that the whole ring buffer (4 or 5 frames) fits an empty channel
(256).

*PortForward.*  No two forwarders serve one rule, but not because the map has one
entry per rule: a forwarder that serves must be shown to be in the map or with
the lock's holder.  `IInv` adds to the four properties that an entry is filed
under its own rule and not cancelled (`MapAgrees`), that what the lock's holder
works on is out of the map and has one forwarder per rule (`OpAgrees`), that a
sender is filed under the key of a loop that has still to unregister it
(`SendersAgree`), and that a loop belongs to a rule (`LoopsAgree`).

*ServerLifecycle.*  A connect that is about to install a monitor has emptied the slot,
so that it is empty or holds a monitor that was stored meanwhile by a connect it
overlaps with, which is in `displaced` (`SlotFree`); storing loses no other one.  The
theorem is for any number of requests at once.

*TriggerEngine.*  The lock's owner is exactly the firing past `Acquire`
(`LockAgrees`); a cooldown found expired stays expired until it is recorded,
since only the owner records (`CheckStands`).  From these, exclusion, the exact
count and the action property `CooldownRespected`.

*ServerRegistry.*  The three properties speak of a server that no request is
changing; a step of a handler that is half done says nothing of them by itself.
`HalfDone` says what the entry already is between a handler's change of the
configuration and its change of the manager, and `OneChange` that this handler is
the only one for a server not in `overlapped`: when it reaches the registry,
registry and entry agree (`ReachedMatches`), for each server of an import by
itself, as the import passes it (`Ahead`).  For the triggers the same is said of
the engine (`ReachedFresh`), where a handler may stand between the entry and the
engine (`Untold`); and an import whose copy of the configuration is older than a
change of triggers still knows either the entry's or the engine's (`ImportFresh`).
`NoOrphanConnection` needs that an instance is registered under its own id and that
a task's instance has been built (`OwnInstances`).  `handle_add_server` is called with
a new id, of which there is neither an entry nor an instance (`KnownIds`).

*OutputFanout.*  `NoSilentGap` is about the frames of a channel, `LaggingExact`
about the last frame that was sent to it, and each needs the other: a piece may
follow the last frame only because a subscriber that does not lag was sent all
there is, and the flag says so only if no frame after it is out of order.
`GapInv` is their conjunction with `SentIsOut` (nothing is sent before it is
output), `WorkNewest` (what a flush has still to offer are the newest units) and
`WorkFollows` (the first of them may come after the last frame the channel was sent).
`FlushChannel` proves it for the beginning of a flush, by whether the subscriber lags,
and `OfferGap` for each `try_send`, whether it fits or not, from what `Snapshot` and
`Pieces` return, which are lemmas of their own (`SnapshotFrames`, `PiecesFrames`).
`FanoutNoSilentGap` and
`FanoutLaggingExact` assume `MaxBurst <= HistCap`.  `FanoutOneSubscription` needs
no hypothesis.

*CloudSync.*  Revisions grow, so a recorded hash that matches the file on the
drive was read after that file was written.  `SyncInv` follows a hash from where
it is read to where it is recorded (`Recorded`), and says at each of these points
what is known of the file when the hash matches (`Known`): that it was seen, and
that its password is the one typed or stored, unless that is `stray`.  The action properties
`NoBlindOverwrite` and `PasswordChangeConfirmed` follow from what `Known` says of an
upload under way.

*Vault.*  Between the copy and PRAGMA rekey both files have one key, so a crash
there leaves at least one of them readable under a key the user knows
(`KeyKnown`); and but for the stretch that `leftover` marks a copy opens nothing
that the database does not (`CopyAgrees`).

*IpcConnection.*  The parts written account for the parts of the frames handled,
of the one being read and of those under way (`Accounting`), so that a frame is
complete only if its request was made; between two polls every handled request is
answered (`Alternates`).  With these every step is a step of `RequestStream` or
stutters.

`BehindByEvents` counts: a call returns an event or the response whose number is one
more than that of the responses before it, so a call's number less the events
before it is the number it returns.  `Numbered` says which response comes next from
the connection, of those returned, on their way and to be served, and with it the
formula is inductive; it rests on lemmas about how many events a sequence holds
(`EventsIn`).

*AgentQuestions.*  Four actors write about one question, and each property needs the
others.  `PendingIsOpen` fails at `Enqueue` unless the question that is on its way to
the queue is still the front end's, or its resolution is in `calls` or overtook it
(`AskedIsOpen`), or the terminal was closed; removing one question from the queue leaves none of it behind
because each is there once (`QueueKept`).  `NoQuestionForgotten` survives a frame that
tells a phone to drop a question because such a frame is only about settled ones
(`DoneIsSettled`).  `FirstAnswerWins` holds because an answer on its way to the front
end is in `answered`, is the only one for its question, and nothing was typed for it
yet (`TypedIsFirst`).  `AgentInv` is their conjunction.

*LocalTerminals.*  A terminal in `closed_sessions`, or one that has ended, is
`Announced`: sent, fired by a request, about to be either, or cut off
(`ClosedAnnounced`, `EndsAnnounced`), unless its main task left without a word and its
session is still in the map (`Unheard`); closing it removes it from there and announces
it; and a request that announces is about one
terminal (`OneInHand`).  A Closed event is sent under the lock of
`closed_sessions` only, by whoever adds the terminal to it (`SentIsClosed`); hence
once.  `IInv` is this part.

`TabsMarked` relates the window, which follows its events, to the daemon, which is
ahead of it.  An announced end is `Settled`: told to every tab that shows or may
still show (`MayShow`: opening it will add one, or an event in `gui` will).  The user
who closes a terminal has no tab of it left and none to come (`TabGone`), since a tab
comes once (`TabOnce`) and nobody acts on a terminal before it is opened (`Fresh`).
The shutdown, which tells the window nothing, is an exception of the property
(`ShutsDown`).  The hard case is a `remove_tab` that the window reads before the tab
is there: it then has read `terminal:closed` too early as well, which is `missed`
(`RemovalTold`).  `TabInv` is `IInv` with these.

Only model-checked: liveness (`StoppedLoopEnds`, `LockReleased`, `LossNoticed`,
`CallsReturn`, `RemovedForwarderEnds`, `CallReturns`, `CloseReturns`), which the
prover's backends do not handle under fairness.  The inductive invariants were
checked with TLC on instances like those of the runs before they were proved.

## Where the code departs from what it says

The run `CloudSyncHash` ends in a violation of a line of the source (`findings` in
`PROJECT.json`): `check_upload_conflict` calls an upload safe when the recorded hash
is that of the drive (`handler.rs:5142`), but `handle_cloud_sync_upload` records the
hash it finds after its upload, which may be of another device's file
(`handler.rs:4804`).  The models of the other runs have the behaviours below, which
their properties except by name or do not speak of.

- `lifecycle.rs:90` calls `Disconnected -> Connected` invalid; `connect` sets
  `Connected` whatever the status is by then, also after a disconnect that ran to
  its end while it was dialling (`instance.rs:320`).
- `start_connection_monitor` takes, spawns and stores under two locks
  (`instance.rs:408`, `:571`): two connects at once leave a monitor that no disconnect
  reaches.  A monitor aborted while being polled may still store a new session
  (`instance.rs:380`).
- `port_forward.rs:515` ignores the answer to a cancellation: a rule the server refuses
  to give up is reported as stopped and is still listened on.
- `instance.rs:531` restarts the forwarding; the stopped accept loop keeps its
  listener for up to 500 ms, so the bind that follows fails and the local rule stays
  stopped.
- `port_forward.rs:664` stops all rules; a `stop_all` that is aborted forgets the
  forwarders it had taken out of the map, and they serve on.
- A stopped loop of a remote forwarder unregisters its key and with it the sender of
  the forwarder that has replaced it (`port_forward.rs:500`).  The receiver is
  registered after `tcpip_forward`, not before (`forwarded_dispatch.rs:20`).
- `instance.rs:753` has a one-time trigger fire once; its task calls `fire_event`,
  which fires all scheduled triggers of the server, so two of them fire each other.
  One whose time comes in a pause is disabled unfired (`instance.rs:781`).  Pending
  events are never added (`engine.rs:81`), and a call that waits for the server's
  lock while triggers are paused executes them afterwards (`engine.rs:190`, against
  `server.rs:1003`).
- HISTORY for a lagging subscriber may be cut short or lack a chunk in the middle, with
  its last one delivered (`terminal.rs:1547`).  The answer
  to LIST_REQUEST waits for room in the queue that its own loop empties
  (`remote_server.rs:1249`).
- `reload_server_config` leaves an instance that is `Reconnecting` alive
  (`manager.rs:84`); one that is still dialling connects after it was replaced.  An
  import that finds a server unchanged leaves an engine with other triggers
  (`manager.rs:126`).  The limit of connections is checked by one of the paths that
  connect (`handler.rs:416`).
- The password hash that an upload is checked against is that of the last sync with
  any provider (`handler.rs:4489`), or none after a change of the master password
  (`credential_manager.rs:66`): the password of the file is then changed unasked.
- `useAgentRemoteAnswer.ts:189` takes a question whose id it holds to be "already
  pushed for this blocked session"; after `blocked -> idle -> blocked` it is the
  question of the dialog before, and the new one is never pushed.
- A terminal whose main task finds its writer gone (`terminal.rs:694`) ends
  unannounced: no trigger fires and its tab looks connected until somebody closes it.
- `open_or_recover` takes the copy for the remains of a crash whenever the key fits
  it (`sqlite_storage.rs:846`).  A reset trusts a marker that a failed rekey has not
  written yet (`sqlite_store.rs:213`).
- `client.rs:64` waits "for the response"; it takes the next frame, which may be an
  event, and never catches up (`client.rs:86`).
- LIST_REQUEST closes terminals without a tab, among them one that is being opened
  (`remote_server.rs:1187`).  `handle_terminal_close` fires `BeforeTerminalClose` also
  when the end of the shell has been announced already (`handler.rs:3223`).

## Plan

In this order:

1. That `ServerLifecycle`'s status refines the transitions `lifecycle.rs` allows, for
   one request at a time; that `OutputFanout` implements a stream of which a phone sees
   contiguous parts.
2. `Tunnel`: reconnection and backoff of the relay client against stop, the
   bridge and `handle_tunnel` with their two bounded channels, the registry of
   active tunnels, and the nonces of `frame_crypto.rs`; composed with
   `OutputFanout`; theorem: no frame is accepted twice.
3. `DaemonLock` and `Shutdown`: one daemon, a stale lock after a crash; pause,
   drain, disconnect; composed with `TriggerEngine`.
4. SSH terminals: input with its acknowledgement, the closing of all terminals of a
   server, the merging of the reader, whose 5 ms timer starts anew with every
   packet; as an extension of `LocalTerminals`.
5. `ConfigStore` (modify-and-save of `ConfigManager`, statement by statement),
   `AgentStatus` and `AnswerSubmitter` (front end).

## Not modelled

Formats, parsers and rendering (SOCKS, HTTP, templates, tmux output); cryptography
and key derivation; the HTTP of the cloud providers; OAuth; user interfaces beyond
tabs and questions; JNI glue; the VPN; the operating system's PTYs.  Their
correctness is a matter of inputs, not of interleavings, and tests reach it.  They,
with the definitions of data and the tests, are by far the larger part of the
repository's lines; what is modelled is a small share of them, chosen for its
concurrency.

Within the modelled components each section above names what its module leaves
out, and `PROJECT.json` gives the status of every component.
