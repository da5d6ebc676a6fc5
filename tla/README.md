# A TLA+ model of kiss-tnc-bridge

`kiss-tnc-bridge` is a daemon that shares KISS TNCs (serial, TCP, Bluetooth
Classic, BLE) among the apps that connect to it over TCP or BLE. This
directory holds a formal model of it: TLA+ modules translated from the Rust
source, TLC configurations that check them on small instances, and proofs
that TLAPS checks for all instances. `PROJECT.json` indexes everything: it maps
each definition to the lines it models, lists what every run checks, the
hazards the code is exposed to, and what is proved.

Paths below are relative to the repository's `src/`.

## The system

| Part | Source | What it does | Modules |
|---|---|---|---|
| Bridge | `bridge/mod.rs`, `bridge/policy.rs` | one task per bridge: owns a TNC link, passes frames between it and the app sessions, connects, backs off, closes | `Bridge`, `TncPort` |
| KISS framing | `kiss/`, `port/stream.rs` | stuffing, reassembly, limits | `KissStream` |
| TCP app port | `port/tcp_server.rs`, `port/listen.rs` | listens, admits sessions up to `max_clients` | `TcpServer` |
| BLE app port | `port/ble_server.rs` | advertises, serves phones, watches their links | `BleServer` |
| TNC ports | `port/spp_client.rs`, `port/ble_client.rs` | open a link over Bluetooth | `SppClient`, `BleClient` |
| TNC initialisation | `port/tnc_init.rs` | puts a TH-D7x in KISS mode and back | `TncInit` |
| Reconciler, supervisor | `reconcile.rs`, `supervisor.rs` | compare the running bridges with the configuration; start, update, stop | `Reconcile`, `Supervisor`, `BleManager` |
| Configuration | `config/`, `control/edit.rs` | load, resolve, validate, edit, persist | `Config`, `Edit`, `ConfigStore` |
| Announcer | `announce.rs` | DNS-SD groups, collisions, names | `Announcer` |
| Control socket | `control/server.rs`, `control/events.rs` | requests, answers, event streams | `ControlServer`, `Activity` |
| Pairing | `pairing.rs`, the `bluetooth.*` commands | scans and pairings with a person's answers | `Pairing` |
| TUI | `ctl/tui/` | status tree, forms, changes, scans and pairings | `TuiStatus`, `TuiForm`, `TuiChange`, `TuiScan` |
| Setup wizard | `ctl/setup.rs`, the consent of `ctl/run.rs` | finds a radio, makes a bridge for it, checks it | `SetupScan`, `Setup` |

The daemon's one loop owns the supervisor, and hands what takes time to tasks:
a bridge is a task, each of its ports is one, the announcer and the BLE manager
are one each, and every control connection has three. They talk through
bounded channels and watches, so that nearly every hazard is of one kind:
something was read, and an `await` later it is no longer true.

A bridge is a tokio task around one `select!`. Sessions reach it through one
bounded channel shared by all its app ports, the current link's reader and
writer through another, the supervisor through a third. What makes it hard is
that the tasks of a link outlive the link: an aborted reader may still have an
event in the channel, a writer may still be tearing down when the next link is
up, and while the TNC takes nothing the bridge stops taking app events
altogether, `SessionClosed` included.

## Modules

**`Bridge`** models `bridge/mod.rs` whole. Its variables:

- `run` is the struct `Run`, plus the tasks spawned for each link. Each method
  of `Run` is an operator from record to record with the method's name
  (`start_connect`, `disconnect`, `uplink`, `apply_settings`, `on_link_ok`, ...),
  and a handler composes them in the order of the code. `run.links[l]` is the
  l-th link that came up: the generation its tasks were given, whether its
  reader and its writer are there, the writer's channel, the message being
  written and the last one written.
- `appQ` and `tncQ` are the two bounded channels; a task that sends to a full
  one waits, as in `send().await`.
- `apps` is what a session is to its port. The app ports are the environment:
  a session opens, sends, closes, opens again under the same id, and may have
  a frame delivered after it closed (as BLE clients' readers do).
- `used` counts how often the environment acted, against the bounds.

The actions are the branches of the loop (`TakeApp`, `TakeTncFrame`,
`TakeTncClosed`, `ConnectOk`, `ConnectErr`, `BackoffOver`, `IdleElapsed`,
`Shutdown`, `Stopped`), the commands of the supervisor (`CmdSettings`,
`CmdConnector`, `CmdHold`), the steps of the reader and writer tasks, and those
of the app ports. A handler runs without an `await` that lets a state change
through, so it is one step.

What is abstract: a frame is its number and its command byte; times are only
"elapsed" or "still running" (`FrameAges` makes a pending frame too old);
addresses, reasons, timestamps and the notifications to the event hub are
left out. `taken`, `cleared`, `slow` and `overrun` are history variables. `Kick` and
`Snapshot` change nothing in `Run`. A writer that fails while a handler queues
frames for it is modelled as failing just before or just after.

**`TncPort`** is the abstract specification of a port as the readers of its
watch channel see it: which states follow which, and what `attempt` counts.

**`KissStream`**: a peer writes frames into a byte stream; the reader gets it
in chunks of any size and may join it anywhere. `scan` and `drained` are the
loop of `drain_frames`, `decode` is a fold over the bytes. What was sent is the
reference: `Intact` compares what comes out with it. Bytes keep their values.

**`TcpServer`**: the listener's task (`bind`, `Retry`, `Accept`, `Stops`), a
task per connection (`Opened`, `ReadFrame`, `FrameSent`, `WriteFrame`,
`Written`, `Kicked`, `Shut`, `Told`), the atomic count, and the bridge reduced
to the sessions it knows. A session is named by its peer's address, as in
the code, while a connection also has a number.

**`BleServer`**: the loop's variables are the record `port`; around it are the
tasks of sessions, the watchers of links, one bounded channel from all of them,
the list of phones on disk, and phones that connect, write, subscribe and
leave. `Kill` ends the daemon anywhere; `Start` is the next run.

**`SppClient`** and **`BleClient`**: the connects that a bridge starts and
aborts one after the other, each a task whose every `await` is a place where it
can be dropped, against BlueZ. In `SppClient`, `raced` remembers that a connect was
started while an aborted one was still there, which the code doesn't rule out.

**`TncInit`**: the scanner of the byte stream (`struct Radio`), the commands with
their waits, and the radio of the module's own tests, which may be busy, late,
dead, in KISS mode already, or have KISS on another interface.

**`Reconcile`** is `plan` as a function. **`Supervisor`** makes plans and applies
them in three passes, with sessions, links and adapters that change between
passes; the configurations are constants, of which it is assumed what the proofs use of
validation (`ValidConfigs`). **`BleManager`** is the task that runs BLE ports on the adapters there
are. Its `reconcile` is one step per answer of BlueZ: `ListAdapters`, `AskAdapter` for each name,
then `Settle`, which starts and stops ports or panics. A port's instance there is the start, failure
and end of `BleServerPort::run`.

**`Config`** takes files to the configuration in effect, **`Edit`** has each command
of the control API as an operator from text to text, and **`ConfigStore`** runs both
with two files on disk, edits by hand, failing writes and kills. A text is
the record of its definitions; the syntax of single values is one flag.

**`Announcer`** has the announcer's task, `follow_listening` of each port, the
names in `state.toml`, and Avahi with its signals. **`Pairing`** has scans and
pairings as tasks, their lock and tables, the person and the radio.
**`ControlServer`** is one connection, its reader, writer and forwarder;
**`Activity`** the coalescer of byte counts.

**`TuiScan`**, **`TuiChange`**, **`TuiStatus`** and **`TuiForm`** each have
one concern of `App`, with the connection's two queues where answers can be
late; keys are the environment's. What they have of the daemon is the part of `change` and
`bluetooth` in `supervisor.rs` that an answer or an event depends on. **`SetupScan`** and **`Setup`** are the wizard, as
the sequence of its calls, with a person who types at any time and somebody
else who changes the configuration between two calls.

`MCBridge` gives the bridge its constants. Each of the other four `MC` modules has
several components that share no state, as instances of their modules or by extending
them, with a variable `active` that says which of them takes steps; the
others rest where they started: `MCTcpPort` (`TcpServer`, `KissStream`), `MCBluetoothPorts`
(`SppClient`, `BleClient`, `TncInit`, `BleManager`), `MCDaemon` (`ConfigStore`, `Supervisor`,
`Announcer`, and of ktbctl `TuiChange`, `TuiForm`, `SetupScan`, `Setup`: safety only) and
`MCClients` (`BleServer`, `Pairing`, `ControlServer`, `Activity`, `TuiScan`, `TuiStatus`). A property is about one component, so checking
them side by side in one run is checking each alone, and a component's
fairness is that of its own specification: the runs merge the fair steps of the
components by number, which is sound because only the active one has steps.

The theorems are in `BridgeProofs` (types, the link's life, and that the bridge
implements `TncPort`), `BridgeFrameProofs` (the counters, ExitKiss, late events),
`TcpServerProofs`, `BluetoothProofs` (`SppClient`, `BleServer`), `ConfigStoreProofs`,
`SupervisorProofs`, `PairingProofs` and `TuiChangeProofs`.

Conventions: a struct is a record and a method an operator with its name; an
optional value is a set of at most one element; `used` (in `Supervisor`, `tally`) counts
what the environment did, against named bounds; history variables are marked so where
they are declared.

Operators marked "Variant with a defect" are not part of the model: each is a
plausible mistake in one handler, and substituting it makes a named property
fail. `PROJECT.json` pairs them under `mutants`.

## Runs

`tlc -config <cfg> <module>`. Each ends within five minutes on two cores.
`PROJECT.json` has the sentence for each; in short:

| Run | Module | What it checks |
|---|---|---|
| `bridge_frames` | `MCBridge` | the path of the frames: `FramesAccounted`, `UplinkInOrder`, `ExitKissLast` |
| `bridge_events` | `MCBridge` | events of links that are gone, and the refinement of `TncPort`: `StaleEventsIgnored`, `DeadLinkNoticed`, `StateAsWatched` |
| `bridge_live` | `MCBridge` | the link's life under commands, sessions and faults, and what must happen in the end: `LinkConsistent`, `WantedLinkComesUp`, `UnwantedLinkReleased`, `ShutdownEnds` |
| `bridge_held_down`, `bridge_held_up`, `bridge_teardown` | `MCBridge` | three disagreements, below |
| `tcp_port` | `MCTcpPort` | `TcpServer`: `NoGhosts`, `NeverOverMax`, `SessionsEnd`; `KissStream`: `Intact` |
| `tcp_kick` | `MCTcpPort` | a disagreement, below |
| `bluetooth_ports` | `MCBluetoothPorts` | `SppClient`: `WaiterStands`, `NoStrayConnection`; `BleClient`: `UpForGood`; `TncInit`: `LeftAsFound`, `FramesKept`; `BleManager`: `ServesWhenItCan` |
| `ble_ports_come_back` | `MCBluetoothPorts` | a disagreement, below |
| `daemon` | `MCDaemon` | `ConfigStore`, with `Config` and `Edit`: `RestartKeeps`, `PutReplacesWhatWasGot`; `Supervisor`, with `Reconcile`: `SocketsClaimedOnce`, `RunsAsConfigured`, `DisruptionsForetold`; `Announcer`: `AnnouncedAsListening`; `TuiChange`: `ForcedAfterRefusal`; `TuiForm`: `DefinitionFits`; `SetupScan`: `PickedAsShown`; `Setup`: `EditsKept` |
| `clients` | `MCClients` | `BleServer`: `SessionsAgree`, `StaleDropped`, `WatchedPhonesHeard`; `Pairing`: `PairedByReply`, `EveryRequestAnswered`; `ControlServer`: `EventsAccounted`, `AnsweredById`; `Activity`: `BytesConserved`; `TuiScan`: `UnderWayEnds`; `TuiStatus`: `StatusCatchesUp` |

The comment above each property says what it means and which code it is about.

A liveness property is mostly stated as `[]<>P` or `<>[]P`. Where one would say that A leads to
B, it is that infinitely often A does not hold or B does; the two agree where A
stays until B, as a request waits for its answer and a session that was kicked for
its end.

### Bounds

Every fault and every act of the environment has a budget, a constant of its
own; the queues hold one to three entries, so that all their limits are met. In
general two of a kind and two faults are there: one thing that is late and one
that has replaced it. What differs from that, and why:

- `Bridge`: two sessions are enough for one to leave while another
  stays; two commands for a hold followed by a change of settings or a restart;
  two faults for a link to be lost, and the next one too. Up to three
  successive links occur.
- `KissStream`: every pair of frames of three commands (data on two channels, a
  parameter) with up to one data byte, plain or special, after four ways to join the
  stream; chunks of one to three bytes, so that every delimiter and every escape is split
  somewhere. The phone's buffer holds four bytes: a frame with stuffing is longer, two
  short ones fit.
- `TcpServer`: two clients and two sets of limits, one place or two with an
  address list, and one change between them, so that a client comes for a place that is
  being freed and one is let in that the next limits refuse.
- `TncInit`: up to three frames are heard while the commands run, cut anywhere by the reads, so
  that frames kept, frames left on the link and the one that a read ends inside of occur together.
- `BleManager`: three changes of the host's adapters with one port, one with two commands, or two
  with a failure of BlueZ; two names and two adapters, so that a name is taken over by another one.
- `SppClient`, `BleClient`: three connects, one abort, one outage and one or two failures:
  an aborted connect, the one that replaces it, and one after that.
- `BleServer`: two phones that compete for one place; one phone, with two links and
  two sessions, for what crosses in time; one late report, kill or failure, and one device that
  BlueZ forgets.
- `Supervisor`: every kind of change to one bridge, two reloads and one fault; two
  bridges that hand sockets to one another; and one reload with two sessions that
  open meanwhile. Each configuration is reached from each. `MCDaemon` assumes, and TLC
  evaluates, that they satisfy the hypotheses of the theorems about them.
- `ConfigStore`: static files of three kinds and `dynamic.toml`; up to three commands of
  every kind with two edits by hand, and two with a failed write, a kill and an
  edit of `state.toml`.
- `Announcer`: one bridge with two ports, or two bridges with one; two
  collisions, which is the least at which a second signal can be late.
- `Pairing`: a scan and two pairings at a time, a queue of replies of one; two prompts.
- `ControlServer`: two requests of any kind, or a subscription with three events, through
  an outbox of one line.
- `Setup`: another TNC and another bridge, an act of somebody else at any point, with
  two adapters and with none.

Deadlock is not checked: a system that has stopped, or that idles once the
environment has used its bounds, rightly does nothing.

### Fairness

In `bridge_live`: weak, of the loop's branches (tokio's `select!` picks at random among those ready, and each handler leaves
the others' readiness alone), of the end of a connect (each has a timeout of
its own or the kernel's), of timers, of a writer's progress (a TNC that takes
its bytes), and of the end of a link that was let go (`finish_writer` aborts it after
`TEARDOWN_WAIT`). Nothing is assumed of the apps, of readers, of failures or of
the supervisor.

Elsewhere fairness is there for the components that have a liveness property. It is weak
fairness of tasks that can go on (the runtime polls what is ready), one conjunct per
task, of timers, and of waits that the code gives a timeout: the scan's seconds,
`PAIR_TIMEOUT`, the manager's tick of 30 s, the watcher's check of 10 s. Where a
`select!` has several branches that stay ready in turn, the one that matters has strong
fairness (in `TcpServer`, the token and the end of the socket), since it picks among the
ready ones at random; the same holds of the senders to a control connection's outbox
(tokio's semaphore is a queue). BlueZ is assumed to end a connect that it began and to
drop a link when asked. Nobody has to press a key or answer a prompt, and a TCP client need
not read what it is sent: a write that waits for it is a step of its session that may never
come (`tcp_server.rs:229` gives it no time limit), and `SessionsEnd` names that as the one thing
that can keep a session.

### Disagreements between the code and what is said of it

Five are runs that TLC ends with a counterexample, against a line of the
repository's documents or comments; `PROJECT.json` quotes the line under `findings`.

| Run | Property | What the run shows |
|---|---|---|
| `bridge_held_down` | `HeldDownStaysDown` | A link held down by port.disconnect is connected by a change of its connect policy to always. |
| `bridge_held_up` | `HeldUpStaysUp` | A link held up by port.connect is closed by a change of its connect policy to on_demand. |
| `bridge_teardown` | `TeardownBeforeStop` | A bridge shut down right after its last session left stops while that link's teardown is still unwritten. |
| `tcp_kick` | `KickDropsSession` | A session whose task is writing to a client that stays and reads no more is kicked, and never ends. |
| `ble_ports_come_back` | `PortsComeBack` | An adapter is unplugged after `reconcile` has listed it and before it was asked for its address. `present[&name]` panics, the manager's task ends, and no ble-server port is started again when an adapter returns. |

The others below were met while modelling. None has a run of its own here: the models
do what the code does, and where a property of a passing run would fail for such a
case, the property names the case as its exception (`~raced`, `unlisted`,
`used.crossed`, ...). The first column is the line where the code does it.

| Source | What the code does, and what is said |
|---|---|
| `supervisor.rs:1717` | When the id of a bridge's TNC port changes (its default id follows its type, so a change of type is enough), stop_port forgets the port without stopping the link and start_port skips the new one with a warning: the bridge keeps the connector it had. docs/plan-1.0.md:1091 says: "A port id or bridge id / Treated as removing one object and adding another". |
| `supervisor.rs:458` | Settings are sent only when a TNC port is Updated; one that is Restarted gets its new connector and keeps the old policy, and no later reload repairs it. docs/plan-1.0.md:1087 says: "`connect`, `idle_timeout` / Applied live." |
| `supervisor.rs:468` | A TNC link restarts in the second pass, one bridge after the other, so the first of two bridges that swap TNCs claims the other's while it is in use. src/supervisor.rs:21 says: "A plan is applied in three passes so shared resources (a TNC, a listen socket, a BLE adapter) are released before another bridge claims them". |
| `supervisor.rs:356` | plan_for awaits a snapshot of each bridge and apply awaits the stops, and sessions open in between. docs/plan-1.0.md:1132 says: "The daemon computes the plan and applies it in one step, so there's no gap in which a phone could connect between a check and a reload." |
| `supervisor.rs:478` | The sessions to kick are those of the snapshot; one admitted under the old limit before the port gets the new one stays, and no later reload finds a change. docs/plan-1.0.md:1085 says of max_clients: "If it drops below the current session count, **the newest sessions are disconnected** until the port is within the limit". |
| `supervisor.rs:1547` | The plan compares the configuration in effect with the new one, and a bridge whose connector couldn't be made is in effect without running, so a reload leaves it alone. docs/plan-1.0.md:1042 says: "It holds the desired set of bridges (static + dynamic + enable overrides) and the running set, and on any change it starts, stops or restarts only the bridges and ports that differ." |
| `reconcile.rs:71` | same_adapter treats the default adapter and its MAC as the same, so the port isn't told of the MAC; when a dongle then becomes the first adapter, the port moves to it although its configuration names the other. docs/plan-1.0.md:518 says what counts first: "the object's own `adapter`". |
| `supervisor.rs:2742` | When an adapter is switched off its port fails at once; a reconcile made for a tick, a command or an earlier event before Powered(false) is taken finds the port finished and seen_off still false, starts it again, and BleServerPort::prepare powers the adapter on. src/supervisor.rs:177 says: "The adapter was powered off under us; don't power it back on ourselves, wait for it to be powered on." |
| `supervisor.rs:2661` | Powered(false) and a changed adapter cancel an instance without waiting for its task, which removes the adapter's client list as its last act; the instance that replaced it may have written that file by then, so the phones it serves are no longer listed. src/port/ble_server.rs:578 says: "Keep the list of phones a port serves, for [`BleServerPort::drop_stale`] after a crash." |
| `port/ble_server.rs:270` | Only the Notify branch withdraws the advertisement at max_clients: a phone that writes first, and every phone until it subscribes, fills the port while it goes on advertising and reports Advertising. docs/architecture.md:113 says: "At `bridge.port.max_clients` the advertisement is withdrawn". |
| `port/ble_server.rs:450` | admit lets in phones that have a session now; one whose session ended is refused, and its link dropped, when the port is full. docs/architecture.md:114 says: "and a phone that's already been served can always reconnect." |
| `port/ble_server.rs:286` | record_clients runs after ensure_client has sent SessionOpened, which waits for as long as the bridge's queue is full; a daemon killed meanwhile leaves a phone that no list names. docs/architecture.md:133 says: "After a crash, the next daemon drops links the last one left behind." |
| `port/ble_server.rs:384` | A phone's link is watched only from the end of its first session, so when that session ends because the link dropped, no LinkDown is reported and the port advertises at once, within the kernel's rotation interval. docs/architecture.md:122 says: "So when a phone the port has served drops its link, the daemon withdraws its advertisement, which stops the fallback, and registers a new one 3 seconds later." |
| `port/ble_server.rs:384` | `watched` still holds a phone whose watcher has ended until its Unwatched is taken; a session that ends before that starts no new watcher, and Unwatched then forgets the phone, whose link stays up with no session. A watcher ends when BlueZ forgets the device, and that case, no more, is the exception of `WatchedPhonesHeard`. docs/architecture.md:131 says: "the daemon drops the link of a phone it has served when that phone is still connected without a session: it checks every 10 seconds." |
| `supervisor.rs:840` | change() writes dynamic.toml and then state.toml. A switch from a static bridge to a dynamic one that is killed in between leaves the dynamic one enabled and the static one not disabled: the configuration on disk has a conflict, and the daemon that starts next exits. docs/control-api.md:246 says: "Enable a bridge and disable every enabled bridge that conflicts with it, in one change". |
| `supervisor.rs:849` | When state.toml can't be written the command fails, but dynamic.toml has been replaced; the daemon's store still has the old revision, so that every later change is refused as changed_on_disk. docs/plan-1.0.md:1641 says: "and a refusal leaves nothing half done." |
| `config/state.rs:153` | StateStore::update writes only what differs from its copy in memory: an enable or disable that the copy already has leaves an edited state.toml as it is, and the next start follows the edit. config/state.rs:37 says in the file's header: "hand edits are overwritten". |
| `control/edit.rs:205` | The id that resolve gives a port without one counts the ports of its type before it, named or not; name_ports takes the lowest number that is free. So port.add renames a bare port after a named one, and port.remove shifts those that follow. control/edit.rs:23-25 says: "Ids that a file may leave out (`ktbrN`, port ids) are made explicit, so they don't shift when other objects come and go." |
| `config/store.rs:324` | save() compares the file with what was last read, then replaces it: an edit that falls between the two is lost. docs/control-api.md:130 says that the daemon "refuses to overwrite it if it was edited by hand since the daemon read it". |
| `supervisor.rs:1976` | config.put with empty TOML removes an object without looking for references; building the configuration catches those of bridges in effect, not those of a bridge that a static one has set aside. Once the static one goes, the configuration is invalid. control/edit.rs:22 says: "and TNCs and adapters can't be deleted while something refers to them." |
| `announce.rs:321` | A Collision signal is matched with a bridge by its group alone. A second port of the bridge that comes up before the first signal is handled publishes the name in the same group again and collides again; the second signal then finds the name that the first one led to, and moves the bridge from it although nobody uses it. The header of announce.rs says at :26: "When another device on the LAN already uses the name, Avahi reports a collision. The bridge then takes the next name". |
| `announce.rs:395` | sync() takes the group out of the bridge before publish(), and an error of the Reset (a D-Bus reply that doesn't arrive within 5 s) drops its path without a Free: Avahi goes on announcing it, and the next publish makes a second group. announce.rs:21 says: "Each bridge is one Avahi entry group holding a service per listening `tcp-server` port". |
| `announce.rs:439` | public_name_changed sets the name at once and sends the configured one from a task of its own. A collision handled in between is kept in state.toml as an adjustment of the old configured name, so that the next start drops it. announce.rs:27-28 say that the bridge "keeps it in `state.toml` so it's stable across restarts". |
| `announce.rs:446` | adjust_name reads the name, writes state.toml and only then sets the next one: a configured name that is set in between is overwritten with the old name's successor, which BLE and DNS-SD then use. docs/plan-1.0.md:1083 says of `public_name`: "BLE advertisement restarts with the new name, the adapter alias follows, and DNS-SD re-announces." |
| `supervisor.rs:956` | bluetooth() waits, in the daemon's loop, for room in the channel of replies (4). Replies to a pairing that isn't at a prompt fill it, and no command of any connection is handled until the pairing takes one or ends. supervisor.rs:925-926 say: "Scans and pairings take a while, so they run in their own tasks and answer `reply` when done". |
| `pairing.rs:209` | ask() takes the next reply in the channel, whichever prompt it was sent for: one sent before any prompt, or twice for one, answers the prompt that comes next, which nobody has seen. control/protocol.rs:292 says of pair_reply: "The answer to a `pairing` event that asks for one". |
| `pairing.rs:231` | For a device that is already paired the error of set_trusted is dropped, and the request answers paired: a second try after "paired, but can't mark it trusted" succeeds without trusting it. docs/control-api.md:364 says: "`bluetooth.pair` pairs and trusts the device". |
| `supervisor.rs:974` | The token of a scan is put in the table by the scan's task: a scan_stop that the loop handles before that task has run is answered not_found, and the scan runs its full time. control/protocol.rs:276-277 say: "End this connection's `bluetooth.scan` request `request` now; it answers with what it found so far." |
| `supervisor.rs:1059` | The answer is sent before the guard of bt_busy is dropped at the end of the task, so that a pairing requested on receipt of a scan's answer can still find the lock taken. docs/control-api.md:85 says of busy: "Another Bluetooth scan or pairing is running; one runs at a time". |
| `control/server.rs:317` | forward() drops an event, or a `lagged` report itself, when the outbox is full, and counts it nowhere: the client sees a gap without a report. docs/control-api.md:406 says of `lagged`: "`missed`: this connection fell behind and lost that many events". |
| `control/server.rs:243` | The end of what the client sends cancels the connection's token, and the writer stops before the answers that are still out, so that requests piped in with the write side closed after them go unanswered. docs/control-api.md:44-45 say: "each is answered by its id when it's done". |
| `port/tcp_server.rs:238` | A session is named by its peer's address and port. When the old connection was reset and the client connects again from the same port before SessionClosed of the old session is queued, that event removes the new session from the bridge: it runs on, but its frames are dropped as from an unknown session and the radio's don't reach it. bridge/mod.rs:132 says of SessionId: "One live connection on an app port". |
| `kiss/buffer.rs:38` | push counts the partial frame and the whole chunk, with what follows the frame in it, against max_size, so that a stream of frames that are all within the limit is refused when two share a read, and read_frame's error ends the session or the link. port/stream.rs:31 says of the limit: "a frame longer than this is a protocol error." |
| `bridge/policy.rs:44` | The command byte of a data frame on channel 12 is 0xC0, which encode stuffs as FESC TFEND (kiss/frame.rs, test encode_stuffs_fend_in_command). filter_app_frame looks at the first byte of the frame as it is on the wire, takes FESC (0xDB) for an unknown command and drops the frame; decode doesn't unstuff that byte either. bridge/policy.rs:23-24 say: "The high nibble is the KISS channel and passes through untouched." |
| `ctl/tui/app.rs:1715` | scanned() doesn't look at which request was answered. Esc on a running scan sends bluetooth.scan_stop and closes the box; n opens a new scan before the first one's answer comes, and that answer ends the new scan's box with the old list, while the new scan still runs and holds the adapter. app.rs:178 says of Scan::over: "Time ran out, or it was stopped." |
| `ctl/tui/mod.rs:223` | For Action::Run the loop drops the connection without App::lost. A pairing hidden with Esc stays in App::pairing for ever: its answer can't come any more, and n, p and a say "a pairing is under way" until the next connection is lost. app.rs:155-156 say of Pairing::hidden: "It goes on, comes back if it needs an answer, and says how it ended on the message line." |
| `ctl/tui/app.rs:1653` | On yes the change is sent again without non_disruptive, and the daemon then disconnects whoever is connected by then, not only those that the dialog listed. docs/tui-mockups/04-confirming.txt:4-6: "anything that would disconnect someone is tried with non_disruptive first, and if the daemon says it would disrupt, the TUI shows exactly what and asks". |
| `ctl/tui/app.rs:1647` | on_answer replaces whatever dialog is open. A y typed twice, or read after the answer to an earlier change has come, confirms the new question, which nobody has read; a question that is replaced is lost. docs/tui-mockups/04-confirming.txt:5-6: "if the daemon says it would disrupt, the TUI shows exactly what and asks". |
| `ctl/tui/app.rs:1620` | The answer to a form's request is applied to whichever form is open: closed with Esc before its answer, a form's mistake shows in the next form, and its success closes that one with what was typed in it. app.rs:115-116 say of Then::Form: "Sent from the form in `App::form`: a mistake goes back to it, to be put right". |
| `control/server.rs:316` | forward() drops an event when the connection's queue is full, without a lagged event. A state event that finds it full of frames is lost, and the TUI, which reads status only after state events, shows the old status until the next one. A change whose plan is a no-op (another client adds or removes a disabled bridge) sends none at all, as ctl/tui/mod.rs:377-378 says. `StatusCatchesUp` is about the last change that the TUI can know of. ctl/tui/mod.rs:19-20: "A state event means \"read `status` again\"; nothing is polled." docs/control-api.md:406 says of lagged: "this connection fell behind and lost that many events". |
| `ctl/tui/app.rs:364` | new_since is what was on the screen when the form was sent, not what the daemon had, and it isn't cleared when the daemon refuses: a bridge that another client has just added is taken for the new one, and is selected. docs/tui-mockups/05-adding-and-edges.txt:20-21: "the TUI comes back when it's done, with the new bridge selected". |
| `port/tnc_init.rs:123` | A radio that stays busy through the retries of TN gives no band, and init goes on with band 0 and no mode: a radio in use on band B, or in APRS mode, is put on band A and is left off. A TN reply that comes after REPLY_WAIT has the same effect, since its late text is taken for the reply to `TN 2`. port/tnc_init.rs:29 says "`TN 2,<band>`: KISS mode on the band it was already using" and :73-74 "restoring the mode it was found in where the model allows". |
| `port/tnc_init.rs:165` | When the last wait ends inside a frame, the bytes of it already read stay in the scanner and are dropped with it; if an earlier frame was kept, the FEND that closes it in the prefix makes the rest of the cut frame look like a frame of its own, which the bridge passes on. port/tnc_init.rs:31-33 say "replies are read from the stream with frames stripped out, and the frames are kept for the bridge". |
| `port/tnc_init.rs:263` | The FEND that ends a frame whose start was not seen is taken for the start of a frame: the reply to BT after KISS "return" is swallowed as that frame's bytes, and the connect fails with "the TNC doesn't answer TH-D7x commands" though it did. port/tnc_init.rs:251-253 say "A FEND that closes a frame may also open the next one ..., or be followed by a text reply once the radio has left KISS mode. The next byte tells them apart". |
| `port/spp_client.rs:152` | WaiterGuard removes the address's waiter whoever put it there. The bridge's restart of a port aborts the connect task and starts the next at once; when the connect request is handed to the aborted task before it is dropped, its waiter is gone from the table, the new connect puts in its own, and the drop of the old guard removes that one: the new connect fails with "the SPP profile went away", and its connection is rejected as one nobody asked for. port/spp_client.rs:52-53 say "each goes to the port that asked for it, matched by device address". |
| `port/spp_client.rs:213` | tried_power is set before power_on is tried: when that fails once (BlueZ not ready, an rfkill block that is cleared later), every later connect reports the adapter as powered off and never powers it on, though no one turned it off. port/spp_client.rs:174-175 say "The adapter is powered on at the first connect if it needs to be; after that, an adapter that's off was turned off by someone". |
| `port/ble_client.rs:148` | Only an error of open disconnects. A connect that the bridge aborts (the last app left, a hold released, the port disabled) while BlueZ connects or the services are read leaves the LE connection up, and nothing drops it while the bridge is idle: the TNC stays connected, does not advertise, and no phone can reach it. port/ble_client.rs:149 says "Don't leave a half-set-up LE link holding the TNC.", and :33-34 "When the bridge lets go of the link, the LE connection is dropped too, so the TNC advertises again". |
| `port/ble_client.rs:322` | Dropping a link spawns its disconnect, and the backoff or a new wish starts the next connect without waiting for it: the disconnect may end the connection that the next link has just come to use, and so on from link to link if each time it comes late. That, repeated without end, is the exception of `UpForGood`. port/ble_client.rs:33-34 say "When the bridge lets go of the link, the LE connection is dropped too, so the TNC advertises again". |
| `ctl/setup.rs:978` | A number typed for the list of the running scan, and read after the scan's answer, is taken by the menu "Which is it?", whose list is in the daemon's order (pairing.rs:128, known TNCs and strong signals first) and has the devices without a name too: another device is paired and set up. ctl/setup.rs:931-932 say of pick_device: "listing each device as it's found (once it has a name), and let the user pick one without waiting for the scan to end". |
| `ctl/setup.rs:755` | setup_bridge takes a refusal for a conflict when its message has the words "conflicts with". Only validate's message about two listen sockets has them (config/validate.rs:318); the ones about a TNC, an adapter or a public name that an enabled bridge uses say "is also used by enabled bridge" (config/validate.rs:303). In these cases the wizard ends with an error, the bridge stays disabled and no switch is offered. ctl/setup.rs:31-32: "enable it (offering `switch` if another bridge is in the way)". The TUI looks for the same words (ctl/tui/app.rs:1665), and its test makes a message that the daemon doesn't send: "TNC d75 conflicts with bridge ktbr1" (ctl/tui/app.rs:2146). |
| `ctl/setup.rs:1083` | ble_adapters_in_use only knows an adapter that status shows with a MAC. A ble-server port on the default adapter is shown as "default adapter" (config/resolve.rs:121), one by its hci name as that name, so that the adapter it advertises on is neither marked as taken nor passed over, and is suggested for a second bridge. ctl/setup.rs:660-661: "Best: one no bridge advertises on, and not the radio's own, which is busy with the radio." |

## Proofs

`tlapm <module>.tla`, up to a few minutes each, and ten to twenty for
`SupervisorProofs` and the two of the bridge. Those of `Bridge` hold for every
set of sessions whose subsets can be counted (`SessionsCounted`: true of every
finite set), all settings, and all queue sizes that satisfy
`BridgeAssumption`; of that, one part matters: `UPLINK_QUEUE_FRAMES <=
WRITER_QUEUE`, as in the code, where they are 32 and 256. The bounds on the
environment (`MaxOpens`, ...) are arbitrary numbers in them.

Every proof has the same shape. The invariant is stated of a record, one lemma
per method of `Run` says how the method changes it, the lemmas are composed as
the handlers compose the methods, and one lemma has a case per action.

- `TypeCorrect`: `Spec => []TypeOK`. `TypeOK` is inductive. The limits of the
  queues come from `queue_pending`, which makes room first, from `send_writer`
  being called only with room, and from the replay on connect.
- `LinkSafe`: `Spec => [](LinkConsistent /\ WantedLinkPursued /\ NoOrphanLink)`.
  The inductive invariant is their conjunction, `LinkInv`; they need one
  another. `uplink`, which connects an Idle bridge, keeps the idle timer's part
  only because an Idle bridge with a session is held down, and a lost link may
  be left Idle only because nothing is pending while connected.
- `StaleSafe`: `Spec => []StaleEventsIgnored`, `DeadNoticed`: `Spec => []DeadLinkNoticed`, and
  `ExitKissSafe`: `Spec => []ExitKissLast`. They share the inductive invariant `GenInvariant`: no link
  has a generation above the bridge's, the connected link and no other has the same, an event
  carries that of its link, a writer has ExitKiss only last and only if the bridge doesn't
  send to it any more, and a dead connected link has its Closed event in the channel. The last part needs
  the one before: a writer that fails on ExitKiss ends without a Closed event, which goes unnoticed
  only because that link isn't the connected one (`LinkConsistent`). All handlers but a
  successful connect satisfy one transitive relation, `Ahead`: the generation never goes back, a
  connected link isn't let go of without bumping it, and ExitKiss stays last. The tasks' steps
  satisfy the weaker `Onward`.
- `FramesSafe`: `Spec => [](FramesAccounted /\ WriterNeverOverrun)`. `Owed(r, k)`
  lets a handler have `k` frames in hand between taking and settling one. That
  the replay overruns no writer is where the assumption on the queue sizes is
  used; that `uplink` doesn't is `app_ready`.
- `ImplementsPort`: `Spec => StateAsWatched`, the refinement of `TncPort`: each
  step maps to one of its steps or to none, given `LinkConsistent`.

- `CountSafe`: `Spec => []CountExact`, and `LimitSafe`: `Spec => NeverOverMax`, of
  `TcpServer`, for any finite set of connections and any limits. The count is
  the cardinality of the set of sessions that hold a place. Each step of a
  session keeps that set, or removes one and counts down; only `Accept`
  adds one, and it has compared the count with the limit in the same step,
  which is sound because one task accepts.
- `WaiterOwned`: `Spec => []WaiterHasOwner`, of `SppClient`, for any number of
  connects: a waiter in the table belongs to a connect that waits.
- `WaiterSafe`: `Spec => []WaiterStands`: no connect loses its waiter unless one was started
  while an aborted one was still there (`raced`). The guard removes the entry of its
  address without looking whose it is; that is sound as long as one connect at most is
  alive, the one started last (`OneAlive`), which is the strengthening.
- `NoStray`: `Spec => []NoStrayConnection`, with no exception for races: however connects
  are aborted, an RFCOMM connection is a request on its way to a connect or held by one.
  The inductive invariant, `StrayInv`, adds whose step holds it.
- `PowerStaysOff`: `Spec => PowerLeftAlone`, an action property: once `tried_power` is set,
  no step of a connector powers on an adapter that is off.
- `GhostsGone`: `Spec => []NoGhosts`, of `TcpServer`, for connections with distinct
  names: with its queue taken, the bridge knows no session that is over. The inductive
  invariant, `GhostInv`, says the same with the queue as it is: of a session that has not
  opened the bridge knows nothing and the queue holds nothing (`Unheard`); of one that is gone,
  a `SessionClosed` is in the queue behind every `SessionOpened` of it, and is there as long
  as the bridge knows it (`Settled`).

- `SessionsSafe`: `Spec => []SessionsAgree`, of `BleServer`, for any phones (none of which has
  the mark for no request as its address): the bridge has been told of exactly the sessions that
  the port has. The strengthening, `ToldInv`, names the one exception while `open_session` waits
  for the bridge: the session that is being opened.
- `LeftBehindDropped`: `Spec => []StaleDropped`, however often the daemon is killed or
  fails to start. The inductive invariant, `FileInv`, relates the list on disk to the clients
  while a run is up, and after a kill to the phones left connected, until a run has read it. While
  a run is up the list lacks at most the session that is being opened; a kill at that point is
  what `unlisted` stands for.

- `PairedSafe`: `Spec => []PairedByReply`, of `Pairing`, for any requests, prompts and
  replies: each reply carries the number of the prompt that the person answered, a number the
  code doesn't have, and a prompt is accepted only by its own. Of the
  inductive invariant the part that matters is `TurnInv`: BlueZ asks again only when the last prompt
  was accepted, which took its reply out of the channel, so that at most one reply is on its way, and
  it was given to the open prompt. The exception is a reply that came
  unasked, or twice to one prompt: the agent takes the next one in its channel.
- `OneRuns`: `Spec => []OneAtATime`, and `TablesSafe`: `Spec => []TablesFollow`, from `LockInv`: the
  holder of `bt_busy` is exactly a task between `try_lock` and the drop of its guard, and its entry
  in the tables goes one step before the guard does.

- `ForcedSafe`: `Spec => []ForcedAfterRefusal`, of `TuiChange`, for any rows and keys, with apps
  that come and connections that are lost between a question and its answer. What a yes sends is
  decided from an answer matched by id, so the inductive invariant is about ids: none is used twice
  (`IdsInv`), so that an answer that refuses is about the command that waits for it (`AskedInv`).

- `RestartSafe`: `Spec => []RestartKeeps`, of `ConfigStore`, for any files and commands. What
  `build` and the edits of `control/edit.rs` compute is left unopened: the proof needs only
  that a build has one result at most (`BuildOne`) and that every command comes down to a change or a
  refusal (`EditIsChange`). The inductive invariant, `KeptInv`: what is in effect is the one
  result of building the sources; the sources are the text and the overrides as last read or
  written; and a change under way was built from them. The last part is what a kill or a failed write
  between dynamic.toml and state.toml would break if `change` applied before it wrote.
- `PutsSafe`: `Spec => PutReplacesWhatWasGot`, an action property: when `config.put` goes on to
  write, the text on disk is the one that its client got, or defines the object as it did.
  `StoreInv` says that the daemon's document is the text that it last read or wrote, and
  `PutFromGot` that a put edits that document only if the client's revision is still its own.

Those of `Supervisor` hold for any configurations that validation accepts, any number of
bridges, ports, peers, adapters and reloads. `ValidConfigs` is what they use of validation: an
enabled bridge has exactly one TNC port, and listen sockets of two enabled bridges don't
conflict. `plan` is opened only in a few lemmas that say what it tells of a port or a
bridge (`ComparedPort`, `PlannedBridges`, `PortDisrupts`, ...).

- `BridgesApart`: `SupSpec => []SocketsApart`: no two bridges listen on one socket, between the
  passes of `apply` too. The inductive invariant is `PlanInv /\ RunInv` (`HeldInvariant`):
  the plan under way is the one from the configuration in effect to the new one, made from the
  snapshot that the job holds; every running port is a port of the configuration in effect,
  and after the first pass of the new one also (`HeldBy`). The last part is the
  point of the passes: between stops and starts what runs is in both configurations, each
  of which was validated on its own.
- `SocketsSafe`: `ListensOnce => (SupSpec => []SocketsClaimedOnce)`: the same of any two ports.
  Validation compares the sockets of different bridges only (`config/validate.rs:278`), so that
  they differ within a bridge has to be a hypothesis; two ports of one bridge with one `listen`
  are accepted, and the second fails to bind.
- `ForetoldSafe`: `RolesKept /\ TncsAreClients => (SupSpec => DisruptionsForetold)`, an action
  property. It needs `RoleInv` too: a port runs in its configured role, and sessions are on
  app ports that run. The sessions and links that a pass ends are then those
  that the plan looked up under the port's role.
- `RunsSafe`: `RolesKept /\ TncsAreClients => (SupSpec => []RunsAsConfigured)`. The inductive
  invariant, `WholeInv`, is `RunsAsConfigured` as far as the passes have come: each bridge has the
  connector and the app ports, at their addresses and limits, of the configuration it was last
  brought to, which is the old one before its turn and the new one after it, unless something failed
  to start. It says nothing of the link's settings (a TNC port restarted in place keeps the former
  ones, `supervisor.rs:458`), nor of the TNC of a bridge whose TNC port changed its id
  (`supervisor.rs:1717`).

The hypotheses of the last two are not checked by validation: `role` can be written on any port,
a server with `role = "tnc"` included, and can change while the id stays. `plan` looks at the
role in the new configuration, `apply` at the port that runs. When a port
changes from TNC to app under its id, its record stays as that of the TNC port and the server
isn't started; from app to TNC, its sessions end and the plan doesn't name them. So neither
property holds of all that is accepted; the run's configurations satisfy both hypotheses.

Proved and not among the runs' properties: `TypeOK`, `WantedLinkPursued`, `NoOrphanLink` and
`WriterNeverOverrun` of `Bridge`, `CountExact` of `TcpServer`, `WaiterHasOwner` and
`PowerLeftAlone` of `SppClient`, `OneAtATime` and `TablesFollow` of `Pairing`, `SocketsApart` of
`Supervisor`.

Only model-checked: what is temporal with fairness (out of the prover's reach);
`UplinkInOrder` of `Bridge`, which compares the filtered contents of several
queues; `KissStream`, whose claims are about what
a fold over bytes computes, for which the prover has no induction; and the
modules not named here.

## Not modelled

- The daemon's start (`bin/`, `lib.rs`): the instance lock, signals, logging. One
  sequential pass of system calls; what a kill leaves behind is in `ConfigStore`
  and `BleServer`.
- `port/tcp_client.rs`, `port/serial.rs`: one `open` each. `Bridge` has its outcomes.
- `bluetooth.rs`, `bt_hardware.rs`, `bluez_conf.rs`, `port/serial_list.rs`: queries of
  D-Bus, sysfs and files. They keep no state, and the models take their answers
  as inputs.
- `ax25.rs`, `ctl/render.rs`, `ctl/tui/ui.rs`: text for people. The TUI's frames view: a
  bounded list with a cursor.
- `ctl/cli.rs` and the one-shot commands of `ctl/run.rs`: one request and its answer.
- The types of the control protocol and of the configuration, and their JSON and
  TOML: formatting. `Config` and `Edit` have what the values mean.
- The renderers of `status` in `supervisor.rs`.
- Of time, only what has elapsed and what hasn't; of BlueZ and Avahi, what the code
  relies on.
