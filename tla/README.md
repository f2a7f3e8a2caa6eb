# A verification development of accesskit-remote

accesskit-remote carries accessibility trees from a machine that has the
applications (the provider: a Linux daemon, or a macOS server) to a machine that
has the screen reader (the consumer: a plug-in of the Windows RDP client, or a
viewer). This directory holds TLA+ models of its parts, the TLC runs that check
them and the TLAPS proofs about them. Paths below are relative to `src/crates/`.

## 1. Inventory

| Part | State it keeps | Operations | Talks to |
| --- | --- | --- | --- |
| Protocol session (`accesskit_remote/src/session.rs`) | phase, codec, unsent output, half-read frame | `handle_input`, `send`, `close`, `take_output` | its peer, over a byte stream |
| Framing, codecs (`framing.rs`, `codec.rs`) | unread bytes | `push`, `next_frame`, encode, decode | session |
| Provider connection (`accesskit_remote_server/src/lib.rs`) | windows announced | `sync_initial_state`, `announce_window`, `remove_window`, `send_tree_update`, `send_focus` | session, host |
| Source host (`accesskit_remote_server/src/host.rs`) | last heard, last ping, gave up, peer's goodbye | `handle_input`, `pump`, `heartbeat` | source, provider connection, daemon loop |
| Consumer connection (`accesskit_remote_client/src/lib.rs`) | windows, a tree store each, focus | `handle_input`, `request_action`, `snapshot` | session, hosts |
| Desktop composition (`accesskit_remote_client/src/desktop.rs`) | grafted, live, held, focus | `sync`, `delta`, `reset`, `window_for` | consumer connection, adapter |
| Windows adapters (`accesskit_remote_windows`) | adapter, pending updates, window procedure | posts, `wnd_proc`, activation, install, uninstall | window's message queue, screen reader |
| DVC channel and desktop host (`accesskit_remote_dvc_plugin`: `channel.rs`, `dvc_session.rs`, `desktop_host.rs`, `listener.rs`) | shared slot, target window, installed flag, output pump | data and close callbacks, hook, nudge, heartbeat | RDP client's thread, window's thread |
| RAIL hook (`rail.rs`, `association.rs`, `plugin.rs`) | registry of windows and HWNDs, focus | attach on window events, routing of client events | window threads, pump thread |
| Registration and loading (`register.rs`, `wslgconfig.rs`, `chain_load.rs`, `lib.rs`) | two registry keys, a flag in `.wslgconfig` | register, unregister, `VirtualChannelGetInstance` | regsvr32, the RDP client, the stock plug-in |
| Side-channel transport (`transport.rs`) | stop flag, socket | connect with retries, pump, stop | consumer connection |
| Daemon (`accesskit_remoted/src/main.rs`) | listening socket, the one client | accept, serve, pump | source host |
| WSLg enrichment (`accesskit_remoted/src/wslg.rs`) | ledger of log entries, position in the log | poll, assign | the source it wraps |
| AT-SPI source (`accesskit_remote_atspi`) | mirrored windows, ids, caches, pending walks | enumerate, events, actions, reconcile, re-walk | accessibility bus, host |
| macOS source (`accesskit_remote_ax`) | the same over AX | the same | AX observers, host |
| Source scheduling (`accesskit_remote_source`) | bursts, refresh entries, focus, window keys | note, take due, discard | both sources |
| Demo source (`accesskit_remoted/src/demo.rs`) | a count, a focus | `initial_state`, `perform`, `poll_events` | host |

What is hard about it:

- **Two ends that never share state.** The stream may be cut anywhere, either end
  may be of another version, and either may leave at any time. A message for a
  window the consumer does not know ends the session, while the provider's source
  reports removals, updates and focus from threads of its own.
- **Threads that meet at a message queue.** On Windows a client event is applied
  on one thread and posted to another, which looks at the state as it is by then;
  messages that are *sent* (a screen reader attaching, a title being set) overtake
  the ones that are *posted*.
- **A consumer that panics.** `accesskit_consumer` turns a badly ordered update
  into a panic, in a window procedure that cannot unwind: the process is gone.
- **Mirrors of something that moves.** A source reads an application call by call
  while it changes, and sends deltas against a memory of what it sent before.
- **Time.** Pings against a deadline, debounced walks, rate-limited refreshes, a
  sync heartbeat.

What makes each part correct: the session agrees with its peer on the phase and
the codec, keeps order and says goodbye last; the provider never sends what must
be rejected; the consumer ends up with what was announced; the daemon is not held
by a dead client and never drops a live one; the composition never makes the
adapter panic and shows what the remote desktop shows; a hook attaches each window
once and detaches it; an installation that dies half way loses nothing of the
user's; a source's memory is what its client holds, and its client is current once
everything is handled.

## 2. Modules

```
Session ──┬── Handshake ─────────────────┐
          │                              │
          └── Remote ── MCRemote         │
                ├── WindowMirror  (abstract specification)
                └── RemoteProofs
Framing, Wslg, Daemon ───────────────────┼── MCConnection
ClientTree ──┬── Desktop ────────────────┘
             └── Replay ──┬── Atspi ──┐
Toolkit ──────────────────┴── Ax ─────┤
Schedule, Text, Mapping, Discovery ───┼── MCSources
Actions ── MCActions ─────────────────┘
Association ── Rail ──┐
Dvc, Loading ─────────┴── Plugin ── MCPlugin
Handover
Daemon ── MCDaemon     Desktop ── MCDesktop
Daemon ── DaemonProofs   Rail ── RailProofs
Dvc, Loading ── PluginProofs
Schedule, Discovery ── SourceProofs ──┐
Atspi ── BridgeProofs ────────────────┘
Desktop ── DesktopProofs
Handshake, Framing ── ConnectionProofs
```

The modules named `...Proofs` hold theorems and their proofs, and nothing else; each
extends the modules it is about.

`Plugin` chooses the arrangement (msrdc with a VM id, a remote machine, or the
installation before either), as `parse_vm_id` does. `MCConnection` and `MCSources`
put several modules into one instance: a behaviour is of one part from its first
state to its last, and the others stand still. The parts so joined share no state in
the code either, except where this section says so.

### A connection

**Session** is one end as a record and operators on it: each public method of
`Session` is an operator from a session to a session. It has no variables of its
own, so that both compositions below use the very same definitions.

**Handshake** puts two sessions face to face, of any two builds. A chunk that
`Read` takes is a prefix of the wire, so one chunk may hold a hello, application
messages and a goodbye. `sent` and `got` are history, of application messages only. Deliberate abstractions: a
frame is atomic, since Framing shows it is, and a goodbye's reason is not kept.

**Framing** is `FrameReader` over a stream cut anywhere: bytes are digits in a small
base, a header has as many of them as it takes to write every length up to the limit
and beyond it. `foreign` is a peer that is not this code.

**Remote** is a whole connection: `SourceHost` with its `ServerConnection` on the
left, `ClientConnection` with the plug-in's pump on the right. The source is
arbitrary: `SourceReports` may add, remove, update or focus any window at any
time, known or not, because that is what `TreeSource` lets an implementation do
and what the guards of the server exist for. `pump` drains a batch of events; here
each event is a step, which only adds interleavings. A provider's steps write what
they queue (the loop in `main.rs` writes after every call), a consumer's `Action`
waits in its output until the pump writes. Trees are reduced to *has a tree or
not*: their content is Desktop's subject. The variables `windows`, `trees` and
`focus` are the consumer's; `announced` is the provider's. The consumer's build is
one of `ConsumerConfigs`, so that a handshake only one side accepts is a case of the
same run.

**WindowMirror** states what a connection is for: the consumer's set of windows
goes through the provider's sets, in order, skipping nothing, until one of them
ends. `Remote` implements it under the mapping that reads the stream of frames
under way as the sequence of sets it will produce (`View`).

**Daemon** is the accept loop and the heartbeat against a clock. Only time is
modelled: a client's frames are told apart by what they do to the clock. One turn
of `pump` (receive, pump, heartbeat, test for the end) is one step. Instants are
ages capped where the code no longer tells them apart.

**Handover** is the same host with a source that, unlike Remote's arbitrary one,
reports every change of its desktop exactly once; and the demo source.

**Wslg** has `WestonLogTail` and `AppidLedger`. Toplevels are numbered in order of
launch, and the source announces those of one app in that order. A toplevel is in
the log before it is announced; after a restart weston writes its first line when
the daemon has seen the empty log. The queues of the ledger are one set of entries,
ordered by toplevel, which is the order of their lines. The wrapped source takes its
snapshot when it is constructed (`Construct`), and from then on the host polls every 50 ms:
before the hello it discards what it is told (`host.rs:139-146`), but `poll_events` has taken
an id for it (`stage = "waiting"`). `InitialState` then pairs the windows of the snapshot,
gone by then or not, with the ids that are left. `strayed` is history: it is set when a
window was announced, to the consumer or to no one, while an id was taken for fresh though
its window was not to come any more (one of the snapshot, say), or for old though it was;
when a restarted weston gives out an id the ledger has seen; and when weston restarts between
the snapshot and the hello. The pairing is not promised after that. A line counts as new when
it is read, so for `FRESH_WINDOW` after connecting every line of the log is fresh: a window that
opens in that time is announced among the ids of the snapshot, and nothing is promised.

**ClientTree** has the trees of one window as the consumer side keeps them: the
`TreeStore` that never prunes until a snapshot is taken, the `Held` that prunes on
each update, `land_focus`, and the rules of `accesskit_consumer` as `desktop.rs`
states them (external: the crate is not part of the repository).

**Desktop** is the composition on one session window. `TreeUpdated`, `WindowAdded`,
`WindowRemoved` and `FocusChanged` are the RDP client's thread, which applies a
message to the connection and posts; `HandleSync` and `HandleDelta` are the
window's thread; `Activate` is `WM_GETOBJECT`, which is sent and so overtakes
everything posted; `Beat` is the 250 ms heartbeat. `on_data` applies a whole chunk
before it posts anything; that is the interleaving in which the window's thread is
slow, so a message and its posts are one step. `Host` chooses between `wnd_proc`
and `DesktopBinding`, which treat a delta differently. The provider is as well
behaved as the format asks (closed trees, deltas true of the tree before them)
except for the focus it repeats, which `desktop.rs` reports to be stale in the
field.

### The plug-in

**Association** is `match_window` as an operator. **Rail** is the pump, which
applies a chunk to the client and then routes its events one by one, the windows'
threads with their message queues, and the client's thread that starts and stops a
session. Attaching holds the registry's lock throughout and is one step; a sweep
nudges one window per step, and a nudge is a sent message. `posted` is the queue of
each HWND, `adapter` what is on it, `bound` and `attached` the registry.

**Dvc** is the channel: the RDP client's thread (open, data, close), the heartbeat
and the action pump of each channel, and the hook on the session window's thread,
which reads the shared slot, claims the install and installs in three steps that
others run between. The two writers take the output under the lock and write it
without. `raced` records that a hook procedure still held the state of a host that
had been stopped, `abandoned` that a session failed to start after its host had:
`AdapterTakenBack` and `HostedEventually` speak of behaviours without these two.
What travels through the adapter is Desktop's.

**Loading** is regsvr32 writing two registry keys and rewriting `.wslgconfig`
through a temporary file, each call of which may fail and after each of which the
process may die, and the two calls by which a client gets its plug-ins. A line of the
file is what the editor takes it for. Nobody else writes the file while an installer
runs, no client is running then, a user's first section has at most one flag line,
the stock plug-in gives the same count twice, and a client offers at most the room
it was asked for.

### The sources

**Toolkit** is the applications (external): windows whose objects appear, vanish,
change, take focus and queue a notification for each. An object keeps its window; one
that is attached but not listed is the lazy cell of a grid. Toolkit also has the walk
in progress: breadth first, one object read at a time, the applications free to change
between two reads. On macOS an element may be listed by a second parent.
**Replay** is the client a source's events reach, in the order the source decides
them; it records the first update it could not have applied.

**Atspi** is the bridge thread: one handler at a time and to its end, except that
applications go on during its walk. Each window has the four maps of `WindowState`.
It starts as `bridge_main` does: `Discover` finds the windows, each is walked object by
object (`ReadNext`, `FinishEnumerated`), and `Listen` opens the stream of events. What was
notified between the two reached nobody; `unheard` keeps it as history, each notification until
the walk of its window or the reconcile that makes it good.
**Ax** is the worker: routing, refreshing, walking and reconciling are separate
actions, and `emitted` is the cache every walk is reduced against. It starts in the
other order: programs are observed and then walked, so that its queue is live from the first
read. Both leave the times out, a noted window may be walked at any moment; **Schedule** has the times:
`RewalkCoalescer` and `NodeRefreshLimiter` against a clock, polled late or early. Both
take a splice chain and a discovery as one step; **Discovery** has the scan call by
call, over programs that start and quit once, with the app-id cache, opt-in requests and
observers. The calls that may fail are reaching a program, listing its frames, learning its
process id, sweeping the session bus or opening it, reading a frame, and on macOS the window
server's list, the opt-in request and the observer. `misread` is history: the programs whose
process id a scan once could not learn. `MaxTroubles` bounds changes of the
desktop and refused calls together. That the registry itself cannot be enumerated is
not modelled.

**Text** is one text element read call by call while it is typed in, cut into runs
with geometry, sent as a delta, and its caret set by the client through the runs. Only
AT-SPI reads a text again when it is notified. On macOS a notification re-reads the
element (`RefreshElement`), which is then sent with its value and without runs and selection;
the runs are those of the walks (`BeginWalk` to `WalkText`), which come when they are due. What
is said of the runs there is said of the time from a walk the client could apply to the next
refresh; a walk that finds the runs it has sent before is the one it cannot apply (finding 7). A
character is the kind of it (word, space, newline, or a wide one of four bytes and
two UTF-16 units). Texts are left to right and their geometry can be read; the
macOS geometry is that of each character as drawn when it is read.

**Mapping** is the node of one object, a set of properties: which calls are made,
gated by what earlier ones brought, what is mapped, and which signals lead to another
read. Roles are represented by those the properties tell apart; every call succeeds.
An input no signal announces (bounds, for one) is current as of the
last read. **Actions** is what a node is advertised to do and the plan of calls a
request becomes. The data of a request (a text to set, a number) is not modelled.

## 3. Runs

Twelve, each a question of its own; the first four are what holds.

| Run | Instance | Asks |
| --- | --- | --- |
| `connection` | six pairings of builds, three sends each; three frames in pieces; two clients in turn; three toplevels and a restart of weston; two windows with trees that gain and lose a child | do two builds agree and always reach an end together, are frames exact, is a live client kept and a dead one dropped in time, are ids given to their windows, are the consumer's rules kept and is a reader that caught up shown the remote desktop? |
| `remote` | two windows, any source, 2 frames ahead, a consumer of this build or one that refuses | is the consumer ever sent what it must reject; does it get what was announced; does the pair implement WindowMirror; do strangers part? |
| `plugin` | two remote windows and two HWNDs, chunks of two, two channels, two installs | is the registry what is on the windows, does the focus settle, is an adapter taken back, is a channel hosted, does a stop end, is nothing lost by a crashed install? |
| `sources` | two roots, a text and another object, three steps of applications and client; two windows and two nodes against a clock of 4; texts of up to five characters, changed twice; two changes of an object; three programs and four frames with two troubles | is a source's memory what its client holds, is a settled client current, is anything put off beyond its cap, does a scan find what the desktop shows? |
| `remote_goodbye` (violation) | as `remote` | is a goodbye the host reads always recorded? |
| `daemon_held` (violation) | two clients | is the daemon freed of *every* client that vanished? |
| `desktop_stale` (violation) | one window | does an applied delta ever name a child that does not exist? |
| `desktop_viewer` (violation) | one window, `DesktopBinding` | does the viewer's host keep the rules? |
| `atspi_focus` (violation) | one root, four steps | does a re-walk carry the focus it was made for? |
| `ax_delta` (violation) | one root, an element with runs | does a delta only name what the consumer has? |
| `ax_step` (violation) | the objects of `MCActions` | is the synthetic step a fraction of the range? |
| `handover` (violation) | two windows, three reports | is the consumer sent the desktop as it is? |

In `sources` the programs, and the frames of a program, are listed in one order
(`ListedBefore`); the theorem is for any order of both.

`EndsAgree` in `connection` is three properties of Handshake (one codec, goodbye
last, no half-open end), `IdsPaired` two of Wslg, `LoadedAsRegistered` three of
Loading, `ChangesServed` two of Schedule, and `BridgeHeldByClient`, `DesktopIsKnown`
and `TextIsMirrored` two each; the parts are named definitions with comments of
their own.

Why the bounds are enough. Two windows are what it takes for a removal, an
announcement and a focus to cross, and for one window's update to be confused with
another's; nothing compares three. A queue of two or three messages holds each
pair of messages in each order around the step that overtakes them. The bounds
`MaxInFlight`, `MaxAnswers`, `MaxSends`, `MaxInbox`, `MaxQueue` and `MaxPosted` are
guards of senders only: a receiver is never restricted, so a bound removes overlong
queues and no order of handling. A tree with one child that comes and goes has each
case that `Held` distinguishes: present, orphaned, pruned, and named again. A daemon
with two clients has one that is served and one that waits and comes later; its
durations are the code's (`PING_INTERVAL` and `PEER_TIMEOUT`) in ticks. Frames are of
no length, of a few, of the limit and of one beyond it. Three toplevels are two of one app
and one that is alone, the two gates of the ledger. Two channels are the old one whose
adapter is still there and the new one. For the sources, three steps are a
change before, during and after a walk, or two of them and an action of the client, which adds
a walk at any moment (`WithinSteps` bounds changes and actions together); two objects are a child and
the sibling or cell beside it; and the clock is longer than a burst's cap plus an
interval. `MaxTextChars` is below the length of one of the texts, so that clamping
happens, and `MaxGeometry` is below that again. A window of `sources` either is there
from the start, with none or with all of its objects, or comes later with all; the initial
desktops are restricted to these for the size of the run. The windows there at the start are
walked object by object, as later ones are, while the applications take their three steps.

The passing `sources` instance has no element with text runs on macOS, no root that
returns and none that vanishes (`RunElements`, `Returning`, `Vanishing`): with any
of the three, the violation `ax_delta` shows is reached (a returning or vanishing
window also leaves a cache behind that the next delta relies on), and so the passing
run shows that the cache is right where that flaw cannot reach.

Deadlock is not checked: every one of these systems may come to rest (a closed
session, a daemon without clients left, a process that panicked, an application that
changes no more).

Fairness. Sessions: both transports keep reading and writing, after an error too, which is a
little kinder than the plug-in's pump: that one breaks before it flushes (`transport.rs:156-162`),
as `Remote` has it. `Remote`: the
host's loop wakes every 50 ms and the consumer's pump alternates writing and
reading, and each notices a socket the other has closed (`recv_timeout` reports
`Disconnected`, `read` returns 0); nothing is assumed of the source, of actions or
of anybody leaving. `Daemon`: the loop turns and time passes; nothing is assumed of a
client. `Desktop`: the window's thread serves its queue (`WF` of taking a message,
which only the two handlers do) and the heartbeat beats; nothing is assumed of the
provider or the reader. In `MCConnection` each of these is conjoined with the part it
belongs to. `Dvc`: every thread runs. Two conditions are strong. A window's thread
dispatches what is sent before what is posted, so each nudge that is answered disables
the handling of a posted detach for a moment; nudges are 250 ms apart, and the queue
has its turn between them (`SF` of `HandleDetach`). In the same way titles set by
others keep the hook procedure busy now and then, and a heartbeat's nudge has its turn
between them (`SF` of `ReadSlot`). Nothing is assumed of the RDP client.
`sources`, `Rail` and `Loading` state safety only: what must happen eventually there
is stated of the states in which nothing is left to handle.

## 4. What the runs found

Each of the eight is a violation run with one property, and quotes in
`PROJECT.json` the comment it contradicts.

1. `remote_goodbye`: a consumer that leaves before the daemon has read anything
   has its hello and its goodbye in one chunk. The session is closed by the time the
   host sees `Established`; `sync_initial_state` fails on its first message, the
   error is returned and the `Closed` event behind it is never looked at.
   `peer_goodbye` stays `None`.
2. `daemon_held`: `heartbeat` does nothing before the session is established, so a
   client that connects and vanishes before its hello holds the daemon for ever,
   which is what the heartbeat is documented to prevent.
3. `desktop_stale`: the snapshot that goes ahead of a delta is of the store as it
   is *now*, and so already contains the deltas that are still queued. One that
   mentions a child which a later one removes is then applied to a tree that has
   pruned it, and names a child that does not exist.
4. `desktop_viewer`: `DesktopBinding::delta` retags without looking at what is
   owed; the first push for a subtree may then be a delta without tree data.
5. `handover`: both platform sources answer `initial_state` with what they
   enumerated when they were built, which is when the client connects, and the host
   discards what they report before the hello. A window opened in between is never
   announced, and the first update of it ends the session. The run shows what is lost before
   the hello; what a host that is ending the session loses behind an event it refuses is in the
   same module, and is not shown separately.
6. `atspi_focus`: a re-walk that does not reach the spliced cell which had the focus
   splices it back in, focus included, and so carries the old focus although it was
   made to carry a new one. (In the shortest trace the cell is attached while the first walk
   runs; the property is of states in which nothing is left unheard.)
7. `ax_delta`: a refresh of a text element sends it without its runs, which the
   consumer then drops, while the cache keeps them; the next walk names them without
   sending them, which panics the consumer.
8. `ax_step`: a macOS slider without an increment action is moved by 0.01 and not by a
   hundredth of its range.

Other things met while modelling, which contradict no statement of the repository or
which no run can show:

- AT-SPI source: the event stream is opened after the enumeration
  (`source.rs:177-188`). What changes in an object that was read already, before the stream is
  open, is notified to nobody, and a reconcile looks at windows only: the client shows the old
  object until something has the window walked again. `BridgeCaughtUp` leaves out these
  windows, until then, and no others (`Missed`). A process id that could not be learnt
  (`mirror.rs:131-137`) leaves the windows of that scan without app id for good, while those
  found later have one; `WindowsIdentified` leaves out such programs. Further, an activation of a window not yet tracked is lost, and
  reconciling does not look at which is active (`source.rs:547-583`); a re-walk that
  fails is not noted again (`source.rs:941-955`), and a discovery call that fails
  removes the windows of its program, which come back under new ids; a relation's ids
  and those of objects are only ever added (`mapping.rs:1309`); a walk never comes back
  empty, as `read_node` degrades to defaults, so that what `source.rs:350-353` says of
  a retry hardly occurs; a program that is on the bus before it owns its name never
  gets its app id, as "none" is cached with its pid (`app_id.rs`); extents of an older
  text of the same length are reused when reading them fails; Expand and Collapse are
  advertised from a state, with or without an `Action` interface; a call that takes
  effect but answers with an error is followed by the next call of the plan.
- macOS source: `AXApplicationDeactivated` is routed as a focus change and
  `FocusTracker::deactivate` is never called; a change of a text or of its selection re-reads
  the element only, although `observe.rs:42-45` says of the route "rebuild that node's text
  runs only": the caret moves for the client at the next walk; `observe.rs:46` says that a lifecycle notification reconciles the
  window set, and it notes a re-walk; a failed opt-in request beside an observer that
  works is not repeated (`source.rs:535-541`); a window list that cannot be read
  makes every window vanish; a node with `AXShowMenu` and no cancel is advertised as
  collapsible with an empty plan (`node.rs:467-474`, `drive.rs:144-154`).
- WSLg: a window announced to the host before the hello is discarded and has taken an id
  (`host.rs:139-146`, `wslg.rs:299-303`): if another window of its app was in the snapshot, that
  one's id is older and is the one taken, and the app is left with one window and the other's
  id, which `initial_state` takes for a match. Both ids were fresh, so `strayed` is set.
  Ids nobody claims stay in the ledger (`wslg.rs:55-57`), and a window announced
  later than `FRESH_WINDOW` after its line is paired with a later one's id. The log is read from
  the start again when it was replaced, but `seen` is kept (`wslg.rs:72`): when the new weston
  counts from the same number, the lines of its first windows are taken for repeats, and such a
  window, if it has no line of its own left, is given the fresh id of a later window of its app.
- Plug-in: of two flag lines in one section only the first is cleared; the two races
  `raced` and `abandoned` of Dvc leave an adapter behind.

Three mistakes were in the models and came out when the proofs failed. `PairedRight`
was promised across a restart of weston, which is false as soon as an app has three
windows: the run has two, and only the proof asked for the third. `strayed` now covers it. The adjacency of
`WindowMirror` did not hold of a set and itself when there are no windows at all, and
so the initial burst was no step of it then. And four definitions (`Heartbeat`, `Fault`, `Push`, `Applied`)
were `CASE` expressions whose guards overlapped: TLC takes the first that holds, the
language leaves the choice open, and nothing could be proved of them. They are
now chains of conditions in the order of the code.

## 5. What is proved

Each theorem is of the safety part of a module's specification and holds for every
value of its constants: any number of windows, channels, clients and messages, any
builds, any delays.

| Theorem | States | For every |
| --- | --- | --- |
| `RemoteProofs` `NeverRejects`, `TypeCorrect` | `ConsumerNeverRejects`, `TypeOK` | set of windows, builds, source |
| `RemoteProofs` `MirrorsAtRest`, `FocusHeld` | `MirrorAtRest`, `FocusIsHeld` | the same |
| `RemoteProofs` `MirrorImplemented` | `Remote` implements `WindowMirror` (`ImplementsMirror`) | the same |
| `ConnectionProofs` `EndsInAgreement`, `MessagesInOrder`, `HandshakeWellTyped` | `EndsAgree`, `InOrder`, `HandshakeTypeOK` | pairing of builds, number of messages, cutting into chunks |
| `ConnectionProofs` `FramesAreExact` | `FramesExact` | size of a byte and of a header, limit, payloads, cutting into chunks |
| `DaemonProofs` `SlotIsFreedInTime`, `LivePeerIsKept`, `DaemonWellTyped` | `SlotFreedInTime`, `LivePeerKept`, `DaemonTypeOK` | set of clients, durations |
| `DaemonProofs` `IdsReachTheirWindows` | `IdsPaired` | number of windows, apps, freshness, cuts of the log, restarts |
| `RailProofs` `RegistryIsTrue`, `DeltasOnTheirOwn`, `FocusIsSettled`, `AnnouncementsReach` | `RegistryTrue`, `DeltaOnItsOwn`, `FocusSettles`, `NoAnnouncementMissed` | set of remote windows and HWNDs |
| `PluginProofs` `GreetingIsFirst`, `AdapterIsTakenBack` | `GreetingFirst`, `AdapterTakenBack` | number of channels |
| `PluginProofs` `LoadedAsTheInstallerSaid` | `LoadedAsRegistered` | file, number of installers and of stock plug-ins |
| `DesktopProofs` `RulesAreKept`, `FocusHasLanded`, `HeldIsWhatIsThere` | `RulesKept`, `FocusLands`, `HeldIsExact` | set of windows and trees, with `Host = "visible"` |
| `DesktopProofs` `CaughtUpShowsTheDesktop`, `DesktopWellTyped` | `CaughtUpIsCurrent`, `DesktopTypeOK` | the same |
| `SourceProofs` `ScheduleServes` | `ChangesServed` | quiet period, cap, interval |
| `SourceProofs` `WindowsAreKnown` | `DesktopIsKnown` | programs, frames, order of listing, number of troubles |
| `BridgeProofs` `ClientHoldsTheBridge` | `BridgeHeldByClient` | windows, objects and texts, steps of the applications, ids, hops, actions |

Besides these, each module has a theorem that its inductive invariant holds
(`Invariance`, `MirrorInvariance`, ...). None of the properties is inductive, and the
invariants say why they hold all the same.

**Remote.** `ConsumerNeverRejects` speaks of the consumer only, and what the consumer
reads was decided by the provider many steps before. `IInv` therefore speaks of the
frames between them. `LegalStream` says that the frames under way are acceptable one
after another to a consumer that holds `windows` now; `Accounted` that a consumer
which has read them all will hold exactly `announced`; `OneHello` and `Unestablished`
that the greeting is the first thing a consumer reads and that nothing else is sent
before it. A provider's step appends a frame that is acceptable to a consumer holding
`announced` (its guards) and so keeps the stream legal; a consumer's step takes the
head, and a tail of a legal stream is legal for what the consumer holds after it. The
lemmas `ViewStart`, `ViewStep`, `ViewAppend` and `ViewTail` reduce both to arithmetic of
positions in a sequence. The initial burst, which queues two frames per window in one
step, is the one place where a stream is extended by more than one frame
(`BurstLegal`). `MInv` adds what trees need: an announcement is directly followed by
the window's tree (`Paired`), and a window without one has it in the next frame. The
refinement then goes action by action: reading a frame moves one step along the
sequence of sets that `View` makes of the stream, sending one lengthens that sequence,
the rest are stutters.

**Handshake.** `Into(p)` is all that an end has still to read, the other end's output
buffer included. `Greeted` says what of it may be a hello, given the phase; `Parting` that
a goodbye on it is the last frame, that its sender has closed, and that an end whose
peer has closed and which has not will find one; `Handed` that the application
messages on it are, in order and without a gap, those not yet handed up. A chunk is
drained by a recursion over its frames. Between two of them the invariant is `Linked`,
which is `HInv` with the session so far and the rest of the stream in the place of
`session[p]` and `Into(p)`; `DrainKeeps` is one frame, `ChunkKeeps` the chunk. The
library's induction theorems take a predicate as parameter, which no backend
instantiates. `CountingUp` says of a *set* of numbers what they say of a predicate, and
follows from the well-foundedness of the order (`WFMin`); `DrainedExists` uses it to show
that the recursion defines something, `ChunkKeeps` to go through the chunk.

**Framing.** `FInv` says that what the reader keeps of the stream, followed by what is
not read yet, carries exactly the payloads framed and not returned, then the foreign
header if there is one. `Written` gives the bytes of each suffix of the payloads framed and
`Carries` compares them with a stream. That `LengthIn` gives back what `HeaderOf` wrote is
arithmetic of digits in a base, by counting up through the header; that a drain returns
whole frames and stops at an unfinished one is counting up again, through the steps of
`DrainFrames`. A reader compacts when it is left with an unfinished frame, so that it
holds less than one frame of the longest kind.

**Daemon.** `SilenceCounted` bounds the silence of a client by the pings it has left
unanswered, and `AnswersRead` that of a client that is there by the pongs under way;
the first gives that nobody is dropped before the timeout's worth of pings is
unanswered, the second that a live client never is. The latter assumes
`RoomToAnswer`: `PingInterval + MaxStall + RoundTrip <= PeerTimeout`. The code has four
intervals to a timeout and says that a slow pong should do no harm; without the assumption
the claim is false, so it stands in the theorem and not in the module. `GoneCounted`
follows what a client that is gone had written, chunk by chunk, to the timeout.

**Wslg.** A line is two pieces, so that everything in the log has a parity: `LogAsWritten` says
what stands at each place, and `Carried` what a read that ends there leaves. `PollIs` shows that
a poll, wherever it resumes and ends, reads exactly the lines that end in between. Over that
`WslgInv` relates the ledger to the log at the tail's offset: the ids before it are seen, those
after it are not, and every window to come whose line was read has its entry (`Unmistaken`).
A window that is announced therefore finds its own entry, the source announces the windows
of an app in order, and the fresh entries are those of windows to come: its own is the
least. Between the snapshot and the hello the windows of the snapshot keep what they need: as long as
nothing strays, no poll that discards what it was told has taken one of their entries
(`SnapshotFacts`). At the hello the windows found therefore have their entries, so that equal numbers make the two
sets equal, and with them the place of each window (`Ranks`); that there is an id at
every place even when the sets differ is `SameRank`.

**Rail.** `WindowsTrue` says of each HWND what its message queue will make of it: what
it carries now, and after each message posted. A handler takes the head and acts on
the state as it is by then, so that the invariant relates the adapter at every position
of the queue to the registry. It had to be strengthened by *an HWND that does not
exist yet has not been freed*, without which a creation could follow a destruction.
`BeliefTrue` and `FocusLeads` do the same for the focus, `Offered` for announcements.

**Dvc.** Until something is on the wire nothing but a hello is in the output or in the
hands of either writer (`GreetInv`). `HostInv` has a clause for each stage of an install
at which another thread may run.

**Loading.** The invariant says, for each step an installer may be at, what is already so: the
keys it has written or removed, the text it is to write, which is still the edit of the file
there is, and the temporary file (`InstallerTrue`). What an edit does to a text is stated once, for
texts of any length: `SetKeeps` and `ClearKeeps` follow the editor from the header to the
flag and compare with `Ours`, which says where the flag is without saying how it is
found. That a header is added at most once, however many installers run, needs that
a text to which a header was added has one.

**Desktop.** A property of what the consumer shows is decided by updates that are still
owed to it. `Goes(s, updates, t)` says that the updates take a consumer from `s` to `t`
and that none breaks a rule on the way; `Owed`, that what is pending goes from what is
shown to something that is `Exact`: what the composition holds. `SyncGoes` and
`RetagGoes` show that a sync and a delta each add such a course to the one owed
(`GoesOn`), and `PushGoes` that pushing a course ends where it leads, or in the panic over
a missing child, which is the one fault left and a finding. That each window has one
snapshot, on a graft and without a subtree, comes from the list made of a finite set.
Every rooted store and every live mirror contains the root: this is why the focus can
always land. The theorems are for the plugin's host. For the viewer's they are false, as
the run *desktop_viewer* shows.

`CaughtUpIsCurrent` has an invariant of its own, `CInv`, on top of that one. The stores hold
what the provider sent (`StoresTrue`) and every queued delta is true of it as well
(`QueueTrue`), but a delta that was posted before a newer snapshot is applied after it, so
that what is held for a window may name nodes that are gone and lack others in
between. What holds throughout is about the nodes no queued delta mentions (`Silent`): they
are already as the provider has them (`Current`). When the queue is empty nothing is left to
mention a node, the held subtree agrees with the provider's wherever it is reached
from the root, and the two are one (`WholeIsOne`): a held subtree is pruned, and closed
because a missing child would have been the consumer's panic. What a root reaches is the
least set closed under children (`ReachFacts`, `ReachLeast`), which is all that the lemmas on
pruning use.

The types rest on both invariants and a third, `TInv`: that the consumer's focus stays among the
subtrees it has is no matter of one update, because a root tree that takes a graft away takes its
subtree too; it needs that no root tree, pushed or owed, focuses a graft it does not bring (`OnGrafts`).

**Schedule.** `SInv` ties each deadline to the first change it is for.

**Discovery.** `DInv` says of a scan under way what it has found so far: as long as nothing
disturbed it, the windows of the programs it has asked, but for the frames still to be
looked at (`ScanTrue`). What was listed is of programs not to be asked again, so that nothing is found
twice (`ScanKept`). A window that is tracked and still open has a tree to walk, since frames that
close do not open again (`TrackedKept`); without this a window that stays tracked might
not be one *that can be walked*. The ids given out at the end of a scan are counted from
`nextWindow` by how many go before (`Ranks`), and `Greatest` gives the last of the active
ones. A program has one identity because the cache never forgets one (`Resolved`): what is
tracked or found of it agrees with the cache, unless a scan once could not learn its process id and
so neither asked the cache nor filled it (`misread`).

**Atspi.** That the client could apply every delta depends on what the bridge's four maps
say of each other. `BridgeInv` says of each window that they speak of the same objects, all
of that window, that a node's children are those of the children map with the runs of the
text map, and that every object is reached from the root (`StateFine`). A tree of such
nodes is `Rooted`: what the consumer's closure makes of it is itself, and `TreeArrives` shows
of any update in between that it leaves the client with it, without a fault. Each handler is
then about the maps alone (`Brings`: the update carries what differs). The application goes
on while it is read, so a walk may show a child that is gone when it is asked, list an object
below two parents or miss one altogether. `WalkFine` says what holds of it all the same: each
object read was listed by one read before it. What such a walk has read is reached from
its root by the children it reported, those it did not read left out (`WalkEnds`), whatever
the objects are by then. A climb from a cell to a known object goes up by parents as they are
now (`ClimbIs`), and is short of a circle because the first known object ends it (`ClimbOnce`);
splicing it leaves everything reached (`SplicedFine`). Which entries of the list of windows
stay when some vanish is `KeepingIs`. The first enumeration is no special case: each of its walks is
one that the applications go on during, and ends as the walk of a window found later does
(`AddStep`, for both), before any event is handled.

Assumed are the named assumptions on constants in the modules, which TLC evaluates in
the runs, and `RoomToAnswer` and `Host = "visible"` in the theorems that say so: `Remote` needs that snapshots
name no window twice and that `None` is no window; `RailAssumption` that `None` and `Stale`
are no windows; `DvcAssumption` and `MaxSendsAssumption` that the two bounds are numbers;
`DurationsAssumption` that durations are positive, an interval is no longer than the
timeout and `Nobody` is neither a client nor a number; `ScheduleAssumption` that delays are
numbers in their order; `WslgAssumption` that toplevels are the numbers up to their count; `LoadingAssumption` that `NoFile` is no text; `DiscoveryAssumption` that frames belong to programs and `NoFrame` is none of them; `FramingAssumption` that a header has room for the limit and a payload is
made of bytes; Desktop's three, that a provider's tree is well formed (one node to an id, the
root among them, every child there and everything reached from the root: an accesskit consumer
panics on any other), that the host is one of the two, and that `NoWindow` is no window;
`ToolkitAssumption` that objects and windows are finitely many and different and each object
has its window, `RunIdsAssumption` that a run's id is no object's, `HopsAssumption` that
`MAX_SPLICE_HOPS` is a number.

Only model-checked, with the reason:

- every liveness property and everything about fairness: out of the prover's reach;
- `WorkerHeld`: the worker's cache agrees with its client only as long as no element with
  runs changes, none vanishes during a walk and none returns (*ax_delta* shows what happens
  otherwise), so that an invariant would have to speak of a behaviour's past;
- `BridgeCaughtUp`, `WorkerCaughtUp`, `TextIsMirrored`, `NodeIsMirrored`: that a settled source
  is current relates what was read to every notification still queued; not tried;
- `MCConnection.TypeOK` as a whole: each of its three conjuncts is a theorem of its own module,
  and MCConnection only runs the modules side by side;
- `Actions.RequestsPlanned`: a statement about finitely many objects, exhausted by its run.

## 6. Plan

1. *Done.* Session, Handshake, Framing; Remote, WindowMirror, RemoteProofs; Daemon,
   Handover, Wslg; ClientTree, Desktop; Association, Rail, Dvc, Loading, Plugin;
   Toolkit, Replay, Atspi, Ax, Schedule, Discovery, Text, Mapping, Actions.
2. *Done.* Proofs about Remote and its abstract specification, Handshake, Framing, Daemon, Wslg, Rail, Dvc,
   Loading, Desktop, Schedule, Discovery and Atspi.
3. Proofs: `BridgeCaughtUp`, for which the invariant has to say of each object that is out of
   date which notification or noted walk is about it.
4. Failing reads inside a walk; the node limit of a walk.

## 7. What is not modelled

- `accesskit_consumer` and the platform adapters beyond the rules `desktop.rs`
  states: external crates. `RemoteWindowBinding`, which hands them one window's
  updates without more.
- The encodings (`codec.rs`) and the typed wrappers of attributes (`attr.rs`): library
  calls. A codec is a name the two ends agree on.
- In a source's walk: reads that fail, `MAX_NODES_PER_WINDOW`, objects that move to another
  window. In Text: bidirectional texts. In Mapping: roles beyond their
  representatives, the numbers of bounds and values.
- How a plug-in finds its session window, the stock DLL and the log of weston:
  lookups that succeed or not.
- The examples and probes (`ax_probe.rs` and the like), scripts, argument parsing,
  logging: sequential input and output.
- The contents of labels and titles beyond what matching and mapping tell apart.
- Process crashes other than an installer's: nothing else is persisted, a restart is a
  new connection.
