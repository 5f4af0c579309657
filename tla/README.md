# GeulOS: verification project

GeulOS is a desktop built on one object server. Every window, file, console
line and dialog is an object in the server's tree; programs (the desktop shell,
the compositor, AI sessions) connect over a framed JSON protocol, mount objects,
invoke methods on them, set their state and subscribe to events. This directory
models that system in TLA+, checks it with TLC on small instances and proves
most of its safety properties with TLAPS.

1. [Inventory](#1-inventory): the parts, their state, what is hard about them
2. [Plan](#2-plan): modules, runs and theorems, built and to come
3. [Modules and code](#3-modules-and-code)
4. [Runs](#4-runs): what each checks, its bounds, what it shows
5. [Fairness](#5-fairness)
6. [Proofs](#6-proofs)
7. [Where the code and its documents disagree](#7-where-the-code-and-its-documents-disagree)
8. [What is not modelled](#8-what-is-not-modelled)

## 1. Inventory

How the parts interact: one *server actor* task owns the object server and takes
commands from a channel, one at a time. Each client connection has a *read loop*
that decodes a frame, sends the commands it stands for and writes the answer,
and a *push task* that every 100 ms drains the connection's
subscriptions and writes the events. Clients see only frames. The desktop shell
is a client that owns most objects and carries invokes out; the compositor is a
client that mirrors the tree and turns clicks into invokes; AI sessions are
clients whose invokes the shell may put before the user.

| Component | State | Operations | Hard behaviour | What makes it correct |
|---|---|---|---|---|
| Object server (`core/src/server`, `event`) | objects, roots, event log, subscriptions with queues, grants | mount, mount_with_descendants, invoke, set_state, query, subscribe, unsubscribe, drain, grant, revoke, disconnect | children mounted before parents; tombstones; loops that emit many events | the log replays to the store, lives are in order, events are authorised, the tree can be walked, each subscriber gets its part of the log exactly |
| Access lists (`core/src/object/acl.rs`) | none (pure) | match actor, method, effect; last match wins; grant fallback; owner | shadowed entries, grants withdrawn in between | every event in the log was allowed |
| Connection and push task (`server-host/src/connection.rs`) | phase, sub_map, push task, writer lock | handshake, dispatch, drain and write, disconnect | the two tasks interleave at every await | pushes exact, named rightly, answers in order, disconnect destroys |
| AI wire client (`ai-bridge/src/wire.rs`) | accumulated bytes, request id | request, drain, unsubscribe, deadlines | events and late answers among the replies | own answer, every event accounted for, every call returns |
| Compositor client and mirror (`compositor/src/server_client.rs`, `tree_model.rs`) | pending sets, accumulated bytes, tree | startup pipeline, frame handlers | changes during startup; an answer to a Get overtaken by events | the mirror is a tree and ends up like the server |
| Shell: permission, dialogs, grants (`permission.rs`, `dialog_ops.rs`, `granted_dirs.rs`, `fs_methods.rs`, `external_methods.rs`, `dialog_methods.rs`) | pending operations, granted and persistent directories, workspaces.json | judge, ask, respond, add, remove, restart | requests, clicks and commands in any order; two copies of the grants; restarts | consent, no second question, workspaces survive |
| Shell: main loop and AI streaming (`main.rs`, `ai_session.rs`, `ai-bridge/src/chat_session.rs`, `chat_persist.rs`) | chat session and its lock, cancel flag, stream target and buffer, Cli object, session files | submit_input, stream events, interrupt, session commands | a second message while the first streams; a lock held over an await; a bounded channel between the two | the answer is shown once and in order; the history stays a conversation; an interrupt ends the answer |
| Shell: watcher, lazy mounting, explorer (`fs_watcher.rs`, `lazy_mount.rs`, `explorer_methods.rs`, `fs_methods.rs`) | watched folders, event queue, echo marks, mounted objects | expand, navigate, list, file operations of user and AI, change events | own changes reported late, foreign changes within the echo window, operations approved on stale paths | a folder that was read follows the disk; parents and children agree |
| Shell: runner, consoles, processes (`shellrunner_methods.rs`, `console_window_methods.rs`, `host_bridge_client.rs`) | stream map, console lines, one bridge connection, channels | run, run_streamed, poll, terminate, close, exit | exit races kill, lost answers, one mutex for all calls, results of concurrent commands | no gap in a console, no running process out of reach, every run answered |
| Host bridge (`crates/geulos-host-bridge`) | host processes and streams | exec, kill, file operations | connection lost with processes running | no orphan processes |
| AI session and tools (`ai-bridge/src/session.rs`, `tools.rs`) | history, tool results | tool loop, mutation polling | polling identifies effects by comparing states | a tool reports its own effect |
| Text input and windows (`hangul.rs`, `editor.rs`, `keyboard.rs`, `geulos-vm-compositor.rs`, `window_methods.rs`) | syllable, command line, editor, focus, drag; the windows and a mirror of them | keys, clicks, drags, open, focus, save, close, rename | a syllable divided anew over commits; offsets kept across edits; two copies of each window | a letter adds itself and Backspace takes it back; offsets stay in range; the copies agree |
| Init, bootstrap, launcher | child processes, mounts, slots | start, reap, restart, sync | signals and crashes between steps | the system comes up |

The hazards are listed line by line in `PROJECT.json`, each with the properties
that watch it or the reason none does.

## 2. Plan

In the order of importance. Built:

1. `Acl`, `ObjectServer`, `EventFeed`: the core and the abstract promise to
   subscribers.
2. `Connection`: one connection over that promise (it instantiates `EventFeed`,
   not the detailed server).
3. `WireClient`: the AI bridge against what `Connection` establishes.
4. `CompositorClient`: the mirror against server and connection.
5. `Confirmation`: requests, dialogs, grants, restarts of the desktop shell.
6. `AiStream`: messages to the AI beside the main loop, the chat session's lock.
7. `ShellTree`: watcher, echo window, lazy mounting and file operations, against
   a disk.
8. `Processes`: runner, console streams, host bridge, over one connection.
9. `Editing`: keys, Hangul and windows, in the compositor and the shell.
10. The proofs: `ObjectServer_proofs`, `Connection_proofs`, `WireClient_proofs`,
    `CompositorClient_proofs`, `Confirmation_proofs`, `AiStream_proofs`,
    `Processes_proofs`, and `Desktop_proofs` for both `Editing` and `ShellTree`
    (which is why the latter calls its specification `TreeSpec`).

Left: `Tools`, the AI tools' polling for the effect of an invoke; `Startup`, the
acknowledgements the shell waits for, init and bootstrap; the frame codec and the
SSE parser as algorithms against a reference definition.

Composition: `ObjectServer` implements `EventFeed` (`ImplementsFeed`);
`Connection` takes `EventFeed` as its server; the clients take the guarantees
that `Connection` is checked for (answers in order, one per request, pushes
exact) as their environment. The five modules of the shell share the main loop:
each takes one arm of it, or a group of methods, as atomic steps, which the loop
makes them; `Processes` and `AiStream` carry what the loop awaits within a step.

Every invariant, every action property and the refinement that the passing runs
check are proved; only their liveness properties are left to TLC (section 6). The
modules have no RECURSIVE operator and name their assumptions for that purpose.

## 3. Modules and code

`PROJECT.json` maps each definition to the lines it models. Shared conventions:
`Null` stands for None; bounds are constants named `Max...`; an operator in a
comment that starts with *Mutant* is a variant of the one below it, with a
plausible mistake in it, and no part of the specification.

**`Acl`** (`core/src/object/acl.rs`, `Object::is_allowed`, `GrantStore`). Actor
identifiers are values with a class and an application, as the patterns look at
no more. `Below[d]` is `Path::starts_with`.

**`ObjectServer`** (`core/src/server/*`, `core/src/event/*`,
`server-host/src/actor.rs`). Variables `objects`, `roots`, `log`, `subs`,
`nextSub`, `grants` are the fields of the code; `sweeping` and `grafting` are
the loop variables of `DisconnectActor` and `mount_with_descendants`, whose
passes are separate steps during which nothing else runs; `reader` is a history
of what each subscription was handed. Refused requests change nothing and are
not steps. Queues hold positions of the log where the code holds copies.

**`EventFeed`**: what a subscriber may rely on: a growing log and a cursor per
subscription; a delivery hands over exactly the asked-for events up to the end.

**`Connection`** (`server-host/src/connection.rs`, `dispatch.rs`). The read loop
stops at each await: after a frame is taken, `handling` says what is still to do
(update the map, end a subscription, write the reply). The push task copies the
map (`round`), drains one subscription (`batch`) and writes event by event, one
writer lock per frame. Frames without effect are merged into one answered and
one unanswered kind. The socket never fills.

**`WireClient`** (`ai-bridge/src/wire.rs`, and of the server the read loop, which
writes one answer before it takes the next request). Both sockets are bounded
(`UpCap`, `DownCap`); `down` is the socket and the accumulated bytes together, `hand`
the answer the server has yet to write. A call is at first `Writing` its frame and then
`Waiting`, and a `Timeout` may come at any moment of the waiting, but not of the
writing: so the code has it, and time itself is not modelled. Calls are numbered,
and frames know which call they answer so that the properties can tell.

**`CompositorClient`** (`server_client.rs`, `tree_model.rs`). The startup
pipeline is a `stage` with one request at a time; `held` counts frames read
together with the last one of startup and left undecoded. The server side is the
part of the object server and the connection that this client can tell.

**`Confirmation`** (the shell's `permission.rs`, `dialog_ops.rs`,
`granted_dirs.rs`, the handlers and their arms in `main.rs`). The main loop runs
one handler to its end before the next frame, so a handler is one action on the
head of `inbox`. A path is the sequence of its components as it was written, ".."
among them: `Norm` is `norm_components`, and a name is joined to its folder as the
client sent it (`Join`), absolute or of several components. Empty components, "."
and the two ways to write a host path are left out. The file system either
does an operation or does not, freely (`done`), so no disk is needed. `session`,
`persistent` and `saved` are `GrantedDirs` and `workspaces.json`, `server` is
the server's grant store, which receives each GrantUpdate at once. `said`,
`asked`, `askedAt` and `effects` are history: what the user told the shell, what
each dialog asked and what was carried out. The shell's grants do not know the
actor, by design, so `Consent` speaks of the user's trust in directories and not
of the actor that was trusted. Writing `workspaces.json` succeeds. Server-side
checks that come before the shell (who may invoke at all) are those of
`ObjectServer`.

**`AiStream`** (`main.rs`: the arms of submit_input that concern the AI, the
streaming arm, interrupt_ai; `ai_session.rs`, `chat_session.rs`,
`adapter/claude.rs`, `chat_persist.rs`). `cli`, `chat_session`, `ai_cancel`,
`stream_target` and `files` are the code's; `holder` and `waiting` are the tokio
Mutex, `stream` and `ai_response` the channels; `task[s]` is where the task of
message `s` stands and what it has still to send. A handler of the main loop that
needs the lock is two steps, asking and getting it, and nothing else of the loop
happens in between. A piece of text is a message and a number; `shown` is the
answer text in the Cli's lines. The service may refuse, break off or never finish
an answer; the screen's throttle, echoes and marks are left out.

**`ShellTree`** (`fs_watcher.rs`, `lazy_mount.rs`, `folder_ops.rs`,
`file_ops.rs`, the watcher's timer in `main.rs`, `fs_methods.rs`,
`explorer_methods.rs`, the file arms of `handle_respond`). `disk`, `watched` and
`events` are the world and the watcher's thread, `batch` one drain of the queue,
`echo` the marks younger than a second (a mark may expire at any step).
`mounted` is `mounted_objects` in its order, because lookups take the first
match. Lazy expansion reads the folder in one step and watches it in a second
one (`reading`), between which only the disk changes. The watch of a
directory ends when it is removed or renamed. `listed`, `visited` and `drift` are history: the
folders read or opened, and why a path may be shown wrongly. Where the code filters
a list, `Picked` takes the elements at a set of places, the k-th smallest first
(`Nth`): a form the prover can reason about. Contents, times and
actor labels are left out, and so are host paths, which are never watched.

**`Processes`** (`shellrunner_methods.rs`, `console_window_methods.rs`,
`host_bridge_client.rs`, and `exec.rs` of the bridge). `wire` is the one
connection: which call holds its mutex and how far it is. `proc` is a streamed
process and its entry in the bridge's REGISTRY with the lines not yet fetched,
`child` the child of a one-shot run with the pipe it fills; `poller`, `runs` and
`busy` are the three kinds of caller. The consoles' ring of lines and the two
bounded channels are kept, since the main loop empties them and awaits the bridge
as well. A one-shot child that has exited may leave its pipes to a process it
started (`heir`), which is read to its end before the run is answered. The reader
threads of a stream may stop at any line, as they do at one that is not UTF-8.
`Break` and `BridgeRestarts` drop the connection or the bridge, with the call
that is on it before or after it was served; a bridge that ends kills its streams
or leaves some of them running (a crash, a failed `taskkill`, a host that is not
Windows). `lost` is history.

**`Editing`** (`geulos-vm-compositor.rs`, `hangul.rs`, `editor.rs`,
`keyboard.rs`, and `window_methods.rs`, `handle_open_file`,
`handle_rename_selected` of the shell). One action per key or button event, with
all it does to focus, composition, selection and text. A character is the
sequence of letters it was typed with, so that `Render` is the composition and
the tables of Unicode are not needed; offsets count characters. `invokes` and
`news` are the two directions between compositor and shell: what a handler says
is, for each window it changed, the new values of the fields it changed, and the
same of the explorer under a key of its own (0). `mirror` is what the compositor
last heard of the windows and, under that key, of the rows and the selected item. A key press that would slice a string out of its range
sets `crashed`, as the panic it is. What a click hits is given, since where
things lie is layout.

## 4. Runs

Nine runs hold, three show a disagreement. Distinct states are given in thousands.

| Run | Question | States | Bounds, and why they suffice |
|---|---|---|---|
| `MCObjectServer` | does the log tell the truth about the store, in order, authorised; is the tree reachable; does a subscriber get its part; does the server implement `EventFeed`? | 159 | three actors (owner, compositor, AI), a folder and a file below it, one grantable directory, 4 events, one subscription, by id or by type, to lifecycle and invoke but not state events: enough to mount child before parent or after, act under a grant, withdraw it, disconnect and sweep. Several subscriptions do not touch each other; `DeliveryCorrect` proves it for any number |
| `MCConnection` | are pushes exact, named rightly, answers ordered; do they come in the end? | 103 | two server subscriptions, two client names, one own and one foreign object, 3 client frames, 2 changes: a name can be reused, unsubscribed and drained in between |
| `WireClient` | does a call take its own answer, is no event lost unseen or counted twice, does each call return? | 1896 | 3 calls, 2 events, sockets of 1 request and 2 frames: a late answer and an event can both precede the answer a third call waits for, and both sockets can be full at once |
| `MCCompositorClient` | is the mirror a tree that follows the server? | 623 | a folder in a folder, 1 state change, each mounted and destroyed at any time: every order of parent, child and stage |
| `MCConfirmation` | does nothing happen without consent, and do grants survive? | 696 | two AI sessions, 2 requests out of 16 kinds, 3 user acts (clicks, workspace commands, restart), 2 runs of the shell, names and paths with ".." or absolute, a workspace written with "..": one request opens a directory for the next, clicked twice, withdrawn or restarted in between |
| `AiStream` | is the answer shown, the history answerable, an interrupt effective? | 1055 | 2 messages, 2 pieces of text, 2 requests to the service, 2 turns of tools (25 in the code), a channel of 1 (256), 2 other commands, one session name: a message meets another, an interrupt, a failed turn, a start, load or exit |
| `ShellTree` | does the shown tree follow the disk? | 1958 | a drive with two names, folders with one, 2 changes by others, 3 operations of the user or the AI, at most 6 objects: rename of a folder into the place of another, a file below it changed meanwhile, a request approved after the AI renamed the object again |
| `Processes` | are consoles complete, processes within reach, calls answered? | 242 | 1 streamed and 1 one-shot command, 2 lines on the one pipe that is followed (the other is like it), a one-shot output of 2 over a pipe of 1, a console of 2 lines (500), channels of 1 (256 and 16), 1 fault: the loop waits for the bridge while a poller sends to a full channel and a run holds the connection |
| `Editing` | do letters go where they belong, do the copies agree? | 625 | letters g, s (consonants), o, a (vowels), one plain key, two files, a new name, 2 windows, 6 key or button events (a click is two): a final consonant moves to the next syllable, a compound vowel is built and taken apart, a window is opened, edited, saved, closed |
| `AiStreamMutualWait`, `ShellTreeExpandedShown`, `EditingUnsavedIsKept` | counterexamples, section 7 | | the smallest sizes that show them |

The properties, beside one type invariant each (`TypeOK` of the server has a run
and a proof of its own; elsewhere it is the first conjunct of the invariant named
first):

* server: `LifecycleOrder`, `LogReplaysToStore`, `EventsAuthorised`,
  `TreeReachable`, `DeliveryExact`, `ImplementsFeed`;
* connection: `MappedIsOpen`, `PushedExactly`, `NamedRightly`,
  `RepliesInOrder`, and in the end `EventuallyServed`, `DisconnectDestroys`;
* AI client: `OwnAnswer`, `EventsAccounted`, `EveryCallReturns`;
* compositor: `MirrorTree`, `SeenIsShown`, `EventuallyShown`;
* confirmation: `GrantsReachServer`, `Consent`, `NoSecondQuestion`,
  `WorkspacesSurvive`, `EventuallySettled`;
* AI chat: `Coherent`, `HistoriesAnswerable`, `AnswerShown`, `InterruptEnds`;
* file tree: `TreeAgrees`, `Tracked`;
* processes: `Killable`, `NoGap`, `ConsoleEnds`, `LoopReturns`, `RunAnswered`;
* editing: `CliInRange`, `FocusedOnTop`, `MirrorAgrees`, `LettersAdd`,
  `BackspaceTakesBack`.

Some are narrower than one might wish, because the code is; the exceptions are
the disagreements of section 7.

* `NamedRightly` lets a name stand for any subscription that was opened under it,
  since a batch drained under the first may be written after the second began.
  `RepliesInOrder` speaks of a client that is there; `DisconnectDestroys` and the
  answers of `EventuallyServed` except a frame over the size limit.
* `TreeReachable`: a walk from the roots through the children finds every
  registered object, and no listing names one twice; an object may be found on
  several ways.
* `EventuallyShown` speaks of objects mounted once the type is subscribed to.
* `EveryCallReturns` excepts a client and a server that write to each other with
  both sockets full (`MutualWait`).
* `Consent` asks for trust in every path an operation touches, as ".." resolves; where a
  name is more than one component below its folder, in the folder or the renamed
  object only (`Vetted`).
* `LoopReturns`, `ConsoleEnds` and `RunAnswered` except a one-shot run whose pipes
  are kept for ever by a process it left behind (`Held`).
* `NoSecondQuestion` leaves out deletes and commands, which ask every time.
* `AnswerShown` speaks of messages that met no other; `InterruptEnds` of the
  message that holds the lock, and leaves out the wait of section 7; `Coherent`
  looks at the mode while the main loop does not wait for the lock.
* `Tracked` excepts a path for which `drift` holds a reason: a change by another
  program on a marked path, a change while the folder was not watched, an object
  left behind by the folder above it or put under another than the folder of its
  path, a path at which the AI deleted an object, and a folder that was never read.
* `Killable` excepts streams whose start or kill itself failed; `NoGap`
  says that the lines of a pipe on the screen are consecutive; they begin with the
  first while the ring of 500 has not dropped any.
* `LettersAdd` and `BackspaceTakesBack` speak of steps with nothing selected, or
  only the syllable being composed, and of no selection in an editor that was
  dragged back to where it began. The run's bound does not reach the last case,
  which takes eight events: it came up when the theorem was attempted, and TLC
  shows it at `MaxEvents` = 8 with the letters g and a and one window (section 7).

Deadlock checking is off where a bounded behaviour ends: clients stop sending,
connections close, all calls and keys are used up. The liveness properties are
what rules out that a run ends early.

## 5. Fairness

Only what the code schedules itself is fair; clients, users and the environment
are never obliged to act.

* `Connection`: weak fairness of the read loop, the push task and the abort of
  the push task, as tokio polls a task that is ready. The push task's sleep is a
  fixed interval. tokio's mutex queues its waiters, so each task gets the writer lock in turn.
* `WireClient`: weak fairness of the timeout (the wait for an answer is wrapped in
  `tokio::time::timeout`), of a write that has room or fails, and of the server's
  read loop. Nothing is assumed of what the server answers, of its push task, or of
  the client's reading before the deadline.
* `CompositorClient`: weak fairness of the server's read loop, its push task and
  the client.
* `Confirmation`: weak fairness of `Handle`: the main loop keeps reading. No
  fairness of users or clients. Handlers that wait on the chat session's lock are
  outside this module.

* `AiStream`: weak fairness of the main loop together with the tasks and the
  service (`Loop \/ Own \/ Posted`): the runtime runs a task that is ready, which
  one it does not say; a request is answered or refused, but an answer need never
  be finished, and no user has to type.
* `Processes`: strong fairness of each caller's `Take`, the mutex of the bridge
  connection: it is a `std` mutex, which does not queue, but a poller sleeps
  100 ms between its calls, so the mutex is free again and again and waiters get
  it. Weak fairness of the bridge's answers, of the end of a one-shot child (it
  exits or its deadline kills it) and of the reading of its pipes once nobody
  writes to them, of the tasks' sends and polls and of the main
  loop's arms. None of users, of the lines a process writes or of its end, nor of
  a process that a child left behind.
* `ShellTree` and `Editing` state safety only.

## 6. Proofs

Each `M_proofs` module proves, for every value of the constants of `M` (any sets
of actors, objects, names, files, any bounds and capacities), that the
specification implies a property the runs check (`Desktop_proofs` does so for
`Editing` and for `ShellTree`, in a part for each; they share no state):

| Module | Theorems |
|---|---|
| `ObjectServer_proofs` | `TypeCorrect` (`TypeOK`), `LifecycleCorrect` (`LifecycleOrder`), `AuthorityCorrect` (`EventsAuthorised`), `ReplayCorrect` (`LogReplaysToStore`), `TreeCorrect` (`TreeReachable`), `DeliveryCorrect` (`DeliveryExact`), `FeedCorrect` (`ImplementsFeed`) |
| `Connection_proofs` | `MappedCorrect` (`MappedIsOpen`), `NamedCorrect` (`NamedRightly`), `PushedCorrect` (`PushedExactly`), `RepliesCorrect` (`RepliesInOrder`) |
| `WireClient_proofs` | `OwnAnswerCorrect` (`OwnAnswer`), `EventsCorrect` (`EventsAccounted`) |
| `CompositorClient_proofs` | `MirrorTreeCorrect` (`MirrorTree`), `SeenIsShownCorrect` (`SeenIsShown`) |
| `Confirmation_proofs` | `GrantsCorrect` (`GrantsReachServer`), `WorkspacesCorrect` (`WorkspacesSurvive`), `ConsentCorrect` (`Consent`), `QuestionCorrect` (`NoSecondQuestion`) |
| `AiStream_proofs` | `CoherentCorrect` (`Coherent`), `HistoriesCorrect` (`HistoriesAnswerable`), `AnswerCorrect` (`AnswerShown`) |
| `Processes_proofs` | `KillableCorrect` (`Killable`), `NoGapCorrect` (`NoGap`) |
| `Desktop_proofs` | of `Editing`: `CliInRangeCorrect` (`CliInRange`), `FocusedOnTopCorrect` (`FocusedOnTop`), `MirrorAgreesCorrect` (`MirrorAgrees`), `LettersAddCorrect` (`LettersAdd`), `BackspaceTakesBackCorrect` (`BackspaceTakesBack`); of `ShellTree`: `TreeAgreesCorrect` (`TreeAgrees`), `TrackedCorrect` (`Tracked`) |

All are about `Spec` (`TreeSpec`) without fairness. Type correctness is part of each (the
first conjunct of the invariant named first in section 4).

### Assumptions

They are the named ASSUMEs of the modules; TLC evaluates them on every run.
Most say that a bound is a number, a capacity at least 1, and that `Null`, `None`
and the like lie outside the values they stand beside. The others:

* `Acl`, `ObjectServer`: the prefix relation is reflexive; what a client mounts is
  no tombstone, lists each child once and is neither its own child nor its own
  parent. `CompositorClient`: no object is its own parent.
* `Connection`: the server numbers subscriptions from 1 (`Subs`).
* `Confirmation`: each request carries the arguments its method reads
  (`Complete`); a request that lacks them is refused by the code before anything
  is modelled.
* `Processes`: callers of the bridge are told apart, and a console's own notices
  stand under no pipe. `Editing`: letters are not plain keys, there is a file, and
  the name the rename box offers is not yet taken.
* `ShellTree`: finitely many names. A directory holds finitely many files.

### The arguments

**ObjectServer.** `TypeOK` alone is not inductive: a disconnect in progress emits
events for ids that `sweeping` names, so one needs `SweepOK` (they are registered
and belong to the actor), and `mount_with_descendants` stores what `grafting`
names, so one needs `GraftOK` (not registered yet, distinct). `Shape` is the
three together. `StepKinds` then shows that every step of the server is one of
four kinds: silent, opening a subscription, serving one (drain, unsubscribe), or
*speaking* (one event appended, one object changed); the later proofs split on
these kinds and not on the actions. `LifecycleOrder` needs `Recorded`, that the
store remembers what the log says (a created id is registered, a destroyed one
is a tombstone), because the guards look at the store and the property at the
log; `LogInv` is both with `Shape`. On it rest `AuthInv` (with `GrantsOK`, no
actor holds a grant it cannot be given: an event stays licensed when the grant it
used is withdrawn), `ReplayInv` (with `Buried`, the converse of `Recorded` for
tombstones, and per key that the store holds what its last StateSet says) and
`FeedInv`. The last is for `DeliveryExact`: the type an event is matched against
is that of the store now, and a type filter must not change its mind, and
`CursorOK` says that cursors lie within the log. `TreeInv` needs `Awaited`, that
what `mount_with_descendants` has still to store is listed already.
`ImplementsFeed` adds `Unopened`, subscriptions are numbered as they come, and
then takes each kind of step to a step of `EventFeed` or to none.

**Connection.** Nearly every step is *dull* to the subscriptions. `Books` says that
the map, what the read loop has in hand and the server agree; `Named` carries a
name through the push task's round and batch to the wire; `PushInv` says, per
subscription, wire then batch are what was handed out, and needs that cursors are
past it (`Behind`). For the replies the steps are put into five *turns* (send,
take, answer, greet, or none), and `Conversation` counts: a reply's place among
the replies is its place among the frames asked. The place is a cardinality, so
the lemmas are about sets of positions that gain a last element or lose the first.

**WireClient.** `OwnInv` is the property with types, since a call looks at the
request id. `EventInv` says where every event pushed is, and that those still in
the stream come after all taken.

**CompositorClient.** `Startup` keeps the start-up in lock step: at most one
request or answer, the one the stage is waiting for. `Once` bounds the
announcements, Gets and answers about an object to one on the way, so it enters the
mirror once and is subscribed to once. `InPlace` then puts an object under its
parent, or in the orphans while the parent can still come. For `SeenIsShown` a
value is followed from the server's queue over batch and socket to the mirror:
the last mention of the object on that chain is its value (`UpToDate`), the
mirror shows it when nothing is on the chain (`Shows`), and an object that was
destroyed does not come back (`Doomed`).

**Confirmation.** `OpsOK` relates what is pending, what each dialog asked and the
file objects. `Reaching` is grants at the server; `SavedOK` relates file, memory
and the user's last word; `DialogsOK` says which dialogs can still be answered for
the first time, and `SessionOK` that every directory open in this run goes back
to a word of the user that still stood. The evidence for what was carried out is
then shown to stay evidence as the user says more. `Norm` is a recursive function;
that it exists, is determined by its equation and depends on a prefix of its
argument only follows by looking at the smallest number where it would not, so
no induction is needed, and with it that a path that ends in a plain name lies
below what its folder lies below (where a rename leaves the object).

**AiStream.** `HistOK` says that histories in memory, on disk and in a task are
conversations, those of a task at its tools with a round open. `OrderOK` orders
the pieces of text over the four places they may be (shown, buffer, channel, the
task's outbox), by which nothing is shown twice. `Alone` follows a message that
met no other: it is running, ending, or all of it was shown.

**Processes.** `ReachInv` ties the stream map, REGISTRY, the callers of the bridge
and the consoles to each other through every fault. `GapInv` splits the line
numbers of a pipe at two points: up to `c` in console and channel, up to `d` in
the poller's hands, from there in the answer, in REGISTRY and unread in the pipe,
where a break loses the rest at most at the end.

**Editing.** `IInv` has four parts. `Ui`: cursor and anchor lie in the text of the
Cli and of the editor after every key (the anchor too, or a deletion would move the cursor out).
`Pipe` and `Mirrored` are the types of the channel to the shell and of the mirror.
`Shell` has what is left. In it the heights of windows are bounded, from which the
one raised last is highest (a bounded nonempty set of numbers has a largest
element, by the well-foundedness of Nat in the library), and `Agree` says, for each
field of a window, that the last news that mentions it says what the shell has, or
that no news mentions it and the mirror shows it.

`LettersAdd` and `BackspaceTakesBack` compare texts by their letters, which
`FlattenSeq` strings together by a recursive function. That function exists for
every text (`FlattenExists`): the shortest text without one would be a text that
has one with a character behind it, so no induction is needed. A text is taken as what lies before
and after its cursor (`Split`); `EditorTakes` and its neighbours say what each
edit does to the two parts. `JamoAdds` is the automaton's own fact: what it
commits, followed by what it goes on composing, is the syllable with the letter
behind it, whichever of its branches is taken. `UndoTakes` is the same for
Backspace, and holds only of a syllable with at most one initial consonant and a
final one only behind a vowel: `Syllabic`, an invariant of its own
(`ProperHolds`). The two theorems then put editor and Cli over the automaton.

**ShellTree.** What the tree shows is compared with the disk only when the
watcher's queue is empty; the invariant has to say what is true before, when
other programs, the user and the AI have changed the disk in ways not yet told.
`TreeInv` says it path by path. For a path that is not excused in a folder that is
watched (`Followed`): the last event left about it says whether it is there
(`Latest`); if it is there, is not mentioned in the drain being handled and no
other program's event about it is to come, it is shown (`Lower`); and it is shown
at most once, with one object more for each removal still to be handled
(`Upper`), provided no removal of its folder is to come (`Calm`), for a folder that
is removed and made again is mounted twice for a while. With the queue empty the
three leave exactly one object for a file and none for a path without. The other
parts are what the handlers rely on: an
object that is not excused lies under the folder of its path (`Placed`), the
drive is mounted once and is nobody's child (`RootOne`), what is watched is a
folder (`WatchedFolders`), while a drain is handled the shell itself changes
nothing (`Order`), a dialog asks about no drive (`AskedOK`), and before the drive is
watched there are no events about it and no name is shown twice (`Unwatched`).

Each operation is put as a step of the disk (`DiskStep`: which paths come and go,
and which event tells of each) and a step of the tree (`TreeStep`: which objects
leave and come). That operations of the shell keep the invariant follows from
the two (`OwnStep`, `OwnTree`); handling an event, draining and reading a folder
have arguments of their own.

Two of the exceptions were found by the attempt to prove `Tracked`, and TLC then
gave the counterexamples, which need two names in a folder or a request allowed
while a dialog is open (section 7, *Files*): `Misplaced` and the paths in `Places`.
### Only model-checked

* Liveness: `EventuallyServed`, `DisconnectDestroys`, `EveryCallReturns`,
  `EventuallyShown`, `EventuallySettled`, `InterruptEnds`, `LoopReturns`,
  `ConsoleEnds`, `RunAnswered`. Liveness under fairness is out of the prover's
  reach.

## 7. Where the code and its documents disagree

With a run:

* **The main loop and the AI wait for each other** (`AiStreamMutualWait`).
  `main.rs:1655`: `/ai exit`, like `/ai start` and `/ai load`, awaits the chat
  session's lock in the main loop. A message holds the lock until its answer is
  complete, and sends its events to a channel of 256 that only the main loop
  empties. If the answer has more events to come than the channel has room, both
  wait for ever. `docs/known-issues.md:582` (KI-020) takes the wait to last until
  the answer arrives and all else to go on meanwhile.
* **An unread folder taken for read** (`ShellTreeExpandedShown`).
  `handlers/mod.rs:337` reads a folder when its list of children is empty. A file
  the AI creates in a mounted, unread folder fills the list, and the files that
  were there before are never shown; the comment at `main.rs:185` says a later
  expand includes them.
* **Unsaved text is closed** (`EditingUnsavedIsKept`).
  `window_methods.rs:153`: the shell refuses to close a window whose `dirty` is
  true, as its comment (146) and `docs/manual-tests/m9-acceptance.md:21` say, but
  its own copy of `dirty` is never true: the VM compositor does not send it, and
  what the other compositor sends goes to the server and not to the shell.

Without a run, in the modules' terms. Server, connection and clients:

* Oversized frame: `server-host/src/connection.rs:87` returns out of the read
  loop; the push task is not aborted and the actor not disconnected, so its
  objects stay alive, where `core/src/object/mod.rs:45` says a disconnect sets
  the flag (phase `left` of `Connection`).
* Deadline: the timeout of a call (`wire.rs:124`) begins after `write_all`
  (`:106`). A server that still writes the answer to a call that timed out, to a
  client that is writing its next request, waits with it for ever once both sockets
  are full; `docs/known-issues.md:286` (KI-032) has the whole loop under the
  deadline (`MutualWait` of `WireClient`).
* Drain: `ai-bridge/src/wire.rs:119` throws away events that arrive while a
  request waits; line 244 says drain collects all that arrived. `drain` takes
  events of every subscription, whichever it was asked for.
* Mount during startup: an object mounted between the query of its type and the
  subscription to it is never shown (`server_client.rs:138`;
  `docs/known-issues.md:388` says otherwise). A change between the compositor's
  Get and its Subscribe is in neither.
* Ghosts: a GetResult that arrives after the Destroyed event brings the object
  back for a while; the comment at `server_client.rs:245` says interleaving is
  impossible.
* Frames held back: frames that came in with the last one of startup wait until
  more bytes arrive (`server_client.rs:163`).

Permission and grants:

* Names: `create_file`, `create_folder` and `rename` take a name as it is sent
  (`fs_methods.rs:207`, `:234`, `:586`) and join it to the folder
  (`folder_ops.rs:19`, `:58`, `:107`, `file_ops.rs:20`), while only the folder, or the
  folder of the renamed object, is compared with the granted directories. A name
  that is absolute or holds ".." therefore ends up outside of a trusted folder
  without a dialog, and the object is mounted under it; an approved rename opens
  the folder it ends up in. The comment at
  `granted_dirs.rs:14` has a path that leads out meet a dialog, and the explorer's own
  operations refuse such names (`is_safe_leaf_name`, `explorer_methods.rs:271`, with
  its tests). `Confirmation` takes names raw, and `Consent` excepts them (`Vetted`).
* Removal by spelling: a workspace is compared by what its path resolves to, and
  removed only as it was written (`granted_dirs.rs:245`): `/workspace remove /e`
  leaves one that was added as `/c/../e`.
* Revocation: `/workspace remove` (`main.rs:1805`) withdraws the shell's own entry
  at the server, while an approval had made one for the AI; `granted_dirs.rs:245`
  says local and wire at once.
* `write_external`, `delete_external` and `rename_external` look at the granted
  directories before they look whether the path is in the working directory, so
  inside a granted working directory they run, where their comments say such
  paths are refused (`external_methods.rs:280`). `Confirmation` models this
  order.
* `permission.rs:57` says deletes in a workspace are not asked about;
  `handle_delete` always asks.
* Renaming a file on a host drive works out the new path with the standard
  library's parent, which is empty for such a path. `create_file` checks for an
  existing file on the VM's side only, so on a host path it truncates one.

The AI chat:

* A failed `/ai start` or `/ai load` while an older session is open sets the mode
  to ai and the session's name to the one that failed.
* `/ai load` reads the file before it waits for the lock: the exchange that
  finishes meanwhile is lost by the next save. `/ai start` with the name of a
  saved session overwrites it.
* A second message while the first streams overwrites the buffer, the target and
  the cancel flag (`overlapped` in the model): its predecessor can no longer be
  interrupted and its text is cut.
* A request that the service refuses in a later turn sends no stream event, and
  the streaming mark on the screen stays.
* An interrupt before any text leaves an assistant message without content in the
  history.

Files:

* After the AI's approved delete the object stays as a tombstone and the
  watcher's event is taken for an echo: a file made later at that path is not
  shown. An approval after a rename marks the renamed object.
* Renaming a folder changes its own path and not those of the objects in it; the
  next rename leaves them behind. If the user then renames one of them, the new
  object stays under the renamed folder although its path is in the old one: a
  folder made there later does not list it (`rename_selected`, `Misplaced`).
* A dialog keeps the path its object had when it was asked (`dialog_ops.rs`,
  `PendingFs::Rename`). If the AI renames the object meanwhile in a granted
  directory and the old path is taken again, the approval renames the newcomer on
  disk and moves the first object in the tree.
* What the explorer creates is said to have been changed by "ai"; explorer
  operations leave no echo mark, and a mark that expired relabels the shell's own
  operation as external.

Processes:

* `exec` reads its pipes only after the child has exited: a command that writes
  more than a pipe holds blocks until the deadline kills it, where ADR-039:44
  calls its output unlimited.
* A console that was killed says "error", where `exec.rs:212` has "terminated";
  lines still in the pipe when the process exits, or unread when it is killed,
  are lost.
* A break of the connection ends a console as an error while the process runs
  on; a start whose answer is lost leaves a process nobody knows; a failed kill
  has already dropped the mapping. These are `lost`, or the exceptions of
  `ConsoleEnds`.
* An entry of REGISTRY is never removed when its process exits by itself. A
  refused run overwrites only part of the `last_*` states; concurrent runs
  overwrite each other's. `ProcessRegistry` is never filled.
* The bridge client has no read timeout, and the main loop waits behind a
  one-shot command until that is answered. `exec`'s comment (`exec.rs:89`) says a
  command that exceeds its time is killed and reported, but once the child has exited
  its pipes are read to their end without a deadline (`exec.rs:109`): a process it
  left behind, as `npm.cmd` leaves one (`exec.rs:212`), keeps the run, the connection
  and the main loop that waits for it (`Held` in `Processes`).
* A bridge that crashes, whose `taskkill` fails, or that does not run on Windows
  (`exec.rs:274`) leaves its streamed processes running, known to nobody, where
  `exec.rs:260` says all are killed (`lost`).
* A reader thread stops for good at the first line that is not UTF-8
  (`exec.rs:157`, `:169`): later lines are not shown, and the process may block on a
  full pipe.

Windows and typing:

* A click leaves an empty selection behind, and typing a letter does not clear
  it: the second letter replaces the first. In an editor, a click at the end,
  Backspace and one more key slice the text out of its range (`crashed`).
* A selection dragged back to where it began is empty, but its anchor stays
  (`editor.rs:33`, `:50`). If the syllable being composed lies before it, the next
  letter takes that syllable away first (`geulos-vm-compositor.rs:965`): the anchor
  is then one past the cursor, and the letter replaces the character between them.
* Closing a window leaves its editor and the keyboard focus with it, though the
  comment in `geulos-vm-compositor.rs` has the focus fall back to the Cli; leaving
  an editor discards its text.
* A syllable that is being composed in the Cli is dropped by a click on a window.
  Typing while a drag goes on breaks the composition.
* The rename box renames whatever is selected when Enter is pressed. A rename
  makes a new File object: a window open on the file keeps the old identifier and
  its saves come to nothing.
* Backspace on a compound vowel without a consonant takes both parts, where
  `hangul.rs:422` says one step.
* Opening a file takes the focus from other Windows, not from consoles or the
  File Manager.

## 8. What is not modelled

Left for later (section 2): what the AI's tools do at the server and the one-shot
session (`tools.rs`, `session.rs`), the acknowledgements of the shell's startup,
init, bootstrap and launcher, the frame codec and the SSE parser. Within the
modelled components: a socket that fills up (but for the AI client's), what is left in the server's
subscription table after a disconnect, `read` and `read_external` in the shell, a
torn `workspaces.json` or session file, the order of the arms within one
`select!` of the main loop, minimising, resizing and scrolling windows, the
launcher, the explorer's view settings, and the winit compositor's event loop
(the VM's is modelled).

Not at all: drawing, layout and hit tests (`render.rs`, `layout.rs`), device back
ends of the VM, HTTP to the language model, the bridge's plain file operations,
configuration files, the constructors of `std_types.rs`, the sample applications
and `geulosh`, which have no state whose order could go wrong or use the same
client code as what is modelled.
