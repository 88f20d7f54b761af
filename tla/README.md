# A TLA+ model of logos-chat-module

This directory models the Rust module under `src/rust-lib`: what it keeps, which
threads touch it, what it asks of libchat and of delivery_module, and what may go
wrong in between. TLC checks the modules on small instances; TLAPS proves the
central invariants for every value of the constants. `PROJECT.json` lists the
components, runs, mutants, hazards, findings and theorems, and maps each
definition to the lines it models.

## The system

| Part | State | Operations | Threads |
|---|---|---|---|
| conversation list (`actions.rs`, `module.rs`, `persistence.rs`) | `Display.state` (chats, tombstones), the connection to `chat.db`, its tables `chats`, `deleted_chats` and the message store | create (direct, group), add member, send, nickname, delete, list, read, load at init, reset at shutdown | the callers of the contract; the event consumer |
| lifecycle (`lib.rs`, `actions.rs`) | `ModuleHandle`: the installed `ModuleState`, or none | `init`, `shutdown` | callers |
| event consumer (`inbound.rs`) | the client's event queue | `record_conversation_started`, `record_message_received`, `record_members_changed` | one per session |
| delivery bootstrap (`actions.rs`) | `Display.delivery_state` and the events that announce it, `OWN_NODE_PRESET` | createNode, getNodeInfo, start and their callbacks; retry by a second `init` | SDK callbacks |
| bridge worker (`inbound.rs`) | three subscriptions the host may disconnect, the queue of topics | one loop: receive, drain nodeStarted, drain connectionStateChanged, forward topics, leave | one per session |
| message dedupe (`inbound.rs`) | `SeenMessages` | `forward_message` | the bridge |
| identity (`actions.rs`) | installation name, address | `set_installation_name`, getters | callers |
| run log (`logging.rs`), panic hook (`panic_hook.rs`) | the log file, its rotations, the directory of runs | open, prune, append, rotate, the line of a panic | every thread |
| libchat client, delivery_module | external | | their own |

**How the parts interact.** Two locks: the module lock guards the client, the
display lock guards the list, its database and the delivery state. No operation
holds both, except `init`, which keeps the module lock until it has seeded the
display. So `create_conversation` or `send_message` is two or three separate
critical sections, and every other thread may run between them. `shutdown` takes
the `ModuleState` out of the handle, releases the lock, joins the bridge, drops
the client, joins the event consumer, and only then resets the display. The
bootstrap's callbacks run on SDK threads, hold no reference to the session that
started them, and write into whatever display there is.

**What is hard.** Operations cut in two by the locks; events still queued when a
shutdown begins; callbacks that outlive their session; a retry beside an
unanswered call; a node shared with other consumers; the order of events of two
subscriptions, and a subscription that disconnects under the bridge; failed writes
that leave memory ahead of the database; a crash between two writes; the dedupe
memory at its limit; a rotation cut in two by a failure or a death; a panic in the
thread that holds the log; two runs with one stamp. The list with its lines is
under `hazards` in `PROJECT.json`.

**What makes it correct.** A deleted conversation stays deleted; what was
surfaced is in `chat.db`; the list, the database and the client agree; shutdown
ends; `online` means a node that runs, and the event said so; no subscription is
lost; every `init` is settled; repeats are dropped and new messages are not; the
recent runs' logs read back whole, and a panic never hangs the process.

## Modules

### ChatHistory

The display, `chat.db`, the clients of successive sessions, their event queues
and the callers. `Callers` are threads inside the contract's methods,
`Controllers` those that also call `init` and `shutdown`. `call[p]` says where
caller `p` is and holds the locals of its call.

| Code | Actions |
|---|---|
| `initialize` | `init_load`, then `init_seed` or `init_fail`; the module lock is held in between (`ModuleLockFree`) |
| `shutdown` | `shutdown_take`, `shutdown_drop`, `shutdown_reset` (guarded by `consumer_ended`) |
| `create_conversation`, `create_group_conversation` | `create_client` under the module lock, `create_record` under the display lock |
| `send_message` | `send_message_check`, `send_message_client`, `send_message_record` |
| `add_group_member` | `add_group_member_check`, `add_group_member_client` |
| `set_conversation_nickname`, `delete_conversation`, `set_installation_name` | one action each |
| `list_conversations`, `get_messages`, the installation name in the status | operators over the display: `list_conversations`, `message_count`, `get_messages`, `shown_name` |
| `run_events` | `fetch_metadata`, `record_conversation_started`, `record_message_received`, `record_members_changed` |
| `panic = "abort"`, a kill | `crash`: everything but `chat.db` is gone |

A call that is refused (not found, history only, not initialised, an error of the
client) changes nothing and is no action, unless an earlier step of it already
happened. A message is a number. A row keeps the kind, the nickname, and whether
the group's name and the direct chat's peer are known; description, timestamps,
contents and previews are left out. A write, or the read of a held group's metadata,
may fail (`Outcomes`): the code goes on as it does after a `rusqlite` error or without
the name. libchat is external: a session's client
starts empty (`LIBCHAT_PERSISTENCE_ENABLED` is off), gives out fresh ids, and
queues an event for what peers do. A group invites an installation it does not
hold; that may be a group of an earlier session. Peers know an installation's
address only once the display shows it, so no event precedes `init_seed`. The
address, which never changes within a session, is left out.

### ConversationArchive

What the list promises somebody who only reads it: an archive on disk and, while
it is open, a view of it. Messages enter at the end and once, a delete removes a
conversation from both for good, closing or crashing loses the view only, and
opening shows the newest stored messages. There are no threads, clients, queues or
halves of operations. `ChatHistory` implements it (`ImplementsArchive`) under this
mapping: the archive is `db_chats`, `db_messages` and `db_deleted`, it is open when
`chat_db` is, and the view is what `list_conversations` and `get_messages` return.
While the archive is open a view only grows until its conversation is deleted
(`Start` lists one that was not listed), with one exception the specification states:
`Supersede`. A conversation whose create is between its halves is `claimed` (`Claim`),
and the end of the create shows it empty although a message handled in between may
have been shown; that message stays in the archive. Without `Supersede` TLC finds the
refinement violated by `create_record`, against "Append-only render log"
(`persistence.rs:105`). `Archive!Open` is the step `init_seed`, not `init_load`: what `init` has read must
still be what the archive holds when the display shows it. The mapping holds for
one caller; two callers break it in the ways the violated runs show.

### DeliveryBootstrap

The delivery state, the bootstraps in flight (`boot`), the bridge's loop, and the
node of delivery_module with its other consumers. `told` is the last
`delivery_state_changed` event. Each callback is an action
enabled by delivery's answer; those of createNode and getNodeInfo go on to
`start_node`, an action of its own because it takes the display lock again. A bootstrap stays in `boot` across a shutdown, as
the callbacks do. The node is external: it exists at most once, nobody stops it,
it refuses a second createNode, reports every start to every subscriber, and on a
running node reports before it answers. `AnswersLost` lets a call fail after
delivery has carried it out (an IPC timeout). `Cuttable` names the subscriptions
the host may refuse or disconnect (`disconnects`): a drain that finds its channel
disconnected goes on without it, while a disconnected `messageReceived` makes the
worker leave (`leaves`), and what was queued for it is dropped. The text of
`detail` is left out: it only decides whether an unchanged state is announced
again, and that announcement carries the same state, so both outcomes are allowed.
One thread calls `init` and `shutdown` here; two of them are the subject of
ChatHistory.

### SeenMessages

`forward_message` with the topic filter and the bounded memory of hashes, as a
set and a queue. delivery_module may deliver any message at any time, any number
of times. A repeat passes only when SEEN_CAPACITY others or more were forwarded since
(`ForwardWindow`); exactly that many are enough.

### RunLog

The instance directory, the processes that follow one another in it, and the
threads of the current one. A file is a stamp and an ordinal: ordinal 0 is the
announced `<stem>_<stamp>.log`, the others are its rotations. Its content is the
numbers of the records written to it, one entry per line of the record.

| Code | Actions |
|---|---|
| `install_once`, `RunLog::open` | `open_file`, `open_fails`, `prune_runs` |
| `RunLog::write`, `OpenLog::append` | `write` takes the lock; `append` or `append_fails` |
| `OpenLog::rotate` | `rename` or `rename_fails`, then `create` or `create_fails` |
| the panic hook, `write_stamped` | `panics`, `write_line` (`try_lock`), `abort` |
| the end of the process | `exit` |

The steps under the lock are separate because the process may die between them.
Each file operation may fail (`MaxFaults`); a prune may also find the directory or a
part of it unreadable, and then acts on what it has seen. `missed` are the runs of
which the prune of the current process left a file in that way, or could not remove
one. An open file follows its name through
a rename and outlives its removal, as on Unix (`handle`, `file`). A process that
starts in the second of an earlier one appends to its file. Levels, filters and
the format of a line are left out.

### The others

`MC*.tla` instantiate the specifications for TLC; `*_proofs.tla` hold the theorems.

## Runs

| Run | Result | Question |
|---|---|---|
| `history_single` | holds | One caller, crashes, one failing write or metadata read, two sessions: tombstones (`Tombstoned`), nothing surfaced is lost (`SurfacedKept`), no chat is live without a client behind it (`LiveIsHeld`), the name shown is the one stored (`NameKept`), and the list is an archive (`ImplementsArchive`). |
| `history_concurrent` | holds | Two callers: kinds, rows, counts and messages agree in memory and on disk (`KindAgrees`, `DiskMatchesMemory`), what the client holds gets listed (`HeldIsListed`), messages are only appended (`AppendOnly`). |
| `history_liveness` | holds | `shutdown` ends (`ShutdownTerminates`), decrypted messages are recorded (`EventsRecorded`). |
| `delivery_safety` | holds | Two inits or a retry, two presets, another consumer, `connectionStateChanged` refused or cut: `OnlineMeansRunning`, `TopicsNotLost`, `AdoptedHonest` in status and event, outcomes are announced (`OutcomeTold`), nothing looks up after a shutdown (`NotUpWhenDown`), no `init` is left waiting for nothing (`NeverStranded`). |
| `delivery_liveness` | holds | With answers that may be lost and `messageReceived` cut at any time: `Settles`, `TopicsForwarded`, `ShutdownEnds`. |
| `seen_messages` | holds | `HashesAreOrder`, `ForwardWindow`, `NothingLost` across several evictions. |
| `run_log` | holds | Four processes of two threads, panics, deaths and a failing operation anywhere: the files of recent runs give back every accepted record in order (`RecentRunsReadBack`), runs and files stay bounded (`RunsBounded`, `FilesBounded`), a panic ends the process (`PanicEnds`). |
| `history_group_name` | violated | A queued invitation handled after `shutdown` took the client is saved without the group's name. |
| `history_failed_create` | violated | After a create whose write failed, a confirmed message is gone at the next restart. |
| `history_two_controllers` | violated | One thread's `shutdown` wipes what another thread's `init` has seeded. |
| `delivery_reorder` | violated | A disconnect drained ahead of its `nodeStarted` is never shown. |
| `run_log_announced` | violated | After a rotation that renamed and could not create, the announced file does not exist. |

Each violated property quotes what the code's comments or the contract say; the
quotation and the line are under `findings`.

**Exceptions the passing properties make.**

- `DiskMatchesMemory` leaves out chats with a failed write (`unsaved`), which is what
  `history_failed_create` shows, and those a create replaced (`replaced`): the
  insert of a create is put over a session an inbound message has already started,
  and that message is then on disk and not in the list. `AppendOnly` leaves out the
  latter, `SurfacedKept` the former. `ImplementsArchive` allows the same replacement
  as the archive's `Supersede`.
- `Tombstoned`, `LiveIsHeld`, `SurfacedKept` and `ImplementsArchive` are
  checked and proved for serialised calls. With two
  callers the second half of a create can put a chat back that was deleted after
  its first inbound event listed it (set `Callers = {u, v}` in
  `ChatHistorySingle.cfg`), and a `shutdown` and an `init` between the halves of a create
  or a send leave the second half with another session's list. The other invariants of
  ChatHistory are proved for any number of callers of which one calls `init` and
  `shutdown`; with two such threads `init` may, for instance, seed a list that another
  thread has changed since it was read.
- `AdoptedHonest` leaves out overlapping bootstraps and is checked and proved with
  `AnswersLost = FALSE`: when createNode's success is lost, `OWN_NODE_PRESET` is not
  set and the module's own node is reported as adopted. `overlap` says whether a
  bootstrap has begun beside unanswered calls of another since the display was
  seeded or reset, or such calls were left over from an earlier session at that
  moment: what a late callback writes before the seeding or the reset is overwritten
  by it, what it writes afterwards stays.
- `OutcomeTold` speaks of `online` and `error` while the module is up. `shutdown`
  resets the state without an event, although the contract lists `stopped` among
  the states of `delivery_state_changed` (`chat_module.lidl:220`).
- `NotUpWhenDown` says less than "the state is as `shutdown` left it": a late
  callback may leave `starting` set or the state at `error`.
- `Settles` and `TopicsForwarded` leave out a bridge that has lost the subscription
  it needs, and so does `NeverStranded`. Without `nodeStarted` or without its worker
  the module stays `initialising`, and a second `init` is ignored, since it retries
  only from `error` and only before the node has started.
- `NeverStranded` and `Settles` say that an `init` comes to an outcome, not that it is
  its own: a failed start of another consumer, reported while this module waits,
  settles the wait as `error`. The events carry nothing that would tell them apart.
- `RecentRunsReadBack` leaves out stamps that a second process took when they had
  rotations (`reused`): its rotations replace the first one's. It is checked with
  `ClockBack = FALSE`: when local time goes back, the run just opened may be the
  oldest by name, and its own prune removes it, against the comment at
  `logging.rs:290`. 
- `RunsBounded` does not count runs of which the process's own prune missed a file
  (`missed`); what earlier prunes missed it does count, since each prune starts from
  the directory. Rotations past the third digit are never pruned; it counts the others.
- `FilesBounded` leaves out runs that share a stamp or had a rotation fail: the file
  then grows on until the next attempt.

**Bounds.** Two conversations (a direct one, a named group), two sessions, two
messages with `LoadedPerChat = 1`, so that a restart loads fewer messages than are
stored and a second restart reads what the first one wrote; queues of two, so that
an invitation and a message wait together; one failed write or metadata read. `history_concurrent`
gives one of two callers the lifecycle. `delivery_safety` has two inits or one and
a retry, two presets (interchangeable, hence the symmetry), one foreign start, and
one event waiting in each channel: a longer channel only delays what the next turn
of the loop drains. It cuts `connectionStateChanged`, since a cut `messageReceived`
ends the worker and leaves little to check; `delivery_liveness` cuts that one, with
one status and one session. `seen_messages` has a capacity of three, six hashes of
which five are chat's, and enough messages for a hash to be evicted and come back.
`run_log` has files of two lines and records of one or two, so that a record can
fill a file exactly or step over the limit; two runs kept of four stamps and four
processes, so that a prune has work after an earlier one has failed; ordinals
recognised up to one of two, so that a second rotation is past what a prune finds; two
records, one fault. `CHECK_DEADLOCK FALSE` is right
in all of them: a module nobody calls rests, and the bounds stop the counters.

**Fairness.** In ChatHistory: a call that has begun goes on, and the event
consumer handles what is queued; both are threads with nothing but the module lock
in their way. Nobody is made to call, invite or send. In DeliveryBootstrap: the
bridge and the callbacks run; delivery answers each call (the SDK's timeout at the
latest) and reports each start it accepted; a shutdown and an `init` under way go
on. The two drains get strong fairness: `drain` ends when its channel is empty at
the moment it looks, which happens unless events arrive as fast as the loop turns.
In RunLog: a thread inside a write or the hook goes on; nobody has to log, to
release a lock it panicked with, or to exit.

## Proofs

For every value of the constants, under the named assumptions of the modules. Some
theorems have a hypothesis of their own, a statement about the constants that the runs
of the same property satisfy:

| Hypothesis | Meaning | Needed because |
|---|---|---|
| `OneCaller` | the calls of the contract are serialised | another call runs between the halves of a create, a send or an init |
| `OneController` | any number of callers, one of which calls `init` and `shutdown` | a `shutdown` may reset the display a second thread's `init` has seeded (`history_two_controllers`) |
| `~AnswersLost` | no call of delivery fails after it was carried out | the module cannot know that the node it created is its own |
| `~ClockBack` | local time does not go back between two runs | a run just opened may be the oldest by name and be pruned |

**SeenMessages_proofs.** `TypeCorrect`, `SetAndQueueAgree`, `NoRepeatInWindow`,
`NoMessageLost`, for any capacity above zero. The inductive invariant ties the queue
to the tail of what was forwarded, since a window over the past cannot be read off
the set.

**DeliveryBootstrap_proofs.** `TypeCorrect`, `OnlineImpliesRunning`, `NoTopicLost`,
whether or not answers are lost. `OnlineMeansRunning` is not inductive: a success
waiting in the channel and `started`, which lets connectivity drive the state, have
to mean a running node too; no step takes a running node away.
`DownStaysDown` and `OutcomeIsTold` come from a second invariant, `SessionInv`: a
module that is down has no worker left (the join), and what was settled has been
told from the moment the state is installed, since a callback of an old bootstrap
may run before the new one begins. `AdoptionIsHonest` (`~AnswersLost`) needs two
more: `OwnInv`, that the node has a preset of this module exactly when
`OWN_NODE_PRESET` records it or the answer of the one createNode that succeeded is
still to be handled, and `AloneInv`, that without overlap one call at most is
unanswered, that it belongs to the current preset, and that the flag is right from
the moment a bootstrap has joined the node, which is before it waits for the start.
`InitIsNeverStranded`, whether or not answers are lost, rests on `WaitInv`: a module
that waits for a start has one that delivery has not accepted or whose answer will be
an error, or one under way, or a report in the channel; and one that is initialising
without waiting has a bootstrap that has not come to `start` yet. A start answered
with success is not enough, since its report may have been read before its answer, by
a wait that was then begun anew.

**ChatHistory_proofs.** `TypeCorrect` for any callers, and for one caller
`DeletedStaysDeleted`. Its strengthening says that tombstones name ids the client has given out (so a fresh id has none), that every listed, stored, queued
or held id was given out, that the id of a create in progress has no tombstone, and
that an init in progress holds what the database still says.

**ChatHistoryList_proofs** (`OneController`). `LifeInv` says where `init` and
`shutdown` may be and what the display and the clients are then: an `init` in
progress runs against a closed database nobody writes to, and conversations and
events belong to the session installed or being taken down. From it
`OpenWhenInitialised`, the guarantee whose failure with two controllers is a finding;
`NameSurvives`, since no name can be set between `init`'s reading and showing it; and
`ListMatchesDatabase`: `DiskInv` adds that the
database has no messages of a chat it has no row of, since a create or a first
message starts a chat with none. `RenderLogGrows` is the action property
`AppendOnly`, without any hypothesis.

**ChatHistoryHeld_proofs** (`OneController`). `HeldConversationsListed` and
`ListedKinds`. The second is the argument why the defensive "direct" row of
`record_message_received` never meets a group: the start of a group is queued, listed
or deleted before its first message, since a peer can send to it only after an
invitation by the peer or an `add_group_member` of this installation (`Announced`,
`HeldKnown`, `AddKnown`).

**ChatHistorySerial_proofs** (`OneCaller`). `LiveChatsHeld` and `ToldIsKept`. `SerialInv`
says what a call keeps between its halves: a create holds the conversation it is
about to insert, a send has its chat in the open list until it records the message,
and the events of the installed session are of conversations it holds.

**ChatHistoryArchive_proofs** (`OneCaller`). `ListIsAnArchive`: every step of
ChatHistory is a step of ConversationArchive or leaves its variables alone, under the
mapping above; `create_client` is a `Claim`, and the end of a create a `Start` or, over
what a message has listed, a `Supersede`. `FreshInv` is what the archive's "enters once" rests on: a message
that waits, as an event or with a send, is in no chat yet and waits in one place.

**RunLog_proofs.** For any threads, processes, records and failed operations.
`TypeCorrect` carries the lock discipline: the lock belongs to the thread inside
append or rotate, or to one that panicked there. `FilesAreBounded` rests on the count
being the length of the announced file while nobody rotates. `DirectoryIsBounded`
holds wherever processes died and whatever local time did: of the runs it saw whole, a
prune leaves those with fewer than KEEP_RUNS seen after them, KEEP_RUNS at most, and
any other run that is left has a file it did not see or could not remove and is in
`missed`. A rotation gives the announced name back, so the run of the process
counts also while it has no file of that name. `RecentRunsKept`
(`~ClockBack`) has four parts. `OrderInv`: later stamps were opened later, so the runs
found after a recent one are among those opened after it and a prune never takes it.
`OldInv`: everything written is older than the next record. `NamesInv`: the ordinals
of a run are at most its count of rotations, below it when a rename is due, and if
the file written to is a rotation, it is the last and the announced name is free, so
a rename replaces nothing, a create truncates nothing and an append goes to the end.
`ReadInv` is the property itself, per run.

Proving changed two history variables, no modelled behaviour. `overlap` is set anew
where the display is seeded and where it is reset: set at the subscriptions, it missed
a callback between the two, and with three sessions and three bootstraps
`AdoptedHonest` was false. `opened` of RunLog is now a function of the stamp, which the proofs can
reason about, where it was a sequence. `NoneAssumption` of ChatHistory also says that
`None` is no sequence of messages.

Only model-checked: the liveness properties `ShutdownTerminates`, `EventsRecorded`,
`Settles`, `TopicsForwarded`, `ShutdownEnds` and `PanicEnds`, since fairness and
`ENABLED` are beyond TLAPS as it is used here. Every invariant, action property and
refinement of a passing run is stated by a theorem.

## Not modelled

- The roster (`list_group_members` and the like): reads of the client that change
  nothing here. `publish`: fire and forget. Topic and label formatting.
- Which lines are logged and how they are formatted; the address of the
  installation.
- The contents of messages, the wording of errors and events, the generated
  scaffold, the documentation generator, the tests.

## Plan

1. Done: ChatHistory with identity, ConversationArchive and the refinement,
   DeliveryBootstrap with disconnected subscriptions and the announced state,
   SeenMessages, RunLog, their runs; theorems for every invariant, action property and
   refinement the passing runs check.
2. Next: under which conditions the statements of the violated runs do hold, as
   theorems: `AnnouncedIsWritten` for runs without a failed rotation, the group's name
   for invitations handled while the client is installed.
