----------------------------- MODULE ChatHistory -----------------------------
(***************************************************************************)
(* The conversation list of the chat module: the in-memory display, the    *)
(* `chat.db' behind it, the libchat client that owns the conversations of  *)
(* one session, and the threads that touch them.                           *)
(*                                                                         *)
(* The code has two locks.  The module lock guards the client; the display *)
(* lock guards the list and its database connection.  They are never held  *)
(* together by an operation, so an operation that needs both is two or     *)
(* three steps here, one for each time it takes a lock, and the other      *)
(* threads run in between.  `init' is the exception: it holds the module   *)
(* lock while it loads chat.db and until it has seeded the display.        *)
(*                                                                         *)
(* The threads are the Callers of the contract's methods and, for every    *)
(* session, the event consumer (inbound.rs, run_events).  The libchat      *)
(* client and the peers are external: they are modelled by the calls the   *)
(* code makes on them and by the events they put on the client's queue.    *)
(*                                                                         *)
(* A message is a number; a group's shared name and a direct               *)
(* conversation's peer are Booleans (known or not).                        *)
(***************************************************************************)
EXTENDS Naturals, FiniteSets, Sequences

CONSTANTS
    Callers,        \* threads that call the contract's methods
    Controllers,    \* the callers that also call init and shutdown
    Convos,         \* conversation ids
    Groups,         \* the ids of group conversations, the others are direct
    Named,          \* the groups created with a name
    Nicknames,      \* labels a user may set
    Names,          \* installation names a user may set
    None,           \* no chat, no nickname, no installation name
    LoadedPerChat,  \* LOADED_PER_CHAT: messages of a chat read back at init
    CanCrash,       \* whether the process may die
    MaxMsgs,        \* bound: messages of a behaviour
    MaxSessions,    \* bound: inits that get as far as building a client
    MaxQueue,       \* bound: events waiting in a session's queue
    MaxFaults       \* bound: failed writes to chat.db and reads of group metadata

Msgs == 1..MaxMsgs
Sessions == 1..MaxSessions

\* A row of the table `chats' (migrations/001_app_state.sql).
Row == [kind : {"direct", "group"}, nickname : Nicknames \cup {None},
        name : BOOLEAN, peer : BOOLEAN]

\* persistence::ChatSession.
ChatSession == [row : Row, messages : Seq(Msgs), older_messages : Nat,
                history_only : BOOLEAN]

\* The client events run_events handles.
Event == [type : {"ConversationStarted", "MessageReceived", "MembersChanged"},
          convo : Convos, msg : Msgs \cup {0}]

ASSUME ThreadsAssumption == Controllers \subseteq Callers
ASSUME ConvosAssumption == Named \subseteq Groups /\ Groups \subseteq Convos
ASSUME NoneAssumption ==
    None \notin ChatSession /\ None \notin Row /\ None \notin Seq(Msgs)
ASSUME BoundsAssumption ==
    /\ LoadedPerChat \in Nat \ {0}
    /\ MaxMsgs \in Nat /\ MaxSessions \in Nat /\ MaxQueue \in Nat /\ MaxFaults \in Nat
    /\ CanCrash \in BOOLEAN

VARIABLES
    \* Display (module.rs), under the display lock
    chats,          \* AppState.chats: a ChatSession, or None
    deleted,        \* AppState.deleted
    installation_name,  \* AppState.installation_name, or None
    chat_db,        \* whether the connection is open
    \* chat.db
    db_chats,       \* table chats: a Row, or None
    db_messages,    \* the message store, oldest first
    db_deleted,     \* table deleted_chats
    db_name,        \* table settings: 'installation_name', or None
    \* ModuleHandle (module.rs), under the module lock, and the libchat clients
    installed,      \* the session whose ModuleState is installed, 0 for none
    session,        \* the last session begun
    alive,          \* sessions whose client is not dropped
    held,           \* per session, the conversations its client holds
    peers,          \* conversations that have a member other than this one
    born,           \* ids the client has already given out
    \* the event consumer of each session
    events,         \* the client's event queue
    fetched,        \* group metadata read for the event at the head
    \* the callers
    call,           \* where each caller is in its call, and the call's locals
    loaded,         \* what the running init read from chat.db
    \* counters of the bounds
    nextMsg, faults,
    \* what has been told to the consumers of the module
    sent, received, \* conversations and messages of message_sent, message_received
    \* history, read by properties only
    unsaved,        \* conversations a failed write left out of chat.db
    replaced        \* conversations a create put over an existing session

display == <<chats, deleted, installation_name, chat_db>>
disk    == <<db_chats, db_messages, db_deleted, db_name>>
names   == <<installation_name, db_name>>
client  == <<installed, session, alive, held, peers, born>>
queues  == <<events, fetched>>
locals  == <<call, loaded>>
told    == <<sent, received>>
writes  == <<faults, unsaved>>
history == <<sent, received, faults, unsaved, replaced>>
vars    == <<chats, deleted, installation_name, chat_db,
             db_chats, db_messages, db_deleted, db_name, installed, session, alive, held, peers, born, events, fetched,
             call, loaded, nextMsg, faults, sent, received, unsaved, replaced>>

\* Where a caller can be inside a call; the locals are its conversation, its
\* message and the session a shutdown took out of the handle.
PC == {"idle", "init_seed", "shutdown_drop", "shutdown_reset", "create_record",
       "add_client", "send_client", "send_record"}
Locals == [pc : PC, convo : Convos \cup {None}, msg : Msgs \cup {0},
           taken : Sessions \cup {0}]
Idle == [pc |-> "idle", convo |-> None, msg |-> 0, taken |-> 0]

(***************************************************************************)
(* Initial state: nothing installed, an empty database, Display::default.  *)
(***************************************************************************)
NoChats == [c \in Convos |-> None]
Nothing == [chats |-> NoChats, deleted |-> {}, installation_name |-> None]

Init ==
    /\ chats = NoChats /\ deleted = {} /\ installation_name = None /\ chat_db = FALSE
    /\ db_chats = NoChats /\ db_name = None
    /\ db_messages = [c \in Convos |-> << >>]
    /\ db_deleted = {}
    /\ installed = 0 /\ session = 0 /\ alive = {}
    /\ held = [s \in Sessions |-> {}] /\ peers = {} /\ born = {}
    /\ events = [s \in Sessions |-> << >>]
    /\ fetched = [s \in Sessions |-> "unread"]
    /\ call = [p \in Callers |-> Idle]
    /\ loaded = Nothing
    /\ nextMsg = 1 /\ faults = 0
    /\ sent = {} /\ received = {} /\ unsaved = {} /\ replaced = {}

-----------------------------------------------------------------------------
(***************************************************************************)
(* Locks and writes                                                        *)
(***************************************************************************)

\* Nobody is inside install_with: the only step that keeps the module lock
\* while other threads run is init's.  shutdown has taken the ModuleState out
\* and released the lock before it joins the workers.
LockKeptByShutdown ==   \* mutant: shutdown joins the workers under the lock
    \A p \in Callers : call[p].pc \notin {"init_seed", "shutdown_drop", "shutdown_reset"}
ModuleLockFree == \A p \in Callers : call[p].pc # "init_seed"

\* with_state_mut and take find a ModuleState.
StateAssumed == TRUE    \* mutant: the Option is not examined
StateInstalled == installed # 0

\* The possible outcomes of a write to chat.db, or of a read of the client, that
\* is attempted when `tries' holds: TRUE when it succeeds.  It fails at most
\* MaxFaults times.
Outcomes(tries) ==
    IF ~tries THEN {FALSE} ELSE IF faults < MaxFaults THEN BOOLEAN ELSE {TRUE}

\* The bookkeeping of one write to conversation c.
Wrote(c, tries, saved) ==
    /\ faults' = IF tries /\ ~saved THEN faults + 1 ELSE faults
    /\ unsaved' = IF tries /\ ~saved THEN unsaved \cup {c} ELSE unsaved

\* persistence::save_chat: insert the row or replace what it held.
save_chat(table, c, row, saved) ==
    IF saved THEN [table EXCEPT ![c] = row] ELSE table

\* MessageStore::record, in the transaction of persistence::record_message.
store_message(table, c, m, saved) ==
    IF saved THEN [table EXCEPT ![c] = Append(@, m)] ELSE table

\* A session no message has been recorded in yet.
Fresh(row) == [row |-> row, messages |-> << >>, older_messages |-> 0,
               history_only |-> FALSE]

Push(chat, m) == [chat EXCEPT !.messages = Append(@, m)]

kind_of(c) == IF c \in Groups THEN "group" ELSE "direct"

\* Steps of a caller's program counter: enter a call on conversation c, go on
\* to its next step, return.
Enter(p, label, c) == call' = [call EXCEPT ![p] = [Idle EXCEPT !.pc = label, !.convo = c]]
Goto(p, label) == call' = [call EXCEPT ![p] = [@ EXCEPT !.pc = label]]
Return(p) == call' = [call EXCEPT ![p] = Idle]

-----------------------------------------------------------------------------
(***************************************************************************)
(* init and shutdown                                                       *)
(***************************************************************************)

\* How many messages of a chat init does not read back, and those it does.
older(stored) ==
    IF Len(stored) > LoadedPerChat THEN Len(stored) - LoadedPerChat ELSE 0
OldestLoaded(stored) ==         \* mutant: the read is in the wrong order
    SubSeq(stored, 1, Len(stored) - older(stored))
newest(stored) == SubSeq(stored, older(stored) + 1, Len(stored))

\* Whether a loaded chat is kept for its history only: the client lost it.
LiveAnyway(c, live) == FALSE    \* mutant: loaded chats are taken for live ones
HistoryOnly(c, live) == c \notin live

\* persistence::load_state, with initialize's marking of the chats the new
\* client does not hold (`live').  Messages whose chat has no row are not seen.
load_state(live) ==
    [chats |-> [c \in Convos |->
        IF db_chats[c] = None THEN None
        ELSE [row |-> db_chats[c],
              messages |-> newest(db_messages[c]),
              older_messages |-> older(db_messages[c]),
              history_only |-> HistoryOnly(c, live)]],
     deleted |-> db_deleted,
     installation_name |-> db_name]

\* initialize up to the load of chat.db, under the module lock.  The client's
\* store is in memory (LIBCHAT_PERSISTENCE_ENABLED is off), so a new client
\* holds no conversation.  Not taken when a state is installed already.
init_load(p) ==
    /\ call[p].pc = "idle" /\ ModuleLockFree
    /\ installed = 0 /\ session < MaxSessions
    /\ session' = session + 1
    /\ alive' = alive \cup {session + 1}
    /\ loaded' = load_state(held[session + 1])
    /\ Goto(p, "init_seed")
    /\ UNCHANGED <<display, disk, installed, held, peers, born, queues, nextMsg,
                   history>>

\* The rest of initialize: the event consumer runs from here, the display is
\* replaced by what was loaded, the state is installed.
init_seed(p) ==
    /\ call[p].pc = "init_seed"
    /\ chats' = loaded.chats
    /\ deleted' = loaded.deleted
    /\ installation_name' = loaded.installation_name
    /\ chat_db' = TRUE
    /\ installed' = session
    /\ replaced' = {}
    /\ loaded' = Nothing
    /\ Return(p)
    /\ UNCHANGED <<disk, session, alive, held, peers, born, queues, nextMsg,
                   told, writes>>

\* A delivery subscription is refused: the client is dropped, nothing installed.
init_fail(p) ==
    /\ call[p].pc = "init_seed"
    /\ alive' = alive \ {session}
    /\ loaded' = Nothing
    /\ Return(p)
    /\ UNCHANGED <<display, disk, installed, session, held, peers, born, queues,
                   nextMsg, history>>

\* shutdown takes the ModuleState out of the lock before it joins the workers.
shutdown_take(p) ==
    /\ call[p].pc = "idle" /\ ModuleLockFree /\ StateInstalled
    /\ installed' = 0
    /\ call' = [call EXCEPT ![p] = [Idle EXCEPT !.pc = "shutdown_drop", !.taken = installed]]
    /\ UNCHANGED <<display, disk, session, alive, held, peers, born, queues,
                   loaded, nextMsg, history>>

\* The bridge is joined and the client dropped: no more events are queued.
shutdown_drop(p) ==
    /\ call[p].pc = "shutdown_drop"
    /\ alive' = alive \ {call[p].taken}
    /\ held' = [held EXCEPT ![call[p].taken] = {}]
    /\ Goto(p, "shutdown_reset")
    /\ UNCHANGED <<display, disk, installed, session, peers, born, queues,
                   loaded, nextMsg, history>>

\* The event consumer ends when its queue is empty and the client is gone; it
\* is joined, and only then the display goes back to its default.
ConsumerNotJoined(s) == TRUE    \* mutant: the display is reset without the join
consumer_ended(s) == events[s] = << >>

shutdown_reset(p) ==
    /\ call[p].pc = "shutdown_reset"
    /\ consumer_ended(call[p].taken)
    /\ chats' = NoChats /\ deleted' = {} /\ installation_name' = None /\ chat_db' = FALSE
    /\ Return(p)
    /\ UNCHANGED <<disk, client, queues, loaded, nextMsg, history>>

\* The process dies (panic = "abort", a kill): only chat.db survives.
crash ==
    /\ CanCrash
    /\ chats' = NoChats /\ deleted' = {} /\ installation_name' = None /\ chat_db' = FALSE
    /\ installed' = 0 /\ alive' = {} /\ held' = [s \in Sessions |-> {}]
    /\ events' = [s \in Sessions |-> << >>]
    /\ fetched' = [s \in Sessions |-> "unread"]
    /\ call' = [p \in Callers |-> Idle]
    /\ loaded' = Nothing
    /\ UNCHANGED <<disk, session, peers, born, nextMsg, history>>

-----------------------------------------------------------------------------
(***************************************************************************)
(* Operations of the callers.  A call that is refused (NotFound,           *)
(* HistoryOnly, NotInit, a client error) changes nothing.                  *)
(***************************************************************************)

\* The client half of create_conversation and create_group_conversation: the
\* client gives out an id it never used.  A direct conversation has its peer
\* at once, a group only its creator until add_group_member.
create_client(p, c) ==
    /\ call[p].pc = "idle" /\ ModuleLockFree /\ StateInstalled
    /\ c \notin born
    /\ born' = born \cup {c}
    /\ held' = [held EXCEPT ![installed] = @ \cup {c}]
    /\ Enter(p, "create_record", c)
    /\ UNCHANGED <<display, disk, installed, session, alive, queues, loaded,
                   nextMsg, history>>

create_conversation(p, c) ==
    /\ c \notin Groups
    /\ create_client(p, c)
    /\ peers' = peers \cup {c}

create_group_conversation(p, c) ==
    /\ c \in Groups
    /\ create_client(p, c)
    /\ UNCHANGED peers

\* The row either of them inserts.
created_row(c) == [kind |-> kind_of(c), nickname |-> None,
                   name |-> c \in Named, peer |-> c \notin Groups]

\* Their display half: insert the session, whatever the list holds for the id,
\* then persist_chat.  After a shutdown the insert still happens and
\* persist_chat answers NotInit.
create_record(p) ==
    LET c == call[p].convo IN
    /\ call[p].pc = "create_record"
    /\ chats' = [chats EXCEPT ![c] = Fresh(created_row(c))]
    /\ \E saved \in Outcomes(chat_db) :
        /\ db_chats' = save_chat(db_chats, c, created_row(c), saved)
        /\ Wrote(c, chat_db, saved)
    /\ replaced' = IF chats[c] = None THEN replaced ELSE replaced \cup {c}
    /\ Return(p)
    /\ UNCHANGED <<names, deleted, chat_db, db_messages, db_deleted, client, queues,
                   loaded, nextMsg, told>>

\* check_live.
check_live(c) == chats[c] # None /\ ~chats[c].history_only

add_group_member_check(p, c) ==
    /\ call[p].pc = "idle"
    /\ check_live(c)
    /\ Enter(p, "add_client", c)
    /\ UNCHANGED <<display, disk, client, queues, loaded, nextMsg, history>>

\* with_client: the invite is committed if the id is a group's and the installed
\* client holds it; otherwise (or when the client fails) the call is an error.
add_group_member_client(p) ==
    /\ call[p].pc = "add_client" /\ ModuleLockFree
    /\ \/ /\ installed # 0 /\ call[p].convo \in held[installed] \cap Groups
          /\ peers' = peers \cup {call[p].convo}
       \/ UNCHANGED peers
    /\ Return(p)
    /\ UNCHANGED <<display, disk, installed, session, alive, held, born, queues,
                   loaded, nextMsg, history>>

send_message_check(p, c) ==
    /\ call[p].pc = "idle"
    /\ check_live(c)
    /\ Enter(p, "send_client", c)
    /\ UNCHANGED <<display, disk, client, queues, loaded, nextMsg, history>>

\* The message is encrypted and handed to delivery, or the call fails.
send_message_client(p) ==
    /\ call[p].pc = "send_client" /\ ModuleLockFree
    /\ \/ /\ installed # 0 /\ call[p].convo \in held[installed]
          /\ nextMsg <= MaxMsgs
          /\ nextMsg' = nextMsg + 1
          /\ call' = [call EXCEPT ![p] = [@ EXCEPT !.pc = "send_record", !.msg = nextMsg]]
       \/ /\ Return(p)
          /\ UNCHANGED nextMsg
    /\ UNCHANGED <<display, disk, client, queues, loaded, history>>

\* record_message, then message_sent.  A chat that is gone is Ok and emits; a
\* closed database is NotInit and pushes nothing; a failed write pushes the
\* message and returns its error instead of emitting.
send_message_record(p) ==
    LET c == call[p].convo
        m == call[p].msg
        tries == chats[c] # None /\ chat_db
    IN
    /\ call[p].pc = "send_record"
    /\ chats' = IF tries THEN [chats EXCEPT ![c] = Push(@, m)] ELSE chats
    /\ \E saved \in Outcomes(tries) :
        /\ db_messages' = store_message(db_messages, c, m, saved)
        /\ Wrote(c, tries, saved)
        /\ sent' = IF chats[c] = None \/ saved THEN sent \cup {<<c, m>>} ELSE sent
    /\ Return(p)
    /\ UNCHANGED <<names, deleted, chat_db, db_chats, db_deleted, client, queues,
                   loaded, nextMsg, received, replaced>>

set_conversation_nickname(p, c, n) ==
    LET chat == [chats[c] EXCEPT !.row = [@ EXCEPT !.nickname = n]] IN
    /\ call[p].pc = "idle"
    /\ chats[c] # None
    /\ chats' = [chats EXCEPT ![c] = chat]
    /\ \E saved \in Outcomes(chat_db) :
        /\ db_chats' = save_chat(db_chats, c, chat.row, saved)
        /\ Wrote(c, chat_db, saved)
    /\ UNCHANGED <<names, deleted, chat_db, db_messages, db_deleted, client, queues,
                   locals, nextMsg, told, replaced>>

\* Both tables and the tombstone in one transaction, then the list; a failed
\* transaction returns before anything has changed.
delete_conversation(p, c) ==
    /\ call[p].pc = "idle"
    /\ chats[c] # None /\ chat_db
    /\ db_messages' = [db_messages EXCEPT ![c] = << >>]
    /\ db_chats' = [db_chats EXCEPT ![c] = None]
    /\ db_deleted' = db_deleted \cup {c}
    /\ chats' = [chats EXCEPT ![c] = None]
    /\ deleted' = deleted \cup {c}
    /\ UNCHANGED <<names, chat_db, client, queues, locals, nextMsg, history>>

\* persistence::save_installation_name.
save_installation_name(n, saved) == IF saved THEN n ELSE db_name

\* set_installation_name: the setting is written, or removed, before it is shown.
\* On a closed database it is NotInit and changes nothing.
ShownAnyway(n, saved) == n      \* mutant: shown whether or not it is written
shown_name(n, saved) == IF saved THEN n ELSE installation_name

set_installation_name(p, n) ==
    /\ call[p].pc = "idle" /\ chat_db
    /\ \E saved \in Outcomes(TRUE) :
        /\ db_name' = save_installation_name(n, saved)
        /\ installation_name' = shown_name(n, saved)
        /\ faults' = IF saved THEN faults ELSE faults + 1
    /\ UNCHANGED <<chats, deleted, chat_db, db_chats, db_messages, db_deleted, client,
                   queues, locals, nextMsg, told, unsaved, replaced>>

-----------------------------------------------------------------------------
(***************************************************************************)
(* The client's worker (external): what peers do reaches this installation *)
(* as events on the queue of a live, seeded session.                       *)
(***************************************************************************)
Enqueue(s, type, c, m) ==
    events' = [events EXCEPT ![s] = Append(@, [type |-> type, convo |-> c, msg |-> m])]

\* A session whose address peers can know, with room in its queue.
Reachable(s) ==
    /\ s \in alive /\ Len(events[s]) < MaxQueue
    /\ \A p \in Callers : call[p].pc = "init_seed" => s # session

\* A peer opens a direct conversation (always a new id), or invites this
\* installation to a group it is not in, possibly one of an earlier session.
peer_invites(s, c) ==
    /\ Reachable(s)
    /\ c \notin held[s] /\ (c \in Groups \/ c \notin born)
    /\ born' = born \cup {c}
    /\ held' = [held EXCEPT ![s] = @ \cup {c}]
    /\ peers' = peers \cup {c}
    /\ Enqueue(s, "ConversationStarted", c, 0)
    /\ UNCHANGED <<display, disk, installed, session, alive, fetched, locals,
                   nextMsg, history>>

peer_sends(s, c) ==
    /\ Reachable(s)
    /\ c \in held[s] /\ c \in peers /\ nextMsg <= MaxMsgs
    /\ nextMsg' = nextMsg + 1
    /\ Enqueue(s, "MessageReceived", c, nextMsg)
    /\ UNCHANGED <<display, disk, client, fetched, locals, history>>

peer_changes_members(s, c) ==
    /\ Reachable(s)
    /\ c \in held[s] \cap Groups
    /\ Enqueue(s, "MembersChanged", c, 0)
    /\ UNCHANGED <<display, disk, client, fetched, locals, nextMsg, history>>

-----------------------------------------------------------------------------
(***************************************************************************)
(* run_events: the event consumer of session s handles the head of its     *)
(* queue and takes the next one when it is done.                           *)
(***************************************************************************)
Handling(s, type) == events[s] # << >> /\ Head(events[s]).type = type
Done(s) ==
    /\ events' = [events EXCEPT ![s] = Tail(@)]
    /\ fetched' = [fetched EXCEPT ![s] = "unread"]

\* The tombstone check of the record_ functions.
IgnoresNothing(c) == FALSE      \* mutant: the check is missing
Ignored(c) == c \in deleted

\* record_conversation_started of a group first reads the shared metadata from
\* whatever client is installed, under the module lock.  There is none to read
\* when no client is installed or it does not hold the group, and a read of one
\* it holds may fail.
fetch_metadata(s) ==
    LET c == Head(events[s]).convo
        tries == installed # 0 /\ c \in held[installed]
    IN
    /\ Handling(s, "ConversationStarted") /\ c \in Groups
    /\ fetched[s] = "unread" /\ ModuleLockFree
    /\ \E answered \in Outcomes(tries) :
        /\ fetched' = [fetched EXCEPT ![s] = IF answered THEN "shared" ELSE "none"]
        /\ faults' = IF tries /\ ~answered THEN faults + 1 ELSE faults
    /\ UNCHANGED <<display, disk, client, events, locals, nextMsg, told, unsaved, replaced>>

started_row(s, c) == [kind |-> kind_of(c), nickname |-> None,
                      name |-> c \in Named /\ fetched[s] = "shared", peer |-> FALSE]

\* Invited back into a conversation of a previous session.
StaysHistory(chat) == chat      \* mutant: the flag is left as it was
StartsOver(chat) == Fresh(chat.row) \* mutant: entered as a new session
Revived(chat) == [chat EXCEPT !.history_only = FALSE]

\* The rest of it, under the display lock: nothing for a deleted chat, a known
\* one is live again, an unknown one is inserted and written.
record_conversation_started(s) ==
    LET c == Head(events[s]).convo
        known == chats[c] # None
        inserts == ~Ignored(c) /\ ~known
        tries == inserts /\ chat_db
    IN
    /\ Handling(s, "ConversationStarted")
    /\ c \in Groups => fetched[s] # "unread"
    /\ chats' = IF Ignored(c) THEN chats
                ELSE [chats EXCEPT ![c] = IF known THEN Revived(@)
                                          ELSE Fresh(started_row(s, c))]
    /\ \E saved \in Outcomes(tries) :
        /\ db_chats' = save_chat(db_chats, c, started_row(s, c), saved)
        /\ Wrote(c, tries, saved)
    /\ Done(s)
    /\ UNCHANGED <<names, deleted, chat_db, db_messages, db_deleted, client, locals,
                   nextMsg, told, replaced>>

\* The session an inbound message is recorded in: the known one or the
\* defensive fallback, with the sender as the peer a direct one still lacks.
fallback_row == [kind |-> "direct", nickname |-> None, name |-> FALSE, peer |-> FALSE]
session_for(c) == IF chats[c] = None THEN Fresh(fallback_row) ELSE chats[c]
learns_peer(row) == row.kind = "direct" /\ ~row.peer
with_peer(chat) ==
    IF learns_peer(chat.row) THEN [chat EXCEPT !.row = [@ EXCEPT !.peer = TRUE]] ELSE chat

\* Whether the row has to be written with the message.
OnlyWhenNew(c) == chats[c] = None   \* mutant: a learnt peer is not written
ChatChanged(c) == chats[c] = None \/ learns_peer(session_for(c).row)

\* record_message_received: the row (when it changed) and the message in one
\* transaction; message_received is emitted even when the write fails.
record_message_received(s) ==
    LET c == Head(events[s]).convo
        m == Head(events[s]).msg
        chat == with_peer(session_for(c))
        tries == ~Ignored(c) /\ chat_db
    IN
    /\ Handling(s, "MessageReceived")
    /\ chats' = IF Ignored(c) THEN chats
                ELSE [chats EXCEPT ![c] = IF chat_db THEN Push(chat, m) ELSE chat]
    /\ \E saved \in Outcomes(tries) :
        /\ db_chats' = save_chat(db_chats, c, chat.row, saved /\ ChatChanged(c))
        /\ db_messages' = store_message(db_messages, c, m, saved)
        /\ Wrote(c, tries, saved)
    /\ received' = IF Ignored(c) THEN received ELSE received \cup {<<c, m>>}
    /\ Done(s)
    /\ UNCHANGED <<names, deleted, chat_db, db_deleted, client, locals, nextMsg, sent,
                   replaced>>

\* record_members_changed only re-emits the event.
record_members_changed(s) ==
    /\ Handling(s, "MembersChanged")
    /\ Done(s)
    /\ UNCHANGED <<display, disk, client, locals, nextMsg, history>>

-----------------------------------------------------------------------------
(***************************************************************************)
(* The reading methods, which change nothing: what a reader is shown.      *)
(***************************************************************************)
list_conversations == {c \in Convos : chats[c] # None}
message_count(c) == chats[c].older_messages + Len(chats[c].messages)
get_messages(c) == IF chats[c] = None THEN << >> ELSE chats[c].messages

-----------------------------------------------------------------------------
\* The steps a caller takes inside a call it has begun.
Continue(p) ==
    \/ init_seed(p) \/ init_fail(p)
    \/ shutdown_drop(p) \/ shutdown_reset(p)
    \/ create_record(p)
    \/ add_group_member_client(p)
    \/ send_message_client(p) \/ send_message_record(p)

\* The calls of one step, and the first steps of the others.
Call(p) ==
    \/ p \in Controllers /\ (init_load(p) \/ shutdown_take(p))
    \/ \E c \in Convos :
        \/ create_conversation(p, c) \/ create_group_conversation(p, c)
        \/ add_group_member_check(p, c) \/ send_message_check(p, c)
        \/ \E n \in Nicknames \cup {None} : set_conversation_nickname(p, c, n)
        \/ delete_conversation(p, c)
    \/ \E n \in Names \cup {None} : set_installation_name(p, n)

Consume(s) ==
    \/ fetch_metadata(s) \/ record_conversation_started(s)
    \/ record_message_received(s) \/ record_members_changed(s)

Peer(s) == \E c \in Convos :
    peer_invites(s, c) \/ peer_sends(s, c) \/ peer_changes_members(s, c)

Next ==
    \/ \E p \in Callers : Continue(p) \/ Call(p)
    \/ \E s \in Sessions : Consume(s) \/ Peer(s)
    \/ crash

Spec == Init /\ [][Next]_vars

\* The scheduler runs every thread that can run: a call that has begun goes on,
\* the event consumer handles what is queued.  Nothing makes a user call or a
\* peer act.
Fairness ==
    /\ \A p \in Callers : WF_vars(Continue(p))
    /\ \A s \in Sessions : WF_vars(Consume(s))

LiveSpec == Spec /\ Fairness

-----------------------------------------------------------------------------
(***************************************************************************)
(* Properties                                                              *)
(***************************************************************************)
Optional(S) == S \cup {None}
Stored(c) == {db_messages[c][i] : i \in DOMAIN db_messages[c]}
Pending(s, type, c) ==
    \E i \in DOMAIN events[s] : events[s][i].type = type /\ events[s][i].convo = c

\* The state of the display, chat.db, the clients and the threads is well
\* formed: what module.rs, persistence.rs and 001_app_state.sql declare.
TypeOK ==
    /\ chats \in [Convos -> Optional(ChatSession)]
    /\ deleted \subseteq Convos /\ chat_db \in BOOLEAN
    /\ installation_name \in Optional(Names) /\ db_name \in Optional(Names)
    /\ db_chats \in [Convos -> Optional(Row)]
    /\ db_messages \in [Convos -> Seq(Msgs)] /\ db_deleted \subseteq Convos
    /\ installed \in Sessions \cup {0} /\ session \in Sessions \cup {0}
    /\ alive \subseteq Sessions /\ held \in [Sessions -> SUBSET Convos]
    /\ peers \subseteq Convos /\ born \subseteq Convos
    /\ events \in [Sessions -> Seq(Event)]
    /\ fetched \in [Sessions -> {"unread", "none", "shared"}]
    /\ call \in [Callers -> Locals]
    /\ \A p \in Callers :
        /\ call[p].pc \in {"create_record", "add_client", "send_client", "send_record"}
            => call[p].convo \in Convos
        /\ call[p].pc = "send_record" => call[p].msg \in Msgs
        /\ call[p].pc \in {"shutdown_drop", "shutdown_reset"} => call[p].taken \in Sessions
    /\ \A s \in Sessions : \A i \in DOMAIN events[s] :
        events[s][i].type = "MessageReceived" => events[s][i].msg \in Msgs
    /\ loaded \in [chats : [Convos -> Optional(ChatSession)], deleted : SUBSET Convos,
                   installation_name : Optional(Names)]
    /\ nextMsg \in 1..(MaxMsgs + 1) /\ faults \in 0..MaxFaults
    /\ sent \subseteq Convos \X Msgs /\ received \subseteq Convos \X Msgs
    /\ unsaved \subseteq Convos /\ replaced \subseteq Convos

\* A deleted conversation stays deleted: whatever peers send, whatever is still
\* queued, and across shutdown, crash and re-init, delete_conversation's
\* tombstone excludes the chat from the list and its row and messages from
\* chat.db, and the open list knows every tombstone of the database.
Tombstoned ==
    /\ \A c \in deleted : chats[c] = None
    /\ \A c \in db_deleted : db_chats[c] = None /\ db_messages[c] = << >>
    /\ chat_db => deleted = db_deleted

Kept(c, m) == c \in db_deleted \/ (db_chats[c] # None /\ m \in Stored(c))

\* Every message the module has told its consumers of (message_sent,
\* message_received) is in chat.db together with its chat's row, so the next
\* init shows it, unless the chat was deleted or one of its writes failed.
SurfacedKept == \A e \in sent \cup received : e[1] \in unsaved \/ Kept(e[1], e[2])

\* send_message reports failure rather than show a message the next restart
\* would lose (actions.rs, send_message): every message_sent is kept.
SentKept == \A e \in sent : Kept(e[1], e[2])

\* A chat the list shows as live (check_live lets it be sent to) is one the
\* installed client holds; one from an earlier session is history only until
\* this session's client is invited back.
LiveIsHeld == installed # 0 => \A c \in Convos : check_live(c) => c \in held[installed]

\* The converse: what the installed client holds is listed and live once the
\* consumer has handled its ConversationStarted and a create its insert.
HeldIsListed ==
    installed # 0 =>
        \A c \in held[installed] \ deleted :
            \/ check_live(c)
            \/ Pending(installed, "ConversationStarted", c)
            \/ \E p \in Callers : call[p].pc = "create_record" /\ call[p].convo = c

\* The list and the database tell the same story: the same chats, the same row
\* field by field, and the message_count of list_conversations is the number
\* of stored messages, whose newest are the ones shown.  Excepted are chats
\* with a failed write and those create_record put over an earlier session.
DiskMatchesMemory ==
    chat_db => \A c \in Convos \ (unsaved \cup replaced) :
        IF chats[c] = None THEN db_chats[c] = None
        ELSE /\ db_chats[c] = chats[c].row
             /\ message_count(c) = Len(db_messages[c])
             /\ \A i \in DOMAIN chats[c].messages :
                    chats[c].messages[i] = db_messages[c][chats[c].older_messages + i]

\* A listed chat has the kind the client gave the conversation: the defensive
\* "direct" of record_message_received never lands on a group.
KindAgrees == \A c \in Convos : chats[c] # None => chats[c].row.kind = kind_of(c)

\* A group's name is "set at creation and identical for every member"
\* (chat_module.lidl): every listed group of Named shows it.
NamesShared == \A c \in Named : chats[c] # None => chats[c].row.name

\* While a state is installed the display has the database open: an initialised
\* module answers no operation as if it had no list or no database.
InitialisedOpen == installed # 0 => chat_db

\* ChatSession.messages is an "append-only render log": while the chat stays in
\* the open list its messages only grow at the end, through a re-invitation as
\* well.  Excepted is a create that is put over what an inbound message, handled
\* between its two halves, has already shown.
AppendOnly ==
    [][\A c \in Convos \ replaced' :
        (chat_db /\ chat_db' /\ installed' = installed
            /\ chats[c] # None /\ chats'[c] # None)
        => /\ Len(chats[c].messages) <= Len(chats'[c].messages)
           /\ \A i \in DOMAIN chats[c].messages :
                chats'[c].messages[i] = chats[c].messages[i]]_vars

\* The installation name shown is the one the next start reads back, whatever
\* write failed and however the process ended.
NameKept == chat_db => installation_name = db_name

\* shutdown never hangs: its joins end, although the event consumer may need
\* the module lock to finish what is queued.
ShutdownTerminates ==
    \A p \in Callers : call[p].pc = "shutdown_drop" ~> call[p].pc = "idle"

\* Every message the client has decrypted is recorded and surfaced, or its
\* chat is deleted, also when a shutdown begins while it is queued.
EventsRecorded ==
    \A s \in Sessions, c \in Convos, m \in Msgs :
        (\E i \in DOMAIN events[s] :
            events[s][i] = [type |-> "MessageReceived", convo |-> c, msg |-> m])
        ~> (<<c, m>> \in received \/ c \in deleted)

(***************************************************************************)
(* With one caller the list and chat.db implement ConversationArchive: its *)
(* view is what list_conversations and get_messages answer.                *)
(***************************************************************************)
Archive == INSTANCE ConversationArchive WITH
    Loaded <- LoadedPerChat,
    kept <- {c \in Convos : db_chats[c] # None},
    log <- db_messages,
    gone <- db_deleted,
    open <- chat_db,
    claimed <- {c \in Convos : \E p \in Callers : call[p].pc = "create_record" /\ call[p].convo = c},
    view <- [c \in Convos |-> IF c \in list_conversations THEN get_messages(c) ELSE None]

\* Clients, queues, events and the steps of init and shutdown come and go; to a
\* reader of the list every one of them is a step of the archive or none: no
\* message shown twice or out of place, none taken out of the view or of chat.db
\* but by a delete, and what init shows is what chat.db holds when it is shown.
\* Excepted is the archive's Supersede: create's insert (actions.rs, create_
\* conversation and create_group_conversation) takes out of the view what an
\* inbound message, handled between its halves, has shown; chat.db keeps it.
ImplementsArchive == Archive!Spec
=============================================================================
