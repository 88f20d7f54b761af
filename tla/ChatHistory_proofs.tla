-------------------------- MODULE ChatHistory_proofs --------------------------
(***************************************************************************)
(* Proofs about ChatHistory for any callers, conversations and bounds.     *)
(***************************************************************************)
EXTENDS ChatHistory, SequenceTheorems, TLAPS

\* TypeOK in parts, one for each thing an action updates as a whole.
Lists == [Convos -> Optional(ChatSession)]
Tables == [Convos -> Optional(Row)]
CallsOK ==
    /\ call \in [Callers -> Locals]
    /\ \A p \in Callers :
        /\ call[p].pc \in {"create_record", "add_client", "send_client", "send_record"}
            => call[p].convo \in Convos
        /\ call[p].pc = "send_record" => call[p].msg \in Msgs
        /\ call[p].pc \in {"shutdown_drop", "shutdown_reset"} => call[p].taken \in Sessions
EventsOK ==
    /\ events \in [Sessions -> Seq(Event)]
    /\ \A s \in Sessions : \A i \in DOMAIN events[s] :
        events[s][i].type = "MessageReceived" => events[s][i].msg \in Msgs
ClientOK ==
    /\ installed \in Sessions \cup {0} /\ session \in Sessions \cup {0}
    /\ alive \subseteq Sessions /\ held \in [Sessions -> SUBSET Convos]
    /\ peers \subseteq Convos /\ born \subseteq Convos
WritesOK == faults \in 0..MaxFaults /\ unsaved \subseteq Convos
NamesOK == installation_name \in Optional(Names) /\ db_name \in Optional(Names)
Readings == [chats : Lists, deleted : SUBSET Convos, installation_name : Optional(Names)]
LoadedOK == loaded \in Readings

Parts ==
    /\ chats \in Lists /\ deleted \subseteq Convos /\ chat_db \in BOOLEAN
    /\ db_chats \in Tables
    /\ db_messages \in [Convos -> Seq(Msgs)] /\ db_deleted \subseteq Convos
    /\ ClientOK /\ EventsOK
    /\ fetched \in [Sessions -> {"unread", "none", "shared"}]
    /\ CallsOK /\ LoadedOK /\ WritesOK /\ NamesOK
    /\ nextMsg \in 1..(MaxMsgs + 1)
    /\ sent \subseteq Convos \X Msgs /\ received \subseteq Convos \X Msgs
    /\ replaced \subseteq Convos

LEMMA TypeParts == TypeOK <=> Parts
  BY Zenon DEF TypeOK, Parts, Lists, Tables, CallsOK, EventsOK, ClientOK, WritesOK, LoadedOK,
     NamesOK, Readings

-----------------------------------------------------------------------------
(***************************************************************************)
(* The values the operations build                                         *)
(***************************************************************************)
LEMMA RowTypes ==
    /\ fallback_row \in Row
    /\ \A c \in Convos : created_row(c) \in Row
    /\ \A s \in Sessions, c \in Convos : started_row(s, c) \in Row
  BY DEF Row, fallback_row, created_row, started_row, kind_of

LEMMA MessagesTypes ==
    ASSUME NEW q \in Seq(Msgs)
    PROVE  << >> \in Seq(Msgs) /\ \A m \in Msgs : Append(q, m) \in Seq(Msgs)
  OBVIOUS

\* What is built from a row or a session is a session.
LEMMA SessionTypes ==
    /\ \A row \in Row : Fresh(row) \in ChatSession
    /\ \A chat \in ChatSession :
        /\ chat.row \in Row
        /\ \A m \in Msgs : Push(chat, m) \in ChatSession
        /\ Revived(chat) \in ChatSession
        /\ with_peer(chat) \in ChatSession
        /\ \A n \in Nicknames \cup {None} :
            [chat EXCEPT !.row = [@ EXCEPT !.nickname = n]] \in ChatSession
<1>1. \A row \in Row : Fresh(row) \in ChatSession
  BY DEF Fresh, ChatSession
<1>2. ASSUME NEW chat \in ChatSession
      PROVE  /\ chat.row \in Row
             /\ \A m \in Msgs : Push(chat, m) \in ChatSession
             /\ Revived(chat) \in ChatSession
  <2>1. chat.row \in Row /\ Revived(chat) \in ChatSession
    BY DEF ChatSession, Revived
  <2>2. ASSUME NEW q \in Seq(Msgs)
        PROVE  [chat EXCEPT !.messages = q] \in ChatSession
    BY DEF ChatSession
  <2>3. chat.messages \in Seq(Msgs)
    BY DEF ChatSession
  <2> QED
    BY <2>1, <2>2, <2>3, MessagesTypes DEF Push
<1>3. ASSUME NEW row \in Row
      PROVE  /\ [row EXCEPT !.peer = TRUE] \in Row
             /\ \A n \in Nicknames \cup {None} : [row EXCEPT !.nickname = n] \in Row
  BY DEF Row
<1>4. ASSUME NEW chat \in ChatSession, NEW row \in Row
      PROVE  [chat EXCEPT !.row = row] \in ChatSession
  BY DEF ChatSession
<1>5. ASSUME NEW chat \in ChatSession
      PROVE  /\ with_peer(chat) \in ChatSession
             /\ \A n \in Nicknames \cup {None} :
                 [chat EXCEPT !.row = [@ EXCEPT !.nickname = n]] \in ChatSession
  BY <1>2, <1>3, <1>4 DEF with_peer
<1> QED
  BY <1>1, <1>2, <1>5

\* A listed chat is a session, and updating one chat of the list gives a list.
LEMMA ListTypes ==
    /\ NoChats \in Lists
    /\ \A L \in Lists, c \in Convos :
        /\ L[c] # None => L[c] \in ChatSession
        /\ \A chat \in ChatSession \cup {None} : [L EXCEPT ![c] = chat] \in Lists
  BY DEF Lists, Optional, NoChats

\* The writes to chat.db keep the tables well formed.
LEMMA TableTypes ==
    /\ \A saved : \A T \in Tables, c \in Convos, row \in Row :
        save_chat(T, c, row, saved) \in Tables
    /\ \A T \in Tables, c \in Convos : [T EXCEPT ![c] = None] \in Tables
  BY DEF Tables, Optional, save_chat

LEMMA MessageTableTypes ==
    ASSUME NEW T \in [Convos -> Seq(Msgs)], NEW c \in Convos
    PROVE  /\ \A saved : \A m \in Msgs :
                store_message(T, c, m, saved) \in [Convos -> Seq(Msgs)]
           /\ [T EXCEPT ![c] = << >>] \in [Convos -> Seq(Msgs)]
<1>1. \A m \in Msgs : Append(T[c], m) \in Seq(Msgs)
  BY MessagesTypes
<1> QED
  BY <1>1 DEF store_message

LEMMA WrittenTypes ==
    ASSUME WritesOK, NEW c \in Convos, NEW tries \in BOOLEAN,
           NEW saved \in Outcomes(tries), Wrote(c, tries, saved)
    PROVE  WritesOK' /\ saved \in BOOLEAN /\ (saved => tries)
<1>1. saved \in BOOLEAN /\ (saved => tries)
  BY Zenon DEF Outcomes
<1>2. CASE tries /\ ~saved
  <2>1. faults < MaxFaults
    BY <1>2, Zenon DEF Outcomes
  <2>2. faults' = faults + 1 /\ unsaved' = unsaved \cup {c}
    BY <1>2 DEF Wrote
  <2> QED
    BY <1>1, <2>1, <2>2, BoundsAssumption DEF WritesOK
<1>3. CASE ~(tries /\ ~saved)
  BY <1>1, <1>3 DEF Wrote, WritesOK
<1> QED
  BY <1>2, <1>3

\* What init reads back is well formed.
LEMMA LoadTypes ==
    ASSUME db_chats \in Tables, db_messages \in [Convos -> Seq(Msgs)],
           db_deleted \subseteq Convos, db_name \in Optional(Names), NEW live
    PROVE  load_state(live) \in Readings
<1>1. ASSUME NEW q \in Seq(Msgs)
      PROVE  older(q) \in Nat /\ newest(q) \in Seq(Msgs)
  <2>1. older(q) \in Nat /\ older(q) <= Len(q)
    BY BoundsAssumption, LenProperties DEF older
  <2>2. \A i \in (older(q) + 1)..Len(q) : q[i] \in Msgs
    BY <2>1, LenProperties, ElementOfSeq
  <2> QED
    BY <2>1, <2>2, SubSeqProperties, LenProperties DEF newest
<1>2. ASSUME NEW c \in Convos, db_chats[c] # None
      PROVE  [row |-> db_chats[c], messages |-> newest(db_messages[c]),
              older_messages |-> older(db_messages[c]),
              history_only |-> HistoryOnly(c, live)] \in ChatSession
  <2>1. db_chats[c] \in Row
    BY <1>2 DEF Tables, Optional
  <2>2. older(db_messages[c]) \in Nat /\ newest(db_messages[c]) \in Seq(Msgs)
    BY <1>1
  <2> QED
    BY <2>1, <2>2 DEF ChatSession, HistoryOnly
<1> QED
  BY <1>2 DEF load_state, Readings, Lists, Optional

\* The steps of a call keep the callers' locals well formed.
LEMMA CallTypes ==
    ASSUME CallsOK, NEW p \in Callers
    PROVE  /\ Return(p) => CallsOK'
           /\ \A c \in Convos, label \in {"create_record", "add_client", "send_client"} :
                Enter(p, label, c) => CallsOK'
           /\ call[p].pc = "idle" /\ Goto(p, "init_seed") => CallsOK'
           /\ call[p].pc = "shutdown_drop" /\ Goto(p, "shutdown_reset") => CallsOK'
<1>1. Idle \in Locals
  BY DEF Idle, Locals, PC
<1>2. Return(p) => CallsOK'
  BY <1>1 DEF CallsOK, Return, Idle
<1>3. ASSUME NEW c \in Convos, NEW label \in {"create_record", "add_client", "send_client"},
             Enter(p, label, c)
      PROVE  CallsOK'
  BY <1>3 DEF CallsOK, Enter, Idle, Locals, PC
<1>4. call[p].pc = "idle" /\ Goto(p, "init_seed") => CallsOK'
  BY DEF CallsOK, Goto, Locals, PC
<1>5. call[p].pc = "shutdown_drop" /\ Goto(p, "shutdown_reset") => CallsOK'
  BY DEF CallsOK, Goto, Locals, PC
<1> QED
  BY <1>2, <1>3, <1>4, <1>5

\* The event at the head of a queue, and the queue without it or with one more.
LEMMA HeadTypes ==
    ASSUME EventsOK, NEW s \in Sessions, events[s] # << >>
    PROVE  /\ Head(events[s]) \in Event
           /\ Head(events[s]).convo \in Convos
           /\ Head(events[s]).type = "MessageReceived" => Head(events[s]).msg \in Msgs
<1>1. events[s] \in Seq(Event)
  BY DEF EventsOK
<1>2. Head(events[s]) = events[s][1] /\ 1 \in DOMAIN events[s] /\ Head(events[s]) \in Event
  BY <1>1, HeadTailProperties, LenProperties
<1> QED
  BY <1>2 DEF EventsOK, Event

LEMMA DoneTypes ==
    ASSUME EventsOK, fetched \in [Sessions -> {"unread", "none", "shared"}],
           NEW s \in Sessions, events[s] # << >>, Done(s)
    PROVE  EventsOK' /\ fetched' \in [Sessions -> {"unread", "none", "shared"}]
<1>1. events[s] \in Seq(Event)
  BY DEF EventsOK
<1>2. /\ Tail(events[s]) \in Seq(Event)
      /\ \A i \in DOMAIN Tail(events[s]) :
            i + 1 \in DOMAIN events[s] /\ Tail(events[s])[i] = events[s][i + 1]
  BY <1>1, HeadTailProperties, LenProperties
<1> QED
  BY <1>2 DEF EventsOK, Done

LEMMA EnqueueTypes ==
    ASSUME EventsOK, NEW s \in Sessions, NEW c \in Convos, NEW m \in Msgs \cup {0},
           NEW type \in {"ConversationStarted", "MessageReceived", "MembersChanged"},
           type = "MessageReceived" => m \in Msgs, Enqueue(s, type, c, m)
    PROVE  EventsOK'
<1> DEFINE e == [type |-> type, convo |-> c, msg |-> m]
<1>1. e \in Event
  BY DEF Event
<1>2. events[s] \in Seq(Event)
  BY DEF EventsOK
<1>3. /\ Append(events[s], e) \in Seq(Event)
      /\ \A i \in DOMAIN Append(events[s], e) :
            \/ i \in DOMAIN events[s] /\ Append(events[s], e)[i] = events[s][i]
            \/ Append(events[s], e)[i] = e
  BY <1>1, <1>2, AppendProperties, LenProperties
<1>4. events' = [events EXCEPT ![s] = Append(@, e)] /\ e.type = type /\ e.msg = m
  BY DEF Enqueue
<1> HIDE DEF e
<1> QED
  BY <1>3, <1>4 DEF EventsOK

-----------------------------------------------------------------------------
(***************************************************************************)
(* Type correctness                                                        *)
(***************************************************************************)
LEMMA InitParts == Init => Parts
<1> SUFFICES ASSUME Init PROVE Parts
  OBVIOUS
<1>1. CallsOK
  BY DEF Init, CallsOK, Idle, Locals, PC
<1>2. EventsOK
  BY DEF Init, EventsOK
<1>3. ClientOK
  BY DEF Init, ClientOK
<1>4. LoadedOK /\ chats \in Lists /\ db_chats \in Tables
  BY ListTypes DEF Init, LoadedOK, Nothing, Readings, NoChats, Tables, Optional
<1>5. WritesOK /\ nextMsg \in 1..(MaxMsgs + 1)
  BY BoundsAssumption DEF Init, WritesOK
<1>6. db_messages \in [Convos -> Seq(Msgs)]
  BY DEF Init
<1>7. NamesOK
  BY DEF Init, NamesOK, Optional
<1> QED
  BY <1>1, <1>2, <1>3, <1>4, <1>5, <1>6, <1>7 DEF Parts, Init

\* init and shutdown.
LEMMA LifecycleParts ==
    ASSUME Parts, NEW p \in Callers,
           \/ init_load(p) \/ init_seed(p) \/ init_fail(p)
           \/ shutdown_take(p) \/ shutdown_drop(p) \/ shutdown_reset(p)
    PROVE  Parts'
<1> USE DEF display, disk, names, client, queues, locals, told, writes, history,
            NamesOK
<1>0. Nothing \in Readings
  BY ListTypes DEF Nothing, Readings, Optional
<1>1. CASE init_load(p)
  <2>1. LoadedOK'
    BY <1>1, LoadTypes DEF Parts, init_load, LoadedOK, NamesOK
  <2>2. ClientOK'
    <3>1. ClientOK /\ session < MaxSessions /\ session' = session + 1
      BY <1>1 DEF Parts, init_load
    <3>2. alive' = alive \cup {session'} /\ UNCHANGED <<installed, held, peers, born>>
      BY <1>1 DEF init_load
    <3>3. session' \in Sessions
      BY <3>1, BoundsAssumption DEF ClientOK, Sessions
    <3> QED
      BY <3>1, <3>2, <3>3 DEF ClientOK
  <2>3. CallsOK'
    BY <1>1, CallTypes DEF Parts, init_load
  <2> QED
    BY <1>1, <2>1, <2>2, <2>3 DEF Parts, init_load, EventsOK, WritesOK
<1>2. CASE init_seed(p)
  <2>1. chats' \in Lists /\ deleted' \subseteq Convos /\ LoadedOK' /\ NamesOK'
    BY <1>0, <1>2 DEF Parts, init_seed, LoadedOK, Readings, NamesOK
  <2>2. CallsOK'
    BY <1>2, CallTypes DEF Parts, init_seed
  <2> QED
    BY <1>2, <2>1, <2>2 DEF Parts, init_seed, EventsOK, WritesOK, ClientOK
<1>3. CASE init_fail(p)
  <2>1. LoadedOK'
    BY <1>0, <1>3 DEF init_fail, LoadedOK
  <2>2. CallsOK'
    BY <1>3, CallTypes DEF Parts, init_fail
  <2> QED
    BY <1>3, <2>1, <2>2 DEF Parts, init_fail, EventsOK, WritesOK, ClientOK
<1>4. CASE shutdown_take(p)
  <2>1. CallsOK'
    BY <1>4
    DEF Parts, shutdown_take, CallsOK, ClientOK, StateInstalled, Idle, Locals, PC
  <2> QED
    BY <1>4, <2>1 DEF Parts, shutdown_take, EventsOK, WritesOK, ClientOK, LoadedOK
<1>5. CASE shutdown_drop(p)
  <2>1. CallsOK'
    BY <1>5, CallTypes DEF Parts, shutdown_drop
  <2> QED
    BY <1>5, <2>1 DEF Parts, shutdown_drop, EventsOK, WritesOK, ClientOK, LoadedOK
<1>6. CASE shutdown_reset(p)
  <2>1. CallsOK'
    BY <1>6, CallTypes DEF Parts, shutdown_reset
  <2> QED
    BY <1>6, <2>1, ListTypes
    DEF Parts, shutdown_reset, EventsOK, WritesOK, ClientOK, LoadedOK, NamesOK, Optional
<1> QED
  BY <1>1, <1>2, <1>3, <1>4, <1>5, <1>6

LEMMA CrashParts ==
    ASSUME Parts, crash
    PROVE  Parts'
<1> USE DEF display, disk, names, client, queues, locals, told, writes, history,
            NamesOK
<1>1. CallsOK'
  BY DEF crash, CallsOK, Idle, Locals, PC
<1>2. EventsOK' /\ fetched' \in [Sessions -> {"unread", "none", "shared"}]
  BY DEF crash, EventsOK
<1>3. ClientOK'
  BY DEF Parts, crash, ClientOK
<1>4. LoadedOK'
  BY ListTypes DEF crash, LoadedOK, Nothing, Readings, Optional
<1> QED
  BY <1>1, <1>2, <1>3, <1>4, ListTypes DEF Parts, crash, WritesOK, NamesOK, Optional

\* The client halves of the operations: they leave the display alone.
LEMMA ClientParts ==
    ASSUME Parts, NEW p \in Callers, NEW c \in Convos,
           \/ create_conversation(p, c) \/ create_group_conversation(p, c)
           \/ add_group_member_check(p, c) \/ add_group_member_client(p)
           \/ send_message_check(p, c) \/ send_message_client(p)
    PROVE  Parts'
<1> USE DEF display, disk, names, client, queues, locals, told, writes, history,
            NamesOK
<1>1. ASSUME create_client(p, c), peers' \subseteq Convos PROVE Parts'
  <2>1. CallsOK'
    BY <1>1, CallTypes DEF Parts, create_client
  <2>2. ClientOK'
    BY <1>1 DEF Parts, create_client, ClientOK, StateInstalled
  <2> QED
    BY <1>1, <2>1, <2>2 DEF Parts, create_client, EventsOK, WritesOK, LoadedOK
<1>2. CASE create_conversation(p, c)
  BY <1>1, <1>2 DEF Parts, ClientOK, create_conversation
<1>3. CASE create_group_conversation(p, c)
  BY <1>1, <1>3 DEF Parts, ClientOK, create_group_conversation
<1>4. CASE add_group_member_check(p, c) \/ send_message_check(p, c)
  <2>1. CallsOK'
    BY <1>4, CallTypes DEF Parts, add_group_member_check, send_message_check
  <2> QED
    BY <1>4, <2>1 DEF Parts, add_group_member_check, send_message_check, EventsOK,
                      WritesOK, LoadedOK, ClientOK
<1>5. CASE add_group_member_client(p)
  <2>1. CallsOK'
    BY <1>5, CallTypes DEF Parts, add_group_member_client
  <2>2. ClientOK'
    BY <1>5 DEF Parts, add_group_member_client, ClientOK, CallsOK
  <2> QED
    BY <1>5, <2>1, <2>2 DEF Parts, add_group_member_client, EventsOK, WritesOK, LoadedOK
<1>6. CASE send_message_client(p)
  <2>1. CASE Return(p) /\ UNCHANGED nextMsg
    <3>1. CallsOK'
      BY <2>1, CallTypes DEF Parts
    <3> QED
      BY <1>6, <2>1, <3>1 DEF Parts, send_message_client, EventsOK, WritesOK, LoadedOK,
                              ClientOK
  <2>2. CASE /\ nextMsg <= MaxMsgs /\ nextMsg' = nextMsg + 1
             /\ call' = [call EXCEPT ![p] = [@ EXCEPT !.pc = "send_record", !.msg = nextMsg]]
    <3>1. nextMsg \in Msgs /\ nextMsg' \in 1..(MaxMsgs + 1)
      BY <2>2, BoundsAssumption DEF Parts, Msgs
    <3>2. call[p].pc = "send_client"
      BY <1>6 DEF send_message_client
    <3>3. CallsOK'
      BY <2>2, <3>1, <3>2 DEF Parts, CallsOK, Locals, PC
    <3> QED
      BY <1>6, <2>2, <3>1, <3>3 DEF Parts, send_message_client, EventsOK, WritesOK,
                                    LoadedOK, ClientOK
  <2> QED
    BY <1>6, <2>1, <2>2 DEF send_message_client
<1> QED
  BY <1>2, <1>3, <1>4, <1>5, <1>6

\* The display halves.
LEMMA RecordParts ==
    ASSUME Parts, NEW p \in Callers, NEW c \in Convos, NEW n \in Nicknames \cup {None},
           \/ create_record(p) \/ send_message_record(p)
           \/ set_conversation_nickname(p, c, n) \/ delete_conversation(p, c)
    PROVE  Parts'
<1> USE DEF display, disk, names, client, queues, locals, told, writes, history,
            NamesOK
<1>1. CASE create_record(p)
  <2> DEFINE k == call[p].convo
  <2>1. k \in Convos /\ created_row(k) \in Row /\ Fresh(created_row(k)) \in ChatSession
    BY <1>1, RowTypes, SessionTypes DEF Parts, CallsOK, create_record
  <2>2. CallsOK'
    BY <1>1, CallTypes DEF Parts, create_record
  <2>3. PICK saved \in Outcomes(chat_db) :
            /\ db_chats' = save_chat(db_chats, k, created_row(k), saved)
            /\ Wrote(k, chat_db, saved)
    BY <1>1 DEF create_record
  <2>4. chats' = [chats EXCEPT ![k] = Fresh(created_row(k))] /\ replaced' \subseteq Convos
    BY <1>1, <2>1 DEF Parts, create_record
  <2> HIDE DEF k
  <2>5. chats' \in Lists /\ db_chats' \in Tables
    BY <2>1, <2>3, <2>4, ListTypes, TableTypes DEF Parts
  <2>6. WritesOK'
    BY <2>1, <2>3, WrittenTypes DEF Parts
  <2> QED
    BY <1>1, <2>2, <2>4, <2>5, <2>6 DEF Parts, create_record, EventsOK, LoadedOK, ClientOK
<1>2. CASE send_message_record(p)
  <2> DEFINE k == call[p].convo
             m == call[p].msg
             tries == chats[k] # None /\ chat_db
  <2>1. k \in Convos /\ m \in Msgs
    BY <1>2 DEF Parts, CallsOK, send_message_record
  <2>2. CallsOK'
    BY <1>2, CallTypes DEF Parts, send_message_record
  <2>3. PICK saved \in Outcomes(tries) :
            /\ db_messages' = store_message(db_messages, k, m, saved)
            /\ Wrote(k, tries, saved)
            /\ sent' = IF chats[k] = None \/ saved THEN sent \cup {<<k, m>>} ELSE sent
    BY <1>2 DEF send_message_record
  <2>4. chats' = IF tries THEN [chats EXCEPT ![k] = Push(@, m)] ELSE chats
    BY <1>2 DEF send_message_record
  <2>5. tries \in BOOLEAN /\ (tries => chats[k] # None)
    BY Zenon DEF Parts
  <2> HIDE DEF k, m, tries
  <2>6. chats' \in Lists
    BY <2>1, <2>4, <2>5, ListTypes, SessionTypes DEF Parts
  <2>7. db_messages' \in [Convos -> Seq(Msgs)]
    BY <2>1, <2>3, MessageTableTypes DEF Parts
  <2>8. WritesOK'
    BY <2>1, <2>3, <2>5, WrittenTypes DEF Parts
  <2>9. sent' \subseteq Convos \X Msgs
    BY <2>1, <2>3 DEF Parts
  <2> QED
    BY <1>2, <2>2, <2>6, <2>7, <2>8, <2>9
    DEF Parts, send_message_record, EventsOK, LoadedOK, ClientOK
<1>3. CASE set_conversation_nickname(p, c, n)
  <2> DEFINE chat == [chats[c] EXCEPT !.row = [@ EXCEPT !.nickname = n]]
  <2>1. chats[c] \in ChatSession
    BY <1>3, ListTypes DEF Parts, set_conversation_nickname
  <2>2. chat \in ChatSession
    BY <2>1, SessionTypes
  <2>3. PICK saved \in Outcomes(chat_db) :
            /\ db_chats' = save_chat(db_chats, c, chat.row, saved)
            /\ Wrote(c, chat_db, saved)
    BY <1>3 DEF set_conversation_nickname
  <2>4. chats' = [chats EXCEPT ![c] = chat]
    BY <1>3 DEF set_conversation_nickname
  <2> HIDE DEF chat
  <2>5. chats' \in Lists /\ db_chats' \in Tables
    BY <2>2, <2>3, <2>4, ListTypes, TableTypes, SessionTypes DEF Parts
  <2>6. WritesOK'
    BY <2>3, WrittenTypes DEF Parts
  <2> QED
    BY <1>3, <2>5, <2>6 DEF Parts, set_conversation_nickname, EventsOK, LoadedOK, ClientOK,
                            CallsOK
<1>4. CASE delete_conversation(p, c)
  <2>1. chats' \in Lists /\ db_chats' \in Tables
    BY <1>4, ListTypes, TableTypes DEF Parts, delete_conversation
  <2>2. db_messages' \in [Convos -> Seq(Msgs)]
    BY <1>4, MessageTableTypes DEF Parts, delete_conversation
  <2> QED
    BY <1>4, <2>1, <2>2 DEF Parts, delete_conversation, EventsOK, LoadedOK, ClientOK,
                            CallsOK, WritesOK
<1> QED
  BY <1>1, <1>2, <1>3, <1>4

\* The event consumer and the peers.
LEMMA EventParts ==
    ASSUME Parts, NEW s \in Sessions, Consume(s) \/ Peer(s)
    PROVE  Parts'
<1> USE DEF display, disk, names, client, queues, locals, told, writes, history,
            NamesOK
<1>1. CASE fetch_metadata(s)
  <2>1. fetched' \in [Sessions -> {"unread", "none", "shared"}]
    BY <1>1 DEF Parts, fetch_metadata
  <2> DEFINE tries == installed # 0 /\ Head(events[s]).convo \in held[installed]
  <2>2. PICK answered \in Outcomes(tries) :
            faults' = IF tries /\ ~answered THEN faults + 1 ELSE faults
    BY <1>1 DEF fetch_metadata
  <2>3. tries /\ ~answered => faults < MaxFaults
    BY <2>2 DEF Outcomes
  <2> HIDE DEF tries
  <2>4. faults' \in 0..MaxFaults
    BY <2>2, <2>3, BoundsAssumption DEF Parts, WritesOK
  <2>5. WritesOK'
    BY <1>1, <2>4 DEF fetch_metadata, Parts, WritesOK
  <2> QED
    BY <1>1, <2>1, <2>5 DEF Parts, fetch_metadata, EventsOK, LoadedOK, ClientOK, CallsOK
<1>2. CASE record_conversation_started(s)
  <2> DEFINE c == Head(events[s]).convo
             row == started_row(s, c)
             tries == ~Ignored(c) /\ ~(chats[c] # None) /\ chat_db
  <2>1. events[s] # << >>
    BY <1>2 DEF record_conversation_started, Handling
  <2>2. c \in Convos
    BY <2>1, HeadTypes DEF Parts
  <2>3. PICK saved \in Outcomes(tries) :
            db_chats' = save_chat(db_chats, c, row, saved) /\ Wrote(c, tries, saved)
    BY <1>2 DEF record_conversation_started
  <2>4. chats' = IF Ignored(c) THEN chats
                 ELSE [chats EXCEPT ![c] = IF chats[c] # None THEN Revived(@) ELSE Fresh(row)]
    BY <1>2 DEF record_conversation_started
  <2>5. tries \in BOOLEAN
    BY Zenon DEF Parts
  <2>6. row \in Row
    BY <2>2, RowTypes
  <2>7. EventsOK' /\ fetched' \in [Sessions -> {"unread", "none", "shared"}]
    BY <1>2, <2>1, DoneTypes DEF Parts, record_conversation_started
  <2> HIDE DEF c, row, tries
  <2>8. chats' \in Lists
    BY <2>2, <2>4, <2>6, ListTypes, SessionTypes DEF Parts
  <2>9. db_chats' \in Tables /\ WritesOK'
    BY <2>2, <2>3, <2>5, <2>6, TableTypes, WrittenTypes DEF Parts
  <2> QED
    BY <1>2, <2>7, <2>8, <2>9
    DEF Parts, record_conversation_started, LoadedOK, ClientOK, CallsOK
<1>3. CASE record_message_received(s)
  <2> DEFINE c == Head(events[s]).convo
             m == Head(events[s]).msg
             chat == with_peer(session_for(c))
             tries == ~Ignored(c) /\ chat_db
  <2>1. events[s] # << >> /\ Head(events[s]).type = "MessageReceived"
    BY <1>3 DEF record_message_received, Handling
  <2>2. c \in Convos /\ m \in Msgs
    BY <2>1, HeadTypes DEF Parts
  <2>3. PICK saved \in Outcomes(tries) :
            /\ db_chats' = save_chat(db_chats, c, chat.row, saved /\ ChatChanged(c))
            /\ db_messages' = store_message(db_messages, c, m, saved)
            /\ Wrote(c, tries, saved)
    BY <1>3 DEF record_message_received
  <2>4. chats' = IF Ignored(c) THEN chats
                 ELSE [chats EXCEPT ![c] = IF chat_db THEN Push(chat, m) ELSE chat]
    BY <1>3 DEF record_message_received
  <2>5. received' \subseteq Convos \X Msgs
    BY <1>3, <2>2 DEF Parts, record_message_received
  <2>6. tries \in BOOLEAN
    BY Zenon DEF Parts
  <2>7. chat \in ChatSession
    BY <2>2, ListTypes, SessionTypes, RowTypes DEF Parts, session_for
  <2>8. EventsOK' /\ fetched' \in [Sessions -> {"unread", "none", "shared"}]
    BY <1>3, <2>1, DoneTypes DEF Parts, record_message_received
  <2> HIDE DEF c, m, chat, tries
  <2>9. chats' \in Lists
    BY <2>2, <2>4, <2>7, ListTypes, SessionTypes DEF Parts
  <2>10. db_chats' \in Tables
    BY <2>2, <2>3, <2>7, TableTypes, SessionTypes DEF Parts
  <2>11. db_messages' \in [Convos -> Seq(Msgs)]
    BY <2>2, <2>3, MessageTableTypes DEF Parts
  <2>12. WritesOK'
    BY <2>2, <2>3, <2>6, WrittenTypes DEF Parts
  <2> QED
    BY <1>3, <2>5, <2>8, <2>9, <2>10, <2>11, <2>12
    DEF Parts, record_message_received, LoadedOK, ClientOK, CallsOK
<1>4. CASE record_members_changed(s)
  <2>1. EventsOK' /\ fetched' \in [Sessions -> {"unread", "none", "shared"}]
    BY <1>4, DoneTypes DEF Parts, record_members_changed, Handling
  <2> QED
    BY <1>4, <2>1 DEF Parts, record_members_changed, LoadedOK, ClientOK, CallsOK, WritesOK
<1>5. ASSUME NEW c \in Convos, peer_invites(s, c) PROVE Parts'
  <2>1. EventsOK'
    BY <1>5, EnqueueTypes DEF Parts, peer_invites
  <2>2. ClientOK'
    BY <1>5 DEF Parts, peer_invites, ClientOK
  <2> QED
    BY <1>5, <2>1, <2>2 DEF Parts, peer_invites, LoadedOK, CallsOK, WritesOK
<1>6. ASSUME NEW c \in Convos, peer_sends(s, c) PROVE Parts'
  <2>1. nextMsg \in Msgs /\ nextMsg' \in 1..(MaxMsgs + 1)
    BY <1>6, BoundsAssumption DEF Parts, peer_sends, Msgs
  <2>2. EventsOK'
    BY <1>6, <2>1, EnqueueTypes DEF Parts, peer_sends
  <2> QED
    BY <1>6, <2>1, <2>2 DEF Parts, peer_sends, LoadedOK, ClientOK, CallsOK, WritesOK
<1>7. ASSUME NEW c \in Convos, peer_changes_members(s, c) PROVE Parts'
  <2>1. EventsOK'
    BY <1>7, EnqueueTypes DEF Parts, peer_changes_members
  <2> QED
    BY <1>7, <2>1 DEF Parts, peer_changes_members, LoadedOK, ClientOK, CallsOK, WritesOK
<1> QED
  BY <1>1, <1>2, <1>3, <1>4, <1>5, <1>6, <1>7 DEF Consume, Peer

LEMMA NameParts ==
    ASSUME Parts, NEW p \in Callers, NEW n \in Names \cup {None}, set_installation_name(p, n)
    PROVE  Parts'
<1> USE DEF display, disk, names, client, queues, locals, told, writes, history,
            NamesOK
<1>1. PICK saved \in Outcomes(TRUE) :
        /\ db_name' = save_installation_name(n, saved)
        /\ installation_name' = shown_name(n, saved)
        /\ faults' = IF saved THEN faults ELSE faults + 1
  BY DEF set_installation_name
<1>2. NamesOK'
  BY <1>1 DEF Parts, NamesOK, Optional, shown_name, save_installation_name
<1>3. WritesOK'
  <2>1. ~saved => faults < MaxFaults
    BY Zenon DEF Outcomes
  <2>2. unsaved' = unsaved /\ faults \in 0..MaxFaults /\ unsaved \subseteq Convos
    BY DEF Parts, WritesOK, set_installation_name
  <2> QED
    BY <1>1, <2>1, <2>2, BoundsAssumption DEF WritesOK
<1> QED
  BY <1>2, <1>3 DEF Parts, set_installation_name, EventsOK, ClientOK, CallsOK, LoadedOK

LEMMA NextParts == Parts /\ [Next]_vars => Parts'
<1> SUFFICES ASSUME Parts, [Next]_vars PROVE Parts'
  OBVIOUS
<1>1. ASSUME NEW p \in Callers, Continue(p) PROVE Parts'
  <2>1. CASE create_record(p) \/ send_message_record(p)
    <3>1. call[p].convo \in Convos
      BY <2>1 DEF Parts, CallsOK, create_record, send_message_record
    <3> QED
      BY <2>1, <3>1, RecordParts
  <2>2. CASE add_group_member_client(p) \/ send_message_client(p)
    <3>1. call[p].convo \in Convos
      BY <2>2 DEF Parts, CallsOK, add_group_member_client, send_message_client
    <3> QED
      BY <2>2, <3>1, ClientParts
  <2> QED
    BY <1>1, <2>1, <2>2, LifecycleParts DEF Continue
<1>2. ASSUME NEW p \in Callers, Call(p) PROVE Parts'
  BY <1>2, LifecycleParts, ClientParts, RecordParts, NameParts DEF Call
<1>3. ASSUME NEW s \in Sessions, Consume(s) \/ Peer(s) PROVE Parts'
  BY <1>3, EventParts
<1>4. CASE crash
  BY <1>4, CrashParts
<1>5. CASE UNCHANGED vars
  BY <1>5 DEF vars, Parts, ClientOK, EventsOK, CallsOK, LoadedOK, WritesOK, NamesOK
<1> QED
  BY <1>1, <1>2, <1>3, <1>4, <1>5 DEF Next

\* The display, chat.db, the clients, the queues and the threads' locals are
\* well formed in every reachable state: in particular a call goes on with the
\* conversation, message and session it began with (create_record,
\* send_message_record, shutdown_drop), and load_state rebuilds sessions from
\* any database the writes can produce.
THEOREM TypeCorrect == Spec => []TypeOK
<1>1. Spec => []Parts
  BY InitParts, NextParts, PTL DEF Spec
<1> QED
  BY <1>1, TypeParts, PTL

-----------------------------------------------------------------------------
(***************************************************************************)
(* Deleted conversations stay deleted                                      *)
(***************************************************************************)
\* The calls are serialised.  With two callers the property is false: the
\* second half of a create may insert a chat that was deleted meanwhile.
OneCaller == \A p, q \in Callers : p = q

\* A tombstone names an id the client has given out; so does every chat of the
\* list, of the database and of the queues.  An id given out anew has no
\* tombstone until its create is over, and an init in progress holds what the
\* database still says.
ListBorn ==
    /\ deleted \cup db_deleted \subseteq born
    /\ \A c \in Convos : chats[c] # None \/ db_chats[c] # None => c \in born
EventsBorn == \A s \in Sessions : \A i \in DOMAIN events[s] : events[s][i].convo \in born
HeldBorn == \A s \in Sessions : held[s] \subseteq born
CreateInv == \A p \in Callers :
    call[p].pc = "create_record" =>
        call[p].convo \in born /\ call[p].convo \notin deleted \cup db_deleted
LoadInv == \A p \in Callers :
    call[p].pc = "init_seed" =>
        /\ loaded.deleted = db_deleted
        /\ \A c \in Convos : loaded.chats[c] # None => c \in born /\ c \notin db_deleted
TombInv ==
    /\ Tombstoned
    /\ ~chat_db => deleted = {}
    /\ ListBorn /\ EventsBorn /\ HeldBorn /\ CreateInv /\ LoadInv

\* When the one caller is in no create and no init, nothing is claimed of calls.
LEMMA QuietCaller ==
    ASSUME OneCaller, Parts, NEW p \in Callers,
           \/ Return(p) \/ Goto(p, "shutdown_reset")
           \/ \E c \in Convos, label \in {"add_client", "send_client"} : Enter(p, label, c)
           \/ call[p].pc = "idle" /\ call' = call
    PROVE  CreateInv' /\ LoadInv'
<1>1. \A q \in Callers : q = p
  BY DEF OneCaller
<1>2. call \in [Callers -> Locals] /\ call[p] \in Locals
  BY DEF Parts, CallsOK
<1>3. call'[p].pc \notin {"create_record", "init_seed"}
  <2>1. CASE Return(p)
    BY <1>2, <2>1 DEF Return, Idle
  <2>2. CASE Goto(p, "shutdown_reset")
    BY <1>2, <2>2 DEF Goto, Locals
  <2>3. CASE \E c \in Convos, label \in {"add_client", "send_client"} : Enter(p, label, c)
    BY <1>2, <2>3 DEF Enter, Idle
  <2>4. CASE call[p].pc = "idle" /\ call' = call
    BY <2>4
  <2> QED
    BY <2>1, <2>2, <2>3, <2>4
<1> QED
  BY <1>1, <1>3 DEF CreateInv, LoadInv

\* Ids the client gives out or events it takes off a queue do not disturb them.
LEMMA SameCalls ==
    ASSUME CreateInv, LoadInv, born \subseteq born',
           UNCHANGED <<call, loaded, deleted, db_deleted>>
    PROVE  CreateInv' /\ LoadInv'
  BY DEF CreateInv, LoadInv

LEMMA HeadBorn ==
    ASSUME EventsOK, EventsBorn, NEW s \in Sessions, events[s] # << >>
    PROVE  Head(events[s]).convo \in born
<1>1. events[s] \in Seq(Event)
  BY DEF EventsOK
<1>2. Head(events[s]) = events[s][1] /\ 1 \in DOMAIN events[s]
  BY <1>1, HeadTailProperties, LenProperties
<1> QED
  BY <1>2 DEF EventsBorn

LEMMA DoneBorn ==
    ASSUME EventsOK, EventsBorn, NEW s \in Sessions, events[s] # << >>, Done(s), born' = born
    PROVE  EventsBorn'
<1>1. events[s] \in Seq(Event) /\ events \in [Sessions -> Seq(Event)]
  BY DEF EventsOK
<1>2. \A i \in DOMAIN Tail(events[s]) :
            i + 1 \in DOMAIN events[s] /\ Tail(events[s])[i] = events[s][i + 1]
  BY <1>1, HeadTailProperties, LenProperties
<1> QED
  BY <1>1, <1>2 DEF EventsBorn, Done

LEMMA EnqueueBorn ==
    ASSUME EventsOK, EventsBorn, NEW s \in Sessions, NEW c \in born', NEW m, NEW type,
           born \subseteq born', c \in Convos, m \in Msgs \cup {0},
           type \in {"ConversationStarted", "MessageReceived", "MembersChanged"},
           Enqueue(s, type, c, m)
    PROVE  EventsBorn'
<1> DEFINE e == [type |-> type, convo |-> c, msg |-> m]
<1>1. e \in Event /\ e.convo = c
  BY DEF Event
<1>2. events[s] \in Seq(Event) /\ events \in [Sessions -> Seq(Event)]
  BY DEF EventsOK
<1>3. \A i \in DOMAIN Append(events[s], e) :
            \/ i \in DOMAIN events[s] /\ Append(events[s], e)[i] = events[s][i]
            \/ Append(events[s], e)[i] = e
  BY <1>1, <1>2, AppendProperties, LenProperties
<1>4. events' = [events EXCEPT ![s] = Append(@, e)]
  BY DEF Enqueue
<1> HIDE DEF e
<1> QED
  BY <1>1, <1>2, <1>3, <1>4 DEF EventsBorn

LEMMA InitTomb == Init => TombInv
<1> SUFFICES ASSUME Init PROVE TombInv
  OBVIOUS
<1>1. CreateInv /\ LoadInv
  BY DEF Init, CreateInv, LoadInv, Idle
<1>2. EventsBorn
  BY DEF Init, EventsBorn
<1> QED
  BY <1>1, <1>2 DEF Init, TombInv, Tombstoned, ListBorn, HeldBorn, NoChats

LEMMA LifecycleTomb ==
    ASSUME OneCaller, Parts, TombInv, NEW p \in Callers,
           \/ init_load(p) \/ init_seed(p) \/ init_fail(p)
           \/ shutdown_take(p) \/ shutdown_drop(p) \/ shutdown_reset(p)
    PROVE  TombInv'
<1> USE DEF display, disk, names, client, queues, locals, told, writes, history
<1>0. \A q \in Callers : q = p
  BY DEF OneCaller
<1>1. CASE init_load(p)
  <2>1. CreateInv'
    BY <1>0, <1>1 DEF init_load, Goto, CreateInv, Parts, CallsOK, Locals
  <2>2. LoadInv'
    BY <1>1 DEF init_load, LoadInv, load_state, Parts, TombInv, Tombstoned, ListBorn
  <2> QED
    BY <1>1, <2>1, <2>2 DEF init_load, TombInv, Tombstoned, ListBorn, EventsBorn, HeldBorn
<1>2. CASE init_seed(p)
  <2>1. CreateInv' /\ LoadInv'
    BY <1>2, QuietCaller DEF init_seed
  <2>2. /\ loaded.deleted = db_deleted
        /\ \A c \in Convos : loaded.chats[c] # None => c \in born /\ c \notin db_deleted
    BY <1>2 DEF init_seed, TombInv, LoadInv
  <2>3. Tombstoned'
    BY <1>2, <2>2 DEF init_seed, TombInv, Tombstoned, Parts
  <2> QED
    BY <1>2, <2>1, <2>2, <2>3 DEF init_seed, TombInv, ListBorn, EventsBorn, HeldBorn
<1>3. CASE init_fail(p)
  <2>1. CreateInv' /\ LoadInv'
    BY <1>3, QuietCaller DEF init_fail
  <2> QED
    BY <1>3, <2>1 DEF init_fail, TombInv, Tombstoned, ListBorn, EventsBorn, HeldBorn
<1>4. CASE shutdown_take(p)
  <2>1. call'[p].pc = "shutdown_drop"
    BY <1>4 DEF shutdown_take, Parts, CallsOK, Idle
  <2>2. CreateInv' /\ LoadInv'
    BY <1>0, <2>1 DEF CreateInv, LoadInv
  <2> QED
    BY <1>4, <2>2 DEF shutdown_take, TombInv, Tombstoned, ListBorn, EventsBorn, HeldBorn
<1>5. CASE shutdown_drop(p)
  <2>1. CreateInv' /\ LoadInv'
    BY <1>5, QuietCaller DEF shutdown_drop
  <2> QED
    BY <1>5, <2>1 DEF shutdown_drop, TombInv, Tombstoned, ListBorn, EventsBorn, HeldBorn
<1>6. CASE shutdown_reset(p)
  <2>1. CreateInv' /\ LoadInv'
    BY <1>6, QuietCaller DEF shutdown_reset
  <2> QED
    BY <1>6, <2>1 DEF shutdown_reset, TombInv, Tombstoned, ListBorn, EventsBorn, HeldBorn, NoChats
<1> QED
  BY <1>1, <1>2, <1>3, <1>4, <1>5, <1>6

LEMMA CrashTomb ==
    ASSUME TombInv, crash
    PROVE  TombInv'
<1> USE DEF display, disk, names, client, queues, locals, told, writes, history
<1>1. CreateInv' /\ LoadInv'
  BY DEF crash, CreateInv, LoadInv, Idle
<1>2. EventsBorn'
  BY DEF crash, EventsBorn
<1> QED
  BY <1>1, <1>2 DEF crash, TombInv, Tombstoned, ListBorn, HeldBorn, NoChats

LEMMA ClientTomb ==
    ASSUME OneCaller, Parts, TombInv, NEW p \in Callers, NEW c \in Convos,
           \/ create_conversation(p, c) \/ create_group_conversation(p, c)
           \/ add_group_member_check(p, c) \/ add_group_member_client(p)
           \/ send_message_check(p, c) \/ send_message_client(p)
    PROVE  TombInv'
<1> USE DEF display, disk, names, client, queues, locals, told, writes, history
<1>0. \A q \in Callers : q = p
  BY DEF OneCaller
<1>1. CASE create_client(p, c)
  <2>1. call'[p].pc = "create_record" /\ call'[p].convo = c
    BY <1>1 DEF create_client, Enter, Parts, CallsOK, Idle
  <2>2. CreateInv' /\ LoadInv'
    BY <1>0, <1>1, <2>1 DEF create_client, CreateInv, LoadInv, TombInv, ListBorn
  <2> QED
    BY <1>1, <2>2 DEF create_client, TombInv, Tombstoned, ListBorn, EventsBorn, HeldBorn
<1>2. CASE add_group_member_check(p, c) \/ send_message_check(p, c)
  <2>1. CreateInv' /\ LoadInv'
    BY <1>2, QuietCaller DEF add_group_member_check, send_message_check
  <2> QED
    BY <1>2, <2>1 DEF add_group_member_check, send_message_check, TombInv, Tombstoned,
                      ListBorn, EventsBorn, HeldBorn
<1>3. CASE add_group_member_client(p)
  <2>1. CreateInv' /\ LoadInv'
    BY <1>3, QuietCaller DEF add_group_member_client
  <2> QED
    BY <1>3, <2>1 DEF add_group_member_client, TombInv, Tombstoned, ListBorn, EventsBorn, HeldBorn
<1>4. CASE send_message_client(p)
  <2>0. call \in [Callers -> Locals] /\ call[p] \in Locals
    BY DEF Parts, CallsOK
  <2>1. call'[p].pc \notin {"create_record", "init_seed"}
    <3>1. CASE Return(p)
      BY <2>0, <3>1 DEF Return, Idle
    <3>2. CASE call' = [call EXCEPT ![p] = [@ EXCEPT !.pc = "send_record", !.msg = nextMsg]]
      BY <2>0, <3>2 DEF Locals
    <3> QED
      BY <1>4, <3>1, <3>2 DEF send_message_client
  <2>2. CreateInv' /\ LoadInv'
    BY <1>0, <2>1 DEF CreateInv, LoadInv
  <2> QED
    BY <1>4, <2>2 DEF send_message_client, TombInv, Tombstoned, ListBorn, EventsBorn, HeldBorn
<1> QED
  BY <1>1, <1>2, <1>3, <1>4 DEF create_conversation, create_group_conversation

\* A write to a chat the tombstones do not name, here as the effect on the
\* list and the tables.
LEMMA UntombedWrite ==
    ASSUME Parts, TombInv, NEW c \in Convos, c \in born, c \notin deleted,
           NEW saved, saved => chat_db,
           UNCHANGED <<deleted, db_deleted, chat_db, born>>,
           \A k \in Convos \ {c} : chats'[k] = chats[k],
           \A k \in Convos \ {c} :
                db_chats'[k] = db_chats[k] /\ db_messages'[k] = db_messages[k],
           ~saved => UNCHANGED <<db_chats, db_messages>>
    PROVE  Tombstoned' /\ ListBorn' /\ (~chat_db => deleted = {})'
<1>1. chat_db => c \notin db_deleted
  BY DEF TombInv, Tombstoned
<1>2. CASE saved
  BY <1>1, <1>2 DEF TombInv, Tombstoned, ListBorn, Parts
<1>3. CASE ~saved
  BY <1>3 DEF TombInv, Tombstoned, ListBorn, Parts
<1> QED
  BY <1>2, <1>3

LEMMA SavedOnlyIfTried ==
    ASSUME NEW tries \in BOOLEAN, NEW saved \in Outcomes(tries)
    PROVE  saved \in BOOLEAN /\ (saved => tries)
  BY Zenon DEF Outcomes

LEMMA RecordTomb ==
    ASSUME OneCaller, Parts, TombInv, NEW p \in Callers, NEW c \in Convos,
           NEW n \in Nicknames \cup {None},
           \/ create_record(p) \/ send_message_record(p)
           \/ set_conversation_nickname(p, c, n) \/ delete_conversation(p, c)
    PROVE  TombInv'
<1> USE DEF display, disk, names, client, queues, locals, told, writes, history
<1>1. CASE create_record(p)
  <2> DEFINE k == call[p].convo
  <2>1. k \in Convos /\ k \in born /\ k \notin deleted
    BY <1>1 DEF create_record, Parts, CallsOK, TombInv, CreateInv
  <2>2. PICK saved \in Outcomes(chat_db) :
            db_chats' = save_chat(db_chats, k, created_row(k), saved)
    BY <1>1 DEF create_record
  <2>3. saved => chat_db
    BY <2>2, SavedOnlyIfTried DEF Parts
  <2>4. /\ chats' = [chats EXCEPT ![k] = Fresh(created_row(k))]
        /\ UNCHANGED <<deleted, chat_db, db_messages, db_deleted, born, events, held>>
    BY <1>1 DEF create_record
  <2>5. CreateInv' /\ LoadInv'
    BY <1>1, QuietCaller DEF create_record
  <2> HIDE DEF k
  <2>6. \A j \in Convos \ {k} : chats'[j] = chats[j] /\ db_chats'[j] = db_chats[j]
    BY <2>1, <2>2, <2>4 DEF save_chat, Parts, Lists, Tables
  <2>7. ~saved => UNCHANGED db_chats
    BY <2>2 DEF save_chat
  <2>8. Tombstoned' /\ ListBorn' /\ (~chat_db => deleted = {})'
    BY <2>1, <2>3, <2>4, <2>6, <2>7, UntombedWrite
  <2> QED
    BY <2>4, <2>5, <2>8 DEF TombInv, EventsBorn, HeldBorn
<1>2. CASE send_message_record(p)
  <2> DEFINE k == call[p].convo
             m == call[p].msg
             tries == chats[k] # None /\ chat_db
  <2>1. k \in Convos
    BY <1>2 DEF send_message_record, Parts, CallsOK
  <2>2. PICK saved \in Outcomes(tries) :
            db_messages' = store_message(db_messages, k, m, saved)
    BY <1>2 DEF send_message_record
  <2>3. tries \in BOOLEAN
    BY Zenon DEF Parts
  <2>4. saved => tries
    BY <2>2, <2>3, SavedOnlyIfTried
  <2>5. /\ chats' = IF tries THEN [chats EXCEPT ![k] = Push(@, m)] ELSE chats
        /\ UNCHANGED <<deleted, chat_db, db_chats, db_deleted, born, events, held>>
    BY <1>2 DEF send_message_record
  <2>6. CreateInv' /\ LoadInv'
    BY <1>2, QuietCaller DEF send_message_record
  <2>7. tries => k \in born /\ k \notin deleted /\ chat_db
    BY <2>1 DEF TombInv, Tombstoned, ListBorn
  <2> HIDE DEF k, m, tries
  <2>8. /\ \A j \in Convos \ {k} : chats'[j] = chats[j] /\ db_messages'[j] = db_messages[j]
        /\ ~saved => UNCHANGED db_messages
    BY <2>1, <2>2, <2>5 DEF store_message, Parts, Lists
  <2>9. Tombstoned' /\ ListBorn' /\ (~chat_db => deleted = {})'
    <3>1. CASE tries
      BY <2>1, <2>5, <2>7, <2>8, <3>1, UntombedWrite
    <3>2. CASE ~tries
      BY <2>4, <2>5, <2>8, <3>2 DEF TombInv, Tombstoned, ListBorn
    <3> QED
      BY <3>1, <3>2
  <2> QED
    BY <2>5, <2>6, <2>9 DEF TombInv, EventsBorn, HeldBorn
<1>3. CASE set_conversation_nickname(p, c, n)
  <2> DEFINE chat == [chats[c] EXCEPT !.row = [@ EXCEPT !.nickname = n]]
  <2>1. c \in born /\ c \notin deleted
    BY <1>3 DEF set_conversation_nickname, TombInv, Tombstoned, ListBorn
  <2>2. PICK saved \in Outcomes(chat_db) :
            db_chats' = save_chat(db_chats, c, chat.row, saved)
    BY <1>3 DEF set_conversation_nickname
  <2>3. saved => chat_db
    BY <2>2, SavedOnlyIfTried DEF Parts
  <2>4. /\ chats' = [chats EXCEPT ![c] = chat]
        /\ UNCHANGED <<deleted, chat_db, db_messages, db_deleted, born, events, held>>
    BY <1>3 DEF set_conversation_nickname
  <2>5. CreateInv' /\ LoadInv'
    BY <1>3, QuietCaller DEF set_conversation_nickname
  <2> HIDE DEF chat
  <2>6. \A j \in Convos \ {c} : chats'[j] = chats[j] /\ db_chats'[j] = db_chats[j]
    BY <2>2, <2>4 DEF save_chat, Parts, Lists, Tables
  <2>7. ~saved => UNCHANGED db_chats
    BY <2>2 DEF save_chat
  <2>8. Tombstoned' /\ ListBorn' /\ (~chat_db => deleted = {})'
    BY <2>1, <2>3, <2>4, <2>6, <2>7, UntombedWrite
  <2> QED
    BY <2>4, <2>5, <2>8 DEF TombInv, EventsBorn, HeldBorn
<1>4. CASE delete_conversation(p, c)
  <2>1. CreateInv' /\ LoadInv'
    BY <1>4, QuietCaller DEF delete_conversation
  <2>2. Tombstoned'
    BY <1>4 DEF delete_conversation, TombInv, Tombstoned, Parts, Lists, Tables
  <2>3. ListBorn'
    BY <1>4 DEF delete_conversation, TombInv, ListBorn, Parts, Lists, Tables
  <2> QED
    BY <1>4, <2>1, <2>2, <2>3 DEF delete_conversation, TombInv, EventsBorn, HeldBorn
<1> QED
  BY <1>1, <1>2, <1>3, <1>4

LEMMA EventTomb ==
    ASSUME Parts, TombInv, NEW s \in Sessions, Consume(s) \/ Peer(s)
    PROVE  TombInv'
<1> USE DEF display, disk, names, client, queues, locals, told, writes, history
<1>1. CASE fetch_metadata(s)
  <2>1. CreateInv' /\ LoadInv'
    BY <1>1, SameCalls DEF fetch_metadata, TombInv
  <2> QED
    BY <1>1, <2>1 DEF fetch_metadata, TombInv, Tombstoned, ListBorn, EventsBorn, HeldBorn
<1>2. CASE record_conversation_started(s)
  <2> DEFINE c == Head(events[s]).convo
             row == started_row(s, c)
             tries == ~Ignored(c) /\ ~(chats[c] # None) /\ chat_db
  <2>1. events[s] # << >> /\ c \in Convos /\ c \in born
    BY <1>2, HeadTypes, HeadBorn DEF record_conversation_started, Handling, Parts, TombInv
  <2>2. PICK saved \in Outcomes(tries) : db_chats' = save_chat(db_chats, c, row, saved)
    BY <1>2 DEF record_conversation_started
  <2>3. tries \in BOOLEAN /\ (tries => c \notin deleted /\ chat_db)
    BY Zenon DEF Parts, Ignored
  <2>4. saved => tries
    BY <2>2, <2>3, SavedOnlyIfTried
  <2>5. /\ held' = held
        /\ chats' = IF c \in deleted THEN chats
                    ELSE [chats EXCEPT ![c] = IF chats[c] # None THEN Revived(@)
                                              ELSE Fresh(row)]
        /\ UNCHANGED <<deleted, chat_db, db_messages, db_deleted, born, call, loaded>>
        /\ Done(s)
    BY <1>2 DEF record_conversation_started, Ignored
  <2>6. EventsBorn'
    BY <2>1, <2>5, DoneBorn DEF Parts, TombInv
  <2>7. CreateInv' /\ LoadInv'
    BY <2>5, SameCalls DEF TombInv
  <2> HIDE DEF c, row, tries
  <2>8. /\ \A j \in Convos \ {c} : chats'[j] = chats[j] /\ db_chats'[j] = db_chats[j]
        /\ ~saved => UNCHANGED db_chats
    BY <2>1, <2>2, <2>5 DEF save_chat, Parts, Lists, Tables
  <2>9. Tombstoned' /\ ListBorn' /\ (~chat_db => deleted = {})'
    <3>1. CASE c \notin deleted
      BY <2>1, <2>3, <2>4, <2>5, <2>8, <3>1, UntombedWrite
    <3>2. CASE c \in deleted
      BY <2>3, <2>4, <2>5, <2>8, <3>2 DEF TombInv, Tombstoned, ListBorn
    <3> QED
      BY <3>1, <3>2
  <2> QED
    BY <2>5, <2>6, <2>7, <2>9 DEF TombInv, HeldBorn
<1>3. CASE record_message_received(s)
  <2> DEFINE c == Head(events[s]).convo
             m == Head(events[s]).msg
             chat == with_peer(session_for(c))
             tries == ~Ignored(c) /\ chat_db
  <2>1. events[s] # << >> /\ c \in Convos /\ c \in born
    BY <1>3, HeadTypes, HeadBorn DEF record_message_received, Handling, Parts, TombInv
  <2>2. PICK saved \in Outcomes(tries) :
            /\ db_chats' = save_chat(db_chats, c, chat.row, saved /\ ChatChanged(c))
            /\ db_messages' = store_message(db_messages, c, m, saved)
    BY <1>3 DEF record_message_received
  <2>3. tries \in BOOLEAN /\ (tries => c \notin deleted /\ chat_db)
    BY Zenon DEF Parts, Ignored
  <2>4. saved => tries
    BY <2>2, <2>3, SavedOnlyIfTried
  <2>5. /\ held' = held
        /\ chats' = IF c \in deleted THEN chats
                    ELSE [chats EXCEPT ![c] = IF chat_db THEN Push(chat, m) ELSE chat]
        /\ UNCHANGED <<deleted, chat_db, db_deleted, born, call, loaded>>
        /\ Done(s)
    BY <1>3 DEF record_message_received, Ignored
  <2>6. EventsBorn'
    BY <2>1, <2>5, DoneBorn DEF Parts, TombInv
  <2>7. CreateInv' /\ LoadInv'
    BY <2>5, SameCalls DEF TombInv
  <2> HIDE DEF c, m, chat, tries
  <2>8. /\ \A j \in Convos \ {c} : chats'[j] = chats[j] /\ db_chats'[j] = db_chats[j]
                                    /\ db_messages'[j] = db_messages[j]
        /\ ~saved => UNCHANGED <<db_chats, db_messages>>
    BY <2>1, <2>2, <2>5 DEF save_chat, store_message, Parts, Lists, Tables
  <2>9. Tombstoned' /\ ListBorn' /\ (~chat_db => deleted = {})'
    <3>1. CASE c \notin deleted
      BY <2>1, <2>3, <2>4, <2>5, <2>8, <3>1, UntombedWrite
    <3>2. CASE c \in deleted
      BY <2>3, <2>4, <2>5, <2>8, <3>2 DEF TombInv, Tombstoned, ListBorn
    <3> QED
      BY <3>1, <3>2
  <2> QED
    BY <2>5, <2>6, <2>7, <2>9 DEF TombInv, HeldBorn
<1>4. CASE record_members_changed(s)
  <2>1. EventsBorn'
    BY <1>4, DoneBorn DEF record_members_changed, Handling, Parts, TombInv
  <2>2. CreateInv' /\ LoadInv'
    BY <1>4, SameCalls DEF record_members_changed, TombInv
  <2> QED
    BY <1>4, <2>1, <2>2 DEF record_members_changed, TombInv, Tombstoned, ListBorn, HeldBorn
<1>5. ASSUME NEW c \in Convos, peer_invites(s, c) PROVE TombInv'
  <2>1. EventsBorn'
    BY <1>5, EnqueueBorn DEF peer_invites, Parts, TombInv
  <2>2. CreateInv' /\ LoadInv'
    BY <1>5, SameCalls DEF peer_invites, TombInv
  <2> QED
    BY <1>5, <2>1, <2>2 DEF peer_invites, TombInv, Tombstoned, ListBorn, HeldBorn
<1>6. ASSUME NEW c \in Convos, peer_sends(s, c) PROVE TombInv'
  <2>1. nextMsg \in Msgs /\ c \in born
    BY <1>6, BoundsAssumption DEF peer_sends, Parts, Msgs, TombInv, HeldBorn
  <2>2. EventsBorn'
    BY <1>6, <2>1, EnqueueBorn DEF peer_sends, Parts, TombInv
  <2>3. CreateInv' /\ LoadInv'
    BY <1>6, SameCalls DEF peer_sends, TombInv
  <2> QED
    BY <1>6, <2>2, <2>3 DEF peer_sends, TombInv, Tombstoned, ListBorn, HeldBorn
<1>7. ASSUME NEW c \in Convos, peer_changes_members(s, c) PROVE TombInv'
  <2>1. EventsBorn'
    BY <1>7, EnqueueBorn DEF peer_changes_members, Parts, TombInv, HeldBorn
  <2>2. CreateInv' /\ LoadInv'
    BY <1>7, SameCalls DEF peer_changes_members, TombInv
  <2> QED
    BY <1>7, <2>1, <2>2 DEF peer_changes_members, TombInv, Tombstoned, ListBorn, HeldBorn
<1> QED
  BY <1>1, <1>2, <1>3, <1>4, <1>5, <1>6, <1>7 DEF Consume, Peer

LEMMA NextTomb ==
    ASSUME OneCaller
    PROVE  Parts /\ TombInv /\ [Next]_vars => TombInv'
<1> SUFFICES ASSUME Parts, TombInv, [Next]_vars PROVE TombInv'
  OBVIOUS
<1>1. ASSUME NEW p \in Callers, Continue(p) PROVE TombInv'
  <2>1. CASE create_record(p) \/ send_message_record(p)
    <3>1. call[p].convo \in Convos
      BY <2>1 DEF Parts, CallsOK, create_record, send_message_record
    <3> QED
      BY <2>1, <3>1, RecordTomb
  <2>2. CASE add_group_member_client(p) \/ send_message_client(p)
    <3>1. call[p].convo \in Convos
      BY <2>2 DEF Parts, CallsOK, add_group_member_client, send_message_client
    <3> QED
      BY <2>2, <3>1, ClientTomb
  <2> QED
    BY <1>1, <2>1, <2>2, LifecycleTomb DEF Continue
<1>2. ASSUME NEW p \in Callers, Call(p) PROVE TombInv'
  <2>1. ASSUME NEW n \in Names \cup {None}, set_installation_name(p, n) PROVE TombInv'
    BY <2>1 DEF set_installation_name, client, queues, locals,
       TombInv, Tombstoned, ListBorn, EventsBorn, HeldBorn, CreateInv, LoadInv
  <2> QED
    BY <1>2, <2>1, LifecycleTomb, ClientTomb, RecordTomb DEF Call
<1>3. ASSUME NEW s \in Sessions, Consume(s) \/ Peer(s) PROVE TombInv'
  BY <1>3, EventTomb
<1>4. CASE crash
  BY <1>4, CrashTomb
<1>5. CASE UNCHANGED vars
  BY <1>5 DEF vars, TombInv, Tombstoned, ListBorn, EventsBorn, HeldBorn, CreateInv, LoadInv
<1> QED
  BY <1>1, <1>2, <1>3, <1>4, <1>5 DEF Next

\* When the calls are serialised, a deleted conversation stays deleted: no
\* inbound event, invitation, late half of a call, failed write, crash, shutdown
\* or re-init lists it again or puts its row or messages back into chat.db, and
\* the open list knows every tombstone of the database (delete_conversation,
\* the Ignored checks of the record_ functions, load_state).
THEOREM DeletedStaysDeleted ==
    ASSUME OneCaller
    PROVE  Spec => []Tombstoned
<1>1. Init => Parts /\ TombInv
  BY InitParts, InitTomb
<1>2. Parts /\ TombInv /\ [Next]_vars => (Parts /\ TombInv)'
  BY NextParts, NextTomb
<1>3. TombInv => Tombstoned
  BY DEF TombInv
<1> QED
  BY <1>1, <1>2, <1>3, PTL DEF Spec

\* Where the steps of a call can bring a caller.
LEMMA Elsewhere ==
    ASSUME CallsOK, NEW p \in Callers, NEW c,
           \/ Return(p) \/ UNCHANGED call
           \/ \E label \in PC \ {"init_seed"} : Enter(p, label, c) \/ Goto(p, label)
    PROVE  \A q \in Callers : call'[q].pc = "init_seed" => call[q].pc = "init_seed"
<1>1. call \in [Callers -> Locals]
  BY DEF CallsOK
<1>2. CASE Return(p)
  BY <1>1, <1>2 DEF Return, Idle
<1>3. CASE UNCHANGED call
  BY <1>3
<1>4. ASSUME NEW label \in PC \ {"init_seed"}, Enter(p, label, c) \/ Goto(p, label)
      PROVE  \A q \in Callers : call'[q].pc = "init_seed" => call[q].pc = "init_seed"
  BY <1>1, <1>4 DEF Enter, Goto, Idle, Locals
<1> QED
  BY <1>2, <1>3, <1>4
=============================================================================
