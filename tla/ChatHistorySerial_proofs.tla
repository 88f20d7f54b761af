----------------------- MODULE ChatHistorySerial_proofs -----------------------
(***************************************************************************)
(* Proofs about ChatHistory when the calls are serialised, against the     *)
(* event consumers, peers, failed writes and crashes: a live chat is one   *)
(* the client holds, and every message the module told its consumers of is *)
(* in chat.db.  With two callers both are false: a shutdown and an init    *)
(* between the halves of a create or a send leave the second half with     *)
(* another session's list.                                                 *)
(***************************************************************************)
EXTENDS ChatHistoryHeld_proofs

LEMMA SerialController == OneCaller => OneController
  BY ThreadsAssumption DEF OneCaller, OneController

\* A create holds what it is about to insert, a send has its chat in the open
\* list until it has recorded the message, a closed list is empty, and the
\* events of the installed session are of conversations it holds.
CreateHeld == \A p \in Callers :
    call[p].pc = "create_record" => installed # 0 /\ call[p].convo \in held[installed]
SendListed == \A p \in Callers :
    call[p].pc \in {"send_client", "send_record"} => chat_db /\ chats[call[p].convo] # None
ClosedEmpty == ~chat_db => \A c \in Convos : chats[c] = None
EventsHeld == \A s \in Sessions : s = installed =>
    \A i \in DOMAIN events[s] : events[s][i].convo \in held[s]
SerialInv == CreateHeld /\ SendListed /\ ClosedEmpty /\ EventsHeld /\ LiveIsHeld

\* While a call is under way nothing but it, the events and a crash happens.
LEMMA BusySteps ==
    ASSUME OneCaller, [Next]_vars, NEW q \in Callers, call[q].pc # "idle"
    PROVE  \/ Continue(q) \/ crash \/ UNCHANGED vars
           \/ \E s \in Sessions : Consume(s) \/ Peer(s)
<1>1. ~Call(q)
  BY DEF Call, init_load, shutdown_take, create_conversation, create_group_conversation,
     create_client, add_group_member_check, send_message_check, delete_conversation,
     set_conversation_nickname, set_installation_name
<1>2. \A p \in Callers : p = q
  BY DEF OneCaller
<1> QED
  BY <1>1, <1>2 DEF Next

LEMMA EventsOpen ==
    ASSUME LifeInv, NEW s \in Sessions, events[s] # << >> \/ held[s] # {}
    PROVE  chat_db
<1>1. Active(s)
  BY DEF LifeInv, ClientsLife
<1>2. 0 \notin Sessions
  BY BoundsAssumption DEF Sessions
<1> QED
  BY <1>1, <1>2 DEF Active, Stopping, LifeInv, CallsLife, InitialisedOpen

\* The installed client loses no conversation.
LEMMA HeldGrows ==
    ASSUME Parts, LifeInv, [Next]_vars, installed' # 0, NEW s \in Sessions, s = installed
    PROVE  held[s] \subseteq held'[s]
<1> USE DEF display, disk, names, client, queues, locals, told, writes, history
<1>0. held \in [Sessions -> SUBSET Convos]
  BY DEF Parts, ClientOK
<1>1. CASE UNCHANGED <<held, peers, born>> \/ \E p \in Callers : add_group_member_client(p)
  BY <1>1 DEF add_group_member_client
<1>2. CASE crash
  BY <1>2 DEF crash
<1>3. ASSUME NEW p \in Callers, shutdown_drop(p) PROVE FALSE
  BY <1>3 DEF shutdown_drop, LifeInv, CallsLife, LifePC
<1>4. ASSUME NEW p \in Callers, NEW k \in Convos, create_client(p, k)
      PROVE  held[s] \subseteq held'[s]
  BY <1>0, <1>4 DEF create_client
<1>5. ASSUME NEW t \in Sessions, NEW k \in Convos, peer_invites(t, k)
      PROVE  held[s] \subseteq held'[s]
  BY <1>0, <1>5 DEF peer_invites
<1> QED
  BY <1>1, <1>2, <1>3, <1>4, <1>5, ClientSteps DEF create_conversation, create_group_conversation

\* The consumer and the peers remove nothing from the list.
LEMMA EventsKeepList ==
    ASSUME Parts, NEW s \in Sessions, Consume(s) \/ Peer(s)
    PROVE  /\ UNCHANGED <<installed, chat_db, deleted, call>>
           /\ \A c \in Convos : chats[c] # None => chats'[c] # None
<1> USE DEF display, disk, names, client, queues, locals, told, writes, history
<1>1. UNCHANGED <<installed, chat_db, deleted, call>>
  BY DEF Consume, Peer, fetch_metadata, record_conversation_started, record_message_received,
     record_members_changed, peer_invites, peer_sends, peer_changes_members
<1>2. CASE fetch_metadata(s) \/ record_members_changed(s) \/ Peer(s)
  BY <1>1, <1>2 DEF fetch_metadata, record_members_changed, Peer, peer_invites, peer_sends,
     peer_changes_members
<1>3. CASE record_conversation_started(s)
  <2>1. PICK k \in Convos : k = Head(events[s]).convo
    BY <1>3, HeadTypes DEF record_conversation_started, Handling, Parts
  <2>2. \/ chats' = chats
        \/ chats[k] # None /\ chats' = [chats EXCEPT ![k] = Revived(@)]
        \/ chats' = [chats EXCEPT ![k] = Fresh(started_row(s, k))]
    BY <1>3, <2>1 DEF record_conversation_started
  <2>3. chats[k] # None => Revived(chats[k]) # None
    BY ListTypes, SessionTypes, NoneAssumption DEF Parts
  <2>4. Fresh(started_row(s, k)) # None
    BY RowTypes, SessionTypes, NoneAssumption
  <2> QED
    BY <1>1, <2>2, <2>3, <2>4 DEF Parts, Lists
<1>4. CASE record_message_received(s)
  <2>1. PICK k \in Convos : k = Head(events[s]).convo
    BY <1>4, HeadTypes DEF record_message_received, Handling, Parts
  <2> DEFINE chat == with_peer(session_for(k))
             m == Head(events[s]).msg
  <2>2. \/ chats' = chats
        \/ chats' = [chats EXCEPT ![k] = Push(chat, m)]
        \/ chats' = [chats EXCEPT ![k] = chat]
    BY <1>4, <2>1 DEF record_message_received
  <2>3. m \in Msgs /\ session_for(k) \in ChatSession
    BY <1>4, HeadTypes, ListTypes, RowTypes, SessionTypes
    DEF record_message_received, Handling, Parts, session_for
  <2>4. chat # None /\ Push(chat, m) # None
    BY <2>3, SessionTypes, NoneAssumption
  <2> HIDE DEF chat, m
  <2> QED
    BY <1>1, <2>2, <2>4 DEF Parts, Lists
<1> QED
  BY <1>1, <1>2, <1>3, <1>4 DEF Consume

-----------------------------------------------------------------------------
(***************************************************************************)
(* A live chat is held                                                     *)
(***************************************************************************)
LEMMA NextCreateHeld ==
    ASSUME OneCaller, Parts, LifeInv, SerialInv, [Next]_vars
    PROVE  CreateHeld'
<1> SUFFICES ASSUME NEW q \in Callers, call'[q].pc = "create_record"
             PROVE  installed' # 0 /\ call'[q].convo \in held'[installed']
  BY DEF CreateHeld
<1> USE DEF display, disk, names, client, queues, locals, told, writes, history
<1>1. ASSUME NEW c \in Convos, call'[q].convo = c, create_client(q, c)
      PROVE  installed' # 0 /\ call'[q].convo \in held'[installed']
  BY <1>1 DEF create_client, StateInstalled, Parts, ClientOK
<1>2. CASE call'[q] = call[q]
  <2>1. installed # 0 /\ call[q].convo \in held[installed] /\ installed \in Sessions
    BY <1>2 DEF SerialInv, CreateHeld, Parts, ClientOK
  <2>2. installed' = installed
    <3>1. Continue(q) => create_record(q)
      BY <1>2 DEF Continue, init_fail, init_seed, shutdown_drop, shutdown_reset,
         send_message_client, send_message_record, add_group_member_client
    <3>2. create_record(q) => installed' = installed
      BY DEF create_record
    <3>3. ~crash
      BY <1>2 DEF crash, Idle
    <3>4. UNCHANGED vars => installed' = installed
      BY DEF vars
    <3> QED
      BY <1>2, <3>1, <3>2, <3>3, <3>4, BusySteps, EventsKeepList
  <2> QED
    BY <1>2, <2>1, <2>2, HeldGrows
<1> QED
  BY <1>1, <1>2, CallSteps DEF LifePC

LEMMA NextSendListed ==
    ASSUME OneCaller, Parts, LifeInv, SerialInv, [Next]_vars
    PROVE  SendListed'
<1> SUFFICES ASSUME NEW q \in Callers, call'[q].pc \in {"send_client", "send_record"}
             PROVE  chat_db' /\ chats'[call'[q].convo] # None
  BY DEF SendListed
<1> USE DEF display, disk, names, client, queues, locals, told, writes, history
<1>0. Parts'
  BY NextParts
<1>1. ASSUME NEW c \in Convos, call'[q].convo = c, check_live(c),
             add_group_member_check(q, c) \/ send_message_check(q, c)
      PROVE  chat_db' /\ chats'[call'[q].convo] # None
  BY <1>1 DEF add_group_member_check, send_message_check, check_live, SerialInv, ClosedEmpty
<1>2. CASE call'[q].convo = call[q].convo /\ send_message_client(q)
  BY <1>2 DEF send_message_client, SerialInv, SendListed
<1>3. CASE call'[q] = call[q]
  <2>1. PICK c \in Convos : c = call[q].convo
    BY <1>3 DEF Parts, CallsOK
  <2>2. chat_db /\ chats[c] # None
    BY <1>3, <2>1 DEF SerialInv, SendListed
  <2>3. CASE Continue(q)
    <3>1. send_message_client(q)
      <4>1. send_message_client(q) \/ send_message_record(q)
        BY <1>3, <2>3 DEF Continue, init_fail, init_seed, shutdown_drop, shutdown_reset,
           create_record, add_group_member_client
      <4>2. send_message_record(q) => call'[q].pc = "idle"
        BY DEF send_message_record, Return, Idle, Parts, CallsOK
      <4> QED
        BY <4>1, <4>2
    <3> QED
      BY <1>2, <1>3, <3>1
  <2>4. ~crash
    BY <1>3 DEF crash, Idle
  <2>5. CASE UNCHANGED vars
    BY <1>3, <2>1, <2>2, <2>5 DEF vars
  <2>6. ASSUME NEW s \in Sessions, Consume(s) \/ Peer(s)
        PROVE  chat_db' /\ chats'[c] # None
    BY <2>2, <2>6, EventsKeepList
  <2> QED
    BY <1>3, <2>1, <2>3, <2>4, <2>5, <2>6, BusySteps
<1> QED
  BY <1>1, <1>2, <1>3, CallSteps DEF LifePC

LEMMA NextClosedEmpty ==
    ASSUME OneCaller, Parts, LifeInv, SerialInv, [Next]_vars
    PROVE  ClosedEmpty'
<1> SUFFICES ASSUME ~chat_db' PROVE \A c \in Convos : chats'[c] = None
  BY DEF ClosedEmpty
<1> USE DEF display, disk, names, client, queues, locals, told, writes, history
<1>0. ~chat_db => \A c \in Convos : chats[c] = None
  BY DEF SerialInv, ClosedEmpty
<1>1. CASE UNCHANGED listing
  BY <1>0, <1>1 DEF listing
<1>2. CASE crash \/ \E p \in Callers : shutdown_reset(p)
  BY <1>2 DEF crash, shutdown_reset, NoChats
<1>3. ASSUME NEW p \in Callers, init_seed(p) PROVE FALSE
  BY <1>3 DEF init_seed
<1>4. ASSUME NEW p \in Callers, create_record(p) PROVE FALSE
  <2>1. installed # 0 /\ chat_db' = chat_db
    BY <1>4 DEF create_record, SerialInv, CreateHeld
  <2> QED
    BY <2>1 DEF LifeInv, InitialisedOpen
<1>5. ASSUME NEW p \in Callers, send_message_record(p) PROVE FALSE
  BY <1>5 DEF send_message_record, SerialInv, SendListed
<1>6. ASSUME NEW p \in Callers, NEW k \in Convos,
             \/ delete_conversation(p, k)
             \/ \E n \in Nicknames \cup {None} : set_conversation_nickname(p, k, n)
      PROVE  FALSE
  <2>1. chats[k] # None /\ chat_db' = chat_db
    BY <1>6 DEF delete_conversation, set_conversation_nickname
  <2> QED
    BY <1>0, <2>1
<1>7. ASSUME NEW s \in Sessions, record_conversation_started(s) \/ record_message_received(s)
      PROVE  FALSE
  <2>1. events[s] # << >> /\ chat_db' = chat_db
    BY <1>7 DEF record_conversation_started, record_message_received, Handling
  <2> QED
    BY <2>1, EventsOpen
<1> QED
  BY <1>1, <1>2, <1>3, <1>4, <1>5, <1>6, <1>7, ListSteps

LEMMA NextEventsHeld ==
    ASSUME OneCaller, Parts, LifeInv, SerialInv, [Next]_vars
    PROVE  EventsHeld'
<1> SUFFICES ASSUME NEW s \in Sessions, s = installed', NEW i \in DOMAIN events'[s]
             PROVE  events'[s][i].convo \in held'[s]
  BY DEF EventsHeld
<1> USE DEF display, disk, names, client, queues, locals, told, writes, history
<1>0. EventsOK /\ held \in [Sessions -> SUBSET Convos] /\ installed' # 0
  BY BoundsAssumption DEF Parts, ClientOK, Sessions
<1>1. ~Cleared
  BY DEF Cleared
<1>2. installed = s
  BY <1>0, <1>1, SameInstalled, SerialController
<1>3. held[s] \subseteq held'[s]
  BY <1>0, <1>2, HeldGrows
<1>4. \A j \in DOMAIN events[s] : events[s][j].convo \in held'[s]
  BY <1>2, <1>3 DEF SerialInv, EventsHeld
<1>5. CASE UNCHANGED events
  BY <1>4, <1>5
<1>6. ~crash
  BY <1>1 DEF crash, Cleared
<1>7. ASSUME NEW t \in Sessions,
             \/ record_conversation_started(t) \/ record_message_received(t)
             \/ record_members_changed(t)
      PROVE  events'[s][i].convo \in held'[s]
  <2>1. events[t] # << >> /\ Done(t)
    BY <1>7 DEF record_conversation_started, record_message_received, record_members_changed,
       Handling
  <2>2. CASE s # t
    BY <1>0, <1>4, <2>1, <2>2, DoneEvents
  <2>3. CASE s = t
    <3>1. i + 1 \in DOMAIN events[s] /\ events'[s][i] = events[s][i + 1]
      BY <1>0, <2>1, <2>3, DoneEvents
    <3> QED
      BY <1>4, <3>1
  <2> QED
    BY <2>2, <2>3
<1>8. ASSUME NEW t \in Sessions, NEW k \in Convos, NEW m \in Msgs \cup {0},
             NEW y \in {"ConversationStarted", "MessageReceived", "MembersChanged"},
             Enqueue(t, y, k, m), k \in held'[t]
      PROVE  events'[s][i].convo \in held'[s]
  <2>1. CASE s # t
    BY <1>0, <1>4, <1>8, <2>1, EnqueueEvents
  <2>2. CASE s = t
    <3>1. /\ Len(events[s]) \in Nat /\ DOMAIN events[s] = 1..Len(events[s])
          /\ DOMAIN events'[s] = 1..(Len(events[s]) + 1)
          /\ \A j \in DOMAIN events[s] : events'[s][j] = events[s][j]
          /\ events'[s][Len(events[s]) + 1].convo = k
      BY <1>0, <1>8, <2>2, EnqueueEvents
    <3>2. i \in DOMAIN events[s] \/ i = Len(events[s]) + 1
      BY <3>1
    <3> QED
      BY <1>4, <1>8, <2>2, <3>1, <3>2
  <2> QED
    BY <2>1, <2>2
<1>9. ASSUME NEW t \in Sessions, NEW k \in Convos,
             peer_invites(t, k) \/ peer_sends(t, k) \/ peer_changes_members(t, k)
      PROVE  events'[s][i].convo \in held'[s]
  <2>1. k \in held'[t]
    BY <1>0, <1>9 DEF peer_invites, peer_sends, peer_changes_members
  <2> QED
    BY <1>8, <1>9, <2>1, PeerEnqueues
<1> QED
  BY <1>5, <1>6, <1>7, <1>9, QueueSteps

\* The event at the head of any queue is of a conversation the installed client
\* holds, if there is one.
LEMMA HeadHeld ==
    ASSUME OneCaller, Parts, LifeInv, SerialInv, NEW s \in Sessions, events[s] # << >>,
           installed # 0
    PROVE  s = installed /\ Head(events[s]).convo \in held[s]
<1>1. Active(s) /\ Active(installed) /\ installed \in Sessions
  BY DEF LifeInv, ClientsLife, Active, Parts, ClientOK
<1>2. s = installed
  BY <1>1, OneActive, SerialController
<1>3. Head(events[s]) = events[s][1] /\ 1 \in DOMAIN events[s]
  BY HeadTailProperties, LenProperties DEF Parts, EventsOK
<1> QED
  BY <1>2, <1>3 DEF SerialInv, EventsHeld

LEMMA NextLiveIsHeld ==
    ASSUME OneCaller, Parts, LifeInv, SerialInv, [Next]_vars
    PROVE  LiveIsHeld'
<1> SUFFICES ASSUME installed' # 0, NEW c \in Convos, check_live(c)'
             PROVE  c \in held'[installed']
  BY DEF LiveIsHeld
<1> USE DEF display, disk, names, client, queues, locals, told, writes, history
<1>1. ASSUME NEW p \in Callers, init_seed(p) PROVE FALSE
  <2>1. loaded = load_state({})
    BY <1>1 DEF init_seed, LifeInv, CallsLife
  <2>2. loaded.chats[c] # None => loaded.chats[c].history_only
    BY <2>1 DEF load_state, HistoryOnly
  <2> QED
    BY <1>1, <2>2 DEF init_seed, check_live
<1>2. PICK s \in Sessions : s = installed /\ installed' = s
  BY <1>1, InstallSteps DEF Parts, ClientOK
<1>3. held[s] \subseteq held'[s]
  BY <1>2, HeldGrows
<1>4. SUFFICES c \in held[s]
  BY <1>2, <1>3
<1>5. installed # 0 /\ (check_live(c) => c \in held[s])
  BY <1>2, BoundsAssumption DEF SerialInv, LiveIsHeld, Sessions
<1>6. chats \in Lists /\ (chats[c] # None => chats[c] \in ChatSession)
  BY ListTypes DEF Parts
<1>7. CASE UNCHANGED listing
  BY <1>5, <1>7 DEF listing, check_live
<1>8. ~crash
  BY DEF crash
<1>9. ASSUME NEW p \in Callers, shutdown_reset(p) PROVE FALSE
  BY <1>9 DEF shutdown_reset, check_live, NoChats
<1>10. ASSUME NEW p \in Callers, create_record(p) PROVE c \in held[s]
  <2>1. c # call[p].convo => chats'[c] = chats[c]
    BY <1>6, <1>10 DEF create_record, Lists
  <2>2. call[p].convo \in held[s]
    BY <1>2, <1>10 DEF create_record, SerialInv, CreateHeld
  <2> QED
    BY <1>5, <2>1, <2>2 DEF check_live
<1>11. ASSUME NEW p \in Callers, send_message_record(p) PROVE c \in held[s]
  <2>1. \/ chats'[c] = chats[c]
        \/ chats[c] # None /\ chats'[c] = Push(chats[c], call[p].msg)
    BY <1>6, <1>11 DEF send_message_record, Lists
  <2>2. chats[c] # None => Push(chats[c], call[p].msg).history_only = chats[c].history_only
    BY <1>6, LiveKept
  <2> QED
    BY <1>5, <2>1, <2>2 DEF check_live
<1>12. ASSUME NEW p \in Callers, NEW k \in Convos, delete_conversation(p, k)
       PROVE  c \in held[s]
  BY <1>5, <1>6, <1>12 DEF delete_conversation, check_live, Lists
<1>13. ASSUME NEW p \in Callers, NEW k \in Convos, NEW n \in Nicknames \cup {None},
              set_conversation_nickname(p, k, n)
       PROVE  c \in held[s]
  <2>1. \/ chats'[c] = chats[c]
        \/ /\ chats[c] # None
           /\ chats'[c] = [chats[c] EXCEPT !.row = [chats[c].row EXCEPT !.nickname = n]]
    BY <1>6, <1>13 DEF set_conversation_nickname, Lists
  <2>2. chats[c] # None =>
            [chats[c] EXCEPT !.row = [chats[c].row EXCEPT !.nickname = n]].history_only
                = chats[c].history_only
    BY <1>6 DEF ChatSession
  <2> QED
    BY <1>5, <2>1, <2>2 DEF check_live
<1>14. ASSUME NEW t \in Sessions, record_conversation_started(t) \/ record_message_received(t)
       PROVE  c \in held[s]
  <2>1. t = s /\ Head(events[t]).convo \in held[s]
    BY <1>2, <1>5, <1>14, HeadHeld
    DEF record_conversation_started, record_message_received, Handling
  <2>2. c # Head(events[t]).convo => chats'[c] = chats[c]
    BY <1>6, <1>14 DEF record_conversation_started, record_message_received, Lists
  <2> QED
    BY <1>5, <2>1, <2>2 DEF check_live
<1> QED
  BY <1>1, <1>7, <1>8, <1>9, <1>10, <1>11, <1>12, <1>13, <1>14, ListSteps

LEMMA InitSerial == Init => SerialInv
<1> SUFFICES ASSUME Init PROVE SerialInv
  OBVIOUS
<1>1. CreateHeld /\ SendListed
  BY DEF Init, CreateHeld, SendListed, Idle
<1>2. EventsHeld
  BY DEF Init, EventsHeld
<1> QED
  BY <1>1, <1>2 DEF Init, SerialInv, ClosedEmpty, LiveIsHeld, NoChats

LEMMA NextSerial ==
    ASSUME OneCaller, Parts, LifeInv, SerialInv, [Next]_vars
    PROVE  SerialInv'
  BY NextCreateHeld, NextSendListed, NextClosedEmpty, NextEventsHeld, NextLiveIsHeld
  DEF SerialInv

LEMMA SerialInvariant == ASSUME OneCaller PROVE Spec => [](Parts /\ LifeInv /\ SerialInv)
<1>1. Spec => [](Parts /\ LifeInv)
  BY SerialController, LifeInvariant
<1>2. Init => SerialInv
  BY InitSerial
<1>3. Parts /\ LifeInv /\ SerialInv /\ [Next]_vars => SerialInv'
  BY NextSerial
<1> QED
  BY <1>1, <1>2, <1>3, PTL DEF Spec

\* When the calls are serialised, a chat the list shows as live is one the
\* installed client holds: a chat of an earlier session is history only until
\* this session's client is invited back, whatever was queued when the session
\* ended and however it ended (load_state's marking, record_conversation_started,
\* the join of the consumer in shutdown).
THEOREM LiveChatsHeld == ASSUME OneCaller PROVE Spec => []LiveIsHeld
<1>1. SerialInv => LiveIsHeld
  BY DEF SerialInv
<1> QED
  BY SerialInvariant, <1>1, PTL

-----------------------------------------------------------------------------
(***************************************************************************)
(* What was told is kept                                                   *)
(***************************************************************************)
Safe(c, m) == c \in unsaved \/ Kept(c, m)

LEMMA StoredGrows ==
    ASSUME db_messages \in [Convos -> Seq(Msgs)], NEW k \in Convos, NEW m \in Msgs, NEW saved,
           db_messages' = store_message(db_messages, k, m, saved)
    PROVE  /\ \A c \in Convos : Stored(c) \subseteq Stored(c)'
           /\ saved => m \in Stored(k)'
<1>1. /\ Len(db_messages[k]) \in Nat /\ DOMAIN db_messages[k] = 1..Len(db_messages[k])
      /\ DOMAIN Append(db_messages[k], m) = 1..(Len(db_messages[k]) + 1)
      /\ \A i \in 1..Len(db_messages[k]) : Append(db_messages[k], m)[i] = db_messages[k][i]
      /\ Append(db_messages[k], m)[Len(db_messages[k]) + 1] = m
  BY AppendProperties, LenProperties
<1>2. CASE saved
  <2>1. db_messages'[k] = Append(db_messages[k], m)
        /\ \A c \in Convos \ {k} : db_messages'[c] = db_messages[c]
    BY <1>2 DEF store_message
  <2>2. m \in Stored(k)'
    BY <1>1, <2>1 DEF Stored
  <2>3. Stored(k) \subseteq Stored(k)'
    BY <1>1, <2>1 DEF Stored
  <2>4. \A c \in Convos \ {k} : Stored(c) = Stored(c)'
    BY <2>1 DEF Stored
  <2> QED
    BY <2>2, <2>3, <2>4
<1>3. CASE ~saved
  BY <1>3 DEF store_message, Stored
<1> QED
  BY <1>2, <1>3

\* A step that neither forgets a failed write or a tombstone, nor takes a row or
\* a message of a chat without one away.
LEMMA SafeKept ==
    ASSUME unsaved \subseteq unsaved', db_deleted \subseteq db_deleted', NEW c \in Convos, NEW m,
           c \in db_deleted' \/ ((db_chats[c] # None => db_chats'[c] # None)
                                 /\ Stored(c) \subseteq Stored(c)'),
           Safe(c, m)
    PROVE  Safe(c, m)'
<1>1. CASE c \in db_deleted'
  BY <1>1 DEF Safe, Kept
<1>2. CASE /\ db_chats[c] # None => db_chats'[c] # None
           /\ Stored(c) \subseteq Stored(c)'
  BY <1>2 DEF Safe, Kept
<1> QED
  BY <1>1, <1>2

LEMMA StepSafe ==
    ASSUME Parts, [Next]_vars, NEW c \in Convos, NEW m, Safe(c, m)
    PROVE  Safe(c, m)'
<1> USE DEF display, disk, names, client, queues, locals, told, writes, history
<1>0. chat_db \in BOOLEAN /\ db_chats \in Tables /\ db_messages \in [Convos -> Seq(Msgs)]
  BY DEF Parts
<1>a. ASSUME NEW k \in Convos, NEW row \in Row, NEW saved,
             db_chats' = save_chat(db_chats, k, row, saved)
      PROVE  db_chats[c] # None => db_chats'[c] # None
  BY <1>0, <1>a, NoneAssumption DEF save_chat, Tables
<1>b. UNCHANGED db_messages => Stored(c) \subseteq Stored(c)'
  BY DEF Stored
<1>1. CASE UNCHANGED <<db_chats, db_messages, db_deleted, unsaved>>
  BY <1>1 DEF Safe, Kept, Stored
<1>2. CASE UNCHANGED listing \/ crash \/ \E p \in Callers : init_seed(p) \/ shutdown_reset(p)
  BY <1>1, <1>2 DEF listing, crash, init_seed, shutdown_reset
<1>3. ASSUME NEW p \in Callers, create_record(p) PROVE Safe(c, m)'
  <2>1. PICK k \in Convos : k = call[p].convo
    BY <1>3 DEF create_record, Parts, CallsOK
  <2>2. PICK saved \in Outcomes(chat_db) :
            db_chats' = save_chat(db_chats, k, created_row(k), saved) /\ Wrote(k, chat_db, saved)
    BY <1>3, <2>1 DEF create_record
  <2>3. unsaved \subseteq unsaved'
    BY <1>0, <2>2, WroteCases
  <2>4. UNCHANGED <<db_messages, db_deleted>>
    BY <1>3 DEF create_record
  <2>5. db_chats[c] # None => db_chats'[c] # None
    BY <1>a, <2>2, RowTypes
  <2> QED
    BY <1>b, <2>3, <2>4, <2>5, SafeKept
<1>4. ASSUME NEW p \in Callers, send_message_record(p) PROVE Safe(c, m)'
  <2>1. PICK k \in Convos : k = call[p].convo
    BY <1>4 DEF send_message_record, Parts, CallsOK
  <2> DEFINE tries == chats[k] # None /\ chat_db
  <2>2. PICK saved \in Outcomes(tries) :
            /\ db_messages' = store_message(db_messages, k, call[p].msg, saved)
            /\ Wrote(k, tries, saved)
    BY <1>4, <2>1 DEF send_message_record
  <2>3. tries \in BOOLEAN /\ call[p].msg \in Msgs
    BY <1>4, <1>0 DEF send_message_record, Parts, CallsOK
  <2> HIDE DEF tries
  <2>4. unsaved \subseteq unsaved'
    BY <2>2, <2>3, WroteCases
  <2>5. UNCHANGED <<db_chats, db_deleted>>
    BY <1>4 DEF send_message_record
  <2>6. Stored(c) \subseteq Stored(c)'
    BY <1>0, <2>2, <2>3, StoredGrows
  <2> QED
    BY <2>4, <2>5, <2>6, SafeKept
<1>5. ASSUME NEW p \in Callers, NEW k \in Convos, delete_conversation(p, k) PROVE Safe(c, m)'
  <2>1. /\ UNCHANGED unsaved /\ db_deleted' = db_deleted \cup {k}
        /\ c # k => db_chats'[c] = db_chats[c] /\ db_messages'[c] = db_messages[c]
    BY <1>0, <1>5 DEF delete_conversation, Tables
  <2>2. c # k => Stored(c) = Stored(c)'
    BY <2>1 DEF Stored
  <2> QED
    BY <2>1, <2>2, SafeKept
<1>6. ASSUME NEW p \in Callers, NEW k \in Convos, NEW n \in Nicknames \cup {None},
             set_conversation_nickname(p, k, n)
      PROVE  Safe(c, m)'
  <2> DEFINE chat == [chats[k] EXCEPT !.row = [@ EXCEPT !.nickname = n]]
  <2>1. PICK saved \in Outcomes(chat_db) :
            db_chats' = save_chat(db_chats, k, chat.row, saved) /\ Wrote(k, chat_db, saved)
    BY <1>6 DEF set_conversation_nickname
  <2>2. unsaved \subseteq unsaved'
    BY <1>0, <2>1, WroteCases
  <2>3. UNCHANGED <<db_messages, db_deleted>> /\ chats[k] # None
    BY <1>6 DEF set_conversation_nickname
  <2>4. chat \in ChatSession
    BY <2>3, ListTypes, SessionTypes DEF Parts
  <2>5. chat.row \in Row
    BY <2>4, SessionTypes
  <2> HIDE DEF chat
  <2>6. db_chats[c] # None => db_chats'[c] # None
    BY <1>a, <2>1, <2>5
  <2> QED
    BY <1>b, <2>2, <2>3, <2>6, SafeKept
<1>7. ASSUME NEW s \in Sessions, record_conversation_started(s) PROVE Safe(c, m)'
  <2>1. PICK k \in Convos : k = Head(events[s]).convo
    BY <1>7, HeadTypes DEF record_conversation_started, Handling, Parts
  <2> DEFINE tries == ~Ignored(k) /\ ~(chats[k] # None) /\ chat_db
  <2>2. PICK saved \in Outcomes(tries) :
            /\ db_chats' = save_chat(db_chats, k, started_row(s, k), saved)
            /\ Wrote(k, tries, saved)
    BY <1>7, <2>1 DEF record_conversation_started
  <2>3. tries \in BOOLEAN
    BY <1>0, Zenon
  <2> HIDE DEF tries
  <2>4. unsaved \subseteq unsaved'
    BY <2>2, <2>3, WroteCases
  <2>5. UNCHANGED <<db_messages, db_deleted>>
    BY <1>7 DEF record_conversation_started
  <2>6. db_chats[c] # None => db_chats'[c] # None
    BY <1>a, <2>2, RowTypes
  <2> QED
    BY <1>b, <2>4, <2>5, <2>6, SafeKept
<1>8. ASSUME NEW s \in Sessions, record_message_received(s) PROVE Safe(c, m)'
  <2>1. PICK k \in Convos : k = Head(events[s]).convo
    BY <1>8, HeadTypes DEF record_message_received, Handling, Parts
  <2> DEFINE tries == ~Ignored(k) /\ chat_db
             chat == with_peer(session_for(k))
  <2>2. PICK saved \in Outcomes(tries) :
            /\ db_chats' = save_chat(db_chats, k, chat.row, saved /\ ChatChanged(k))
            /\ db_messages' = store_message(db_messages, k, Head(events[s]).msg, saved)
            /\ Wrote(k, tries, saved)
    BY <1>8, <2>1 DEF record_message_received
  <2>3. tries \in BOOLEAN
    BY <1>0, Zenon
  <2>4. chat.row \in Row /\ Head(events[s]).msg \in Msgs
    <3>1. session_for(k) \in ChatSession
      BY ListTypes, RowTypes, SessionTypes DEF Parts, session_for
    <3> QED
      BY <1>8, <3>1, SessionTypes, HeadTypes DEF record_message_received, Handling, Parts
  <2> HIDE DEF tries, chat
  <2>5. unsaved \subseteq unsaved'
    BY <2>2, <2>3, WroteCases
  <2>6. UNCHANGED db_deleted
    BY <1>8 DEF record_message_received
  <2>7. db_chats[c] # None => db_chats'[c] # None
    BY <1>a, <2>2, <2>4
  <2>8. Stored(c) \subseteq Stored(c)'
    BY <1>0, <2>2, <2>4, StoredGrows
  <2> QED
    BY <2>5, <2>6, <2>7, <2>8, SafeKept
<1> QED
  BY <1>2, <1>3, <1>4, <1>5, <1>6, <1>7, <1>8, ListSteps

\* What a step tells the consumers is safe when it is told.
LEMMA ToldSafe ==
    ASSUME OneCaller, Parts, LifeInv, SerialInv, DiskInv, [Next]_vars,
           NEW e \in sent' \cup received', e \notin sent \cup received
    PROVE  e[1] \in Convos /\ Safe(e[1], e[2])'
<1> USE DEF display, disk, names, client, queues, locals, told, writes, history
<1>0. chat_db \in BOOLEAN /\ db_chats \in Tables /\ db_messages \in [Convos -> Seq(Msgs)]
  BY DEF Parts
<1>1. CASE UNCHANGED <<sent, received>>
  BY <1>1
<1>2. CASE UNCHANGED listing \/ crash \/ \E p \in Callers : init_seed(p) \/ shutdown_reset(p)
  BY <1>1, <1>2 DEF listing, crash, init_seed, shutdown_reset
<1>3. ASSUME NEW p \in Callers,
             \/ create_record(p)
             \/ \E k \in Convos : \/ delete_conversation(p, k)
                                  \/ \E n \in Nicknames \cup {None} :
                                        set_conversation_nickname(p, k, n)
      PROVE  UNCHANGED <<sent, received>>
  BY <1>3 DEF create_record, delete_conversation, set_conversation_nickname
<1>4. ASSUME NEW s \in Sessions, record_conversation_started(s)
      PROVE  UNCHANGED <<sent, received>>
  BY <1>4 DEF record_conversation_started
<1>5. ASSUME NEW p \in Callers, send_message_record(p)
      PROVE  e[1] \in Convos /\ Safe(e[1], e[2])'
  <2>1. PICK k \in Convos : k = call[p].convo
    BY <1>5 DEF send_message_record, Parts, CallsOK
  <2>2. PICK m \in Msgs : m = call[p].msg
    BY <1>5 DEF send_message_record, Parts, CallsOK
  <2>3. chat_db /\ chats[k] # None
    BY <1>5, <2>1 DEF send_message_record, SerialInv, SendListed
  <2>4. PICK saved \in Outcomes(chats[k] # None /\ chat_db) :
            /\ db_messages' = store_message(db_messages, k, m, saved)
            /\ Wrote(k, chats[k] # None /\ chat_db, saved)
            /\ sent' = IF chats[k] = None \/ saved THEN sent \cup {<<k, m>>} ELSE sent
    BY <1>5, <2>1, <2>2 DEF send_message_record
  <2>5. UNCHANGED <<received, db_chats>>
    BY <1>5 DEF send_message_record
  <2>6. saved /\ e = <<k, m>>
    BY <2>3, <2>4, <2>5
  <2>7. m \in Stored(k)'
    BY <1>0, <2>4, <2>6, StoredGrows
  <2>8. k \in unsaved' \/ db_chats'[k] # None
    <3>1. k \in unsaved \/ db_chats[k] # None
      BY <2>3 DEF DiskInv, DiskConvo
    <3>2. unsaved' = unsaved
      BY <2>4, <2>6 DEF Wrote
    <3> QED
      BY <2>5, <3>1, <3>2
  <2> QED
    BY <2>6, <2>7, <2>8 DEF Safe, Kept
<1>6. ASSUME NEW s \in Sessions, record_message_received(s)
      PROVE  e[1] \in Convos /\ Safe(e[1], e[2])'
  <2>0. events[s] # << >>
    BY <1>6 DEF record_message_received, Handling
  <2>1. PICK k \in Convos : k = Head(events[s]).convo
    BY <2>0, HeadTypes DEF Parts
  <2>2. PICK m \in Msgs : m = Head(events[s]).msg
    BY <1>6, HeadTypes DEF record_message_received, Handling, Parts
  <2> DEFINE tries == ~Ignored(k) /\ chat_db
             chat == with_peer(session_for(k))
  <2>3. PICK saved \in Outcomes(tries) :
            /\ db_chats' = save_chat(db_chats, k, chat.row, saved /\ ChatChanged(k))
            /\ db_messages' = store_message(db_messages, k, m, saved)
            /\ Wrote(k, tries, saved)
    BY <1>6, <2>1, <2>2 DEF record_message_received
  <2>4. /\ sent' = sent
        /\ received' = IF Ignored(k) THEN received ELSE received \cup {<<k, m>>}
    BY <1>6, <2>1, <2>2 DEF record_message_received
  <2>5. ~Ignored(k) /\ e = <<k, m>>
    BY <2>4
  <2>6. chat_db
    BY <2>0, EventsOpen
  <2>7. tries /\ tries \in BOOLEAN
    BY <2>5, <2>6, <1>0
  <2>8. chat.row \in Row
    BY ListTypes, RowTypes, SessionTypes DEF Parts, session_for
  <2> HIDE DEF tries, chat
  <2>9. (saved /\ unsaved' = unsaved) \/ k \in unsaved'
    BY <2>3, <2>7, WroteCases
  <2>10. CASE k \in unsaved'
    BY <2>5, <2>10 DEF Safe
  <2>11. CASE saved /\ unsaved' = unsaved
    <3>1. m \in Stored(k)'
      BY <1>0, <2>3, <2>11, StoredGrows
    <3>2. CASE ChatChanged(k)
      <4>1. db_chats'[k] = chat.row
        BY <1>0, <2>3, <2>11, <3>2 DEF save_chat, Tables
      <4> QED
        BY <2>5, <2>8, <3>1, <4>1, NoneAssumption DEF Safe, Kept
    <3>3. CASE ~ChatChanged(k)
      <4>1. chats[k] # None /\ UNCHANGED db_chats
        BY <2>3, <3>3 DEF ChatChanged, save_chat
      <4>2. k \in unsaved \/ db_chats[k] # None
        BY <2>6, <4>1 DEF DiskInv, DiskConvo
      <4> QED
        BY <2>5, <2>11, <3>1, <4>1, <4>2 DEF Safe, Kept
    <3> QED
      BY <3>2, <3>3
  <2> QED
    BY <2>9, <2>10, <2>11
<1> QED
  BY <1>1, <1>2, <1>3, <1>4, <1>5, <1>6, ListSteps

\* When the calls are serialised, every message of a message_sent or a
\* message_received is in chat.db together with its chat's row, whatever is
\* queued, shut down, killed or initialised again later, unless its chat was
\* deleted or a write of it failed (record_message, record_message_received,
\* the transaction of persistence::record_message).
THEOREM ToldIsKept == ASSUME OneCaller PROVE Spec => []SurfacedKept
<1>1. Init => SurfacedKept /\ DiskInv
  BY InitDisk DEF Init, SurfacedKept
<1>2. Parts /\ LifeInv /\ SerialInv /\ DiskInv /\ SurfacedKept /\ [Next]_vars => SurfacedKept'
  <2> SUFFICES ASSUME Parts, LifeInv, SerialInv, DiskInv, SurfacedKept, [Next]_vars,
                      NEW e \in sent' \cup received'
               PROVE  Safe(e[1], e[2])'
    BY DEF SurfacedKept, Safe
  <2>1. CASE e \in sent \cup received
    <3>1. e[1] \in Convos /\ Safe(e[1], e[2])
      BY <2>1 DEF Parts, SurfacedKept, Safe
    <3> QED
      BY <3>1, StepSafe
  <2>2. CASE e \notin sent \cup received
    BY <2>2, ToldSafe
  <2> QED
    BY <2>1, <2>2
<1>3. Parts /\ LifeInv /\ DiskInv /\ [Next]_vars => DiskInv'
  BY NextDisk
<1> QED
  BY SerialInvariant, <1>1, <1>2, <1>3, PTL DEF Spec
===============================================================================
