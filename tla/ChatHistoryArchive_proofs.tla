---------------------- MODULE ChatHistoryArchive_proofs ----------------------
(***************************************************************************)
(* Proof that ChatHistory, when the calls are serialised, implements       *)
(* ConversationArchive: every step of the threads, the clients and the     *)
(* peers, of a crash or a failed write, is to a reader of the list a step  *)
(* of the archive or none.                                                 *)
(***************************************************************************)
EXTENDS ChatHistorySerial_proofs

-----------------------------------------------------------------------------
(***************************************************************************)
(* A message is recorded once                                              *)
(***************************************************************************)
Items(q) == {q[i] : i \in DOMAIN q}

\* A message no chat of the list or of the database has.
Unused(m) == \A c \in Convos :
    m \notin Items(db_messages[c]) /\ (chats[c] # None => m \notin Items(chats[c].messages))

\* A message that waits, as an event or with a send, is not recorded yet and
\* waits in one place only; numbers to come are in no place.
Arrives(s, i) == events[s][i].type = "MessageReceived"
UsedOld == \A m \in Msgs : m >= nextMsg => Unused(m)
FreshEvents == \A s \in Sessions : \A i \in DOMAIN events[s] : Arrives(s, i) =>
    /\ Unused(events[s][i].msg) /\ events[s][i].msg < nextMsg
    /\ \A t \in Sessions : \A j \in DOMAIN events[t] :
        Arrives(t, j) /\ events[t][j].msg = events[s][i].msg => s = t /\ i = j
FreshCalls == \A p \in Callers : call[p].pc = "send_record" =>
    /\ Unused(call[p].msg) /\ call[p].msg < nextMsg
    /\ \A t \in Sessions : \A j \in DOMAIN events[t] :
        Arrives(t, j) => events[t][j].msg # call[p].msg
FreshInv == UsedOld /\ FreshEvents /\ FreshCalls

LEMMA ItemsAppend ==
    ASSUME NEW q \in Seq(Msgs), NEW m \in Msgs
    PROVE  Items(Append(q, m)) = Items(q) \cup {m}
<1>1. /\ Len(q) \in Nat /\ DOMAIN q = 1..Len(q)
      /\ DOMAIN Append(q, m) = 1..(Len(q) + 1)
      /\ \A i \in 1..Len(q) : Append(q, m)[i] = q[i]
      /\ Append(q, m)[Len(q) + 1] = m
  BY AppendProperties, LenProperties
<1>2. ASSUME NEW x PROVE x \in Items(Append(q, m)) => x \in Items(q) \cup {m}
  BY <1>1 DEF Items
<1>3. ASSUME NEW x PROVE x \in Items(q) \cup {m} => x \in Items(Append(q, m))
  BY <1>1 DEF Items
<1> QED
  BY <1>2, <1>3

LEMMA ItemsNewest ==
    ASSUME NEW q \in Seq(Msgs)
    PROVE  Items(newest(q)) \subseteq Items(q) /\ newest(q) \in Seq(Msgs)
<1>1. Len(q) \in Nat /\ older(q) \in Nat /\ older(q) <= Len(q) /\ DOMAIN q = 1..Len(q)
  BY BoundsAssumption, LenProperties DEF older
<1>2. \A i \in (older(q) + 1)..Len(q) : q[i] \in Msgs
  BY <1>1, LenProperties, ElementOfSeq
<1>3. /\ newest(q) \in Seq(Msgs)
      /\ \A i \in 1..(Len(q) - older(q)) : newest(q)[i] = q[older(q) + i]
      /\ DOMAIN newest(q) = 1..(Len(q) - older(q))
  <2>1. Len(SubSeq(q, older(q) + 1, Len(q))) = Len(q) - older(q)
    BY <1>1
  <2> QED
    BY <1>1, <1>2, <2>1, SubSeqProperties, LenProperties DEF newest
<1> QED
  BY <1>1, <1>3 DEF Items

\* The step records message m.
Recorded(m) ==
    \/ \E p \in Callers : send_message_record(p) /\ m = call[p].msg
    \/ \E s \in Sessions : record_message_received(s) /\ m = Head(events[s]).msg

\* A step that records another message, or none, leaves m unused.
LEMMA UnusedKept ==
    ASSUME Parts, LifeInv, [Next]_vars, NEW m \in Msgs, Unused(m), ~Recorded(m)
    PROVE  Unused(m)'
<1> SUFFICES ASSUME NEW c \in Convos
             PROVE  /\ m \notin Items(db_messages'[c])
                    /\ chats'[c] # None => m \notin Items(chats'[c].messages)
  BY DEF Unused, Items
<1> USE DEF display, disk, names, client, queues, locals, told, writes, history
<1>0. /\ chats \in Lists /\ db_messages \in [Convos -> Seq(Msgs)]
      /\ chats[c] # None => chats[c] \in ChatSession
  BY ListTypes DEF Parts
<1>a. /\ m \notin Items(db_messages[c]) /\ m \notin Items(<< >>)
      /\ chats[c] # None => m \notin Items(chats[c].messages)
  BY DEF Unused, Items
<1>b. \A row : Fresh(row).messages = << >>
  BY DEF Fresh
<1>1. CASE UNCHANGED listing
  BY <1>1, <1>a DEF listing
<1>2. CASE crash \/ \E p \in Callers : shutdown_reset(p)
  <2>1. chats'[c] = None /\ UNCHANGED db_messages
    BY <1>2 DEF crash, shutdown_reset, NoChats
  <2> QED
    BY <1>a, <2>1
<1>3. ASSUME NEW p \in Callers, init_seed(p)
      PROVE  /\ m \notin Items(db_messages'[c])
             /\ chats'[c] # None => m \notin Items(chats'[c].messages)
  <2>1. loaded = load_state({})
    BY <1>3 DEF init_seed, LifeInv, CallsLife
  <2>2. loaded.chats[c] # None => loaded.chats[c].messages = newest(db_messages[c])
    BY <2>1 DEF load_state
  <2>3. chats'[c] = loaded.chats[c] /\ UNCHANGED db_messages
    BY <1>3 DEF init_seed
  <2>4. m \notin Items(newest(db_messages[c]))
    BY <1>0, <1>a, ItemsNewest
  <2> QED
    BY <1>a, <2>2, <2>3, <2>4
<1>4. ASSUME NEW p \in Callers, create_record(p)
      PROVE  /\ m \notin Items(db_messages'[c])
             /\ chats'[c] # None => m \notin Items(chats'[c].messages)
  <2>1. UNCHANGED db_messages /\ (chats'[c] = chats[c] \/ chats'[c] = Fresh(created_row(c)))
    BY <1>0, <1>4 DEF create_record, Lists
  <2> QED
    BY <1>a, <1>b, <2>1
<1>5. ASSUME NEW p \in Callers, send_message_record(p)
      PROVE  /\ m \notin Items(db_messages'[c])
             /\ chats'[c] # None => m \notin Items(chats'[c].messages)
  <2>1. PICK x \in Msgs : x = call[p].msg
    BY <1>5 DEF send_message_record, Parts, CallsOK
  <2>2. x # m
    BY <1>5, <2>1 DEF Recorded
  <2>3. \/ chats'[c] = chats[c]
        \/ chats[c] # None /\ chats'[c] = Push(chats[c], x)
    BY <1>0, <1>5, <2>1 DEF send_message_record, Lists
  <2>4. db_messages'[c] = db_messages[c] \/ db_messages'[c] = Append(db_messages[c], x)
    BY <1>0, <1>5, <2>1 DEF send_message_record, store_message
  <2>5. m \notin Items(db_messages'[c])
    <3>1. db_messages[c] \in Seq(Msgs)
      BY <1>0
    <3>2. Items(Append(db_messages[c], x)) = Items(db_messages[c]) \cup {x}
      BY <3>1, ItemsAppend
    <3> QED
      BY <1>a, <2>2, <2>4, <3>2
  <2>6. chats[c] # None => /\ chats[c].messages \in Seq(Msgs)
                           /\ Push(chats[c], x).messages = Append(chats[c].messages, x)
    BY <1>0, MessagesOf
  <2>7. chats[c] # None => m \notin Items(Append(chats[c].messages, x))
    BY <1>a, <2>2, <2>6, ItemsAppend
  <2> QED
    BY <1>a, <2>3, <2>5, <2>6, <2>7
<1>6. ASSUME NEW p \in Callers, NEW k \in Convos, delete_conversation(p, k)
      PROVE  /\ m \notin Items(db_messages'[c])
             /\ chats'[c] # None => m \notin Items(chats'[c].messages)
  <2>1. /\ chats'[c] = chats[c] \/ chats'[c] = None
        /\ db_messages'[c] = db_messages[c] \/ db_messages'[c] = << >>
    BY <1>0, <1>6 DEF delete_conversation, Lists
  <2> QED
    BY <1>a, <2>1
<1>7. ASSUME NEW p \in Callers, NEW k \in Convos, NEW n \in Nicknames \cup {None},
             set_conversation_nickname(p, k, n)
      PROVE  /\ m \notin Items(db_messages'[c])
             /\ chats'[c] # None => m \notin Items(chats'[c].messages)
  <2>1. /\ \/ chats'[c] = chats[c]
           \/ /\ chats[c] # None
              /\ chats'[c] = [chats[c] EXCEPT !.row = [chats[c].row EXCEPT !.nickname = n]]
        /\ UNCHANGED db_messages
    BY <1>0, <1>7 DEF set_conversation_nickname, Lists
  <2>2. chats[c] # None => [chats[c] EXCEPT !.row = [chats[c].row EXCEPT !.nickname = n]].messages
                             = chats[c].messages
    BY <1>0 DEF ChatSession
  <2> QED
    BY <1>a, <2>1, <2>2
<1>8. ASSUME NEW s \in Sessions, record_conversation_started(s)
      PROVE  /\ m \notin Items(db_messages'[c])
             /\ chats'[c] # None => m \notin Items(chats'[c].messages)
  <2>1. /\ \/ chats'[c] = chats[c]
           \/ chats[c] # None /\ chats'[c] = Revived(chats[c])
           \/ chats'[c] = Fresh(started_row(s, c))
        /\ UNCHANGED db_messages
    BY <1>0, <1>8 DEF record_conversation_started, Lists
  <2>2. chats[c] # None => Revived(chats[c]).messages = chats[c].messages
    BY <1>0, MessagesOf
  <2> QED
    BY <1>a, <1>b, <2>1, <2>2
<1>9. ASSUME NEW s \in Sessions, record_message_received(s)
      PROVE  /\ m \notin Items(db_messages'[c])
             /\ chats'[c] # None => m \notin Items(chats'[c].messages)
  <2>1. PICK x \in Msgs : x = Head(events[s]).msg
    BY <1>9, HeadTypes DEF record_message_received, Handling, Parts
  <2>2. x # m
    BY <1>9, <2>1 DEF Recorded
  <2> DEFINE chat == with_peer(session_for(c))
  <2>3. chats'[c] = chats[c] \/ chats'[c] = chat \/ chats'[c] = Push(chat, x)
    BY <1>0, <1>9, <2>1 DEF record_message_received, Lists
  <2>4. db_messages'[c] = db_messages[c] \/ db_messages'[c] = Append(db_messages[c], x)
    BY <1>0, <1>9, <2>1 DEF record_message_received, store_message
  <2>5. m \notin Items(db_messages'[c])
    <3>1. db_messages[c] \in Seq(Msgs)
      BY <1>0
    <3>2. Items(Append(db_messages[c], x)) = Items(db_messages[c]) \cup {x}
      BY <3>1, ItemsAppend
    <3> QED
      BY <1>a, <2>2, <2>4, <3>2
  <2>6. session_for(c) \in ChatSession /\ m \notin Items(session_for(c).messages)
    BY <1>0, <1>a, <1>b, RowTypes, SessionTypes DEF session_for
  <2>7. chat \in ChatSession /\ chat.messages = session_for(c).messages
    BY <2>6, MessagesOf
  <2>8. chat.messages \in Seq(Msgs) /\ Push(chat, x).messages = Append(chat.messages, x)
    BY <2>7, MessagesOf
  <2> HIDE DEF chat
  <2>9. m \notin Items(Append(chat.messages, x))
    BY <2>2, <2>6, <2>7, <2>8, ItemsAppend
  <2> QED
    BY <1>a, <2>3, <2>5, <2>6, <2>7, <2>8, <2>9
<1> QED
  BY <1>1, <1>2, <1>3, <1>4, <1>5, <1>6, <1>7, <1>8, <1>9, ListSteps

-----------------------------------------------------------------------------
\* What a step records was waiting: with a send or at the head of a queue.
LEMMA RecordedWaits ==
    ASSUME Parts, NEW m, Recorded(m)
    PROVE  \/ \E p \in Callers : /\ call[p].pc = "send_record" /\ m = call[p].msg
                                 /\ send_message_record(p)
           \/ \E s \in Sessions : /\ 1 \in DOMAIN events[s] /\ Arrives(s, 1)
                                  /\ m = events[s][1].msg /\ record_message_received(s)
<1>1. ASSUME NEW p \in Callers, send_message_record(p) PROVE call[p].pc = "send_record"
  BY <1>1 DEF send_message_record
<1>2. ASSUME NEW s \in Sessions, record_message_received(s)
      PROVE  1 \in DOMAIN events[s] /\ Arrives(s, 1) /\ Head(events[s]) = events[s][1]
  <2>1. events[s] \in Seq(Event) /\ events[s] # << >> /\ Head(events[s]).type = "MessageReceived"
    BY <1>2 DEF record_message_received, Handling, Parts, EventsOK
  <2>2. Head(events[s]) = events[s][1] /\ 1 \in DOMAIN events[s]
    BY <2>1, HeadTailProperties, LenProperties
  <2> QED
    BY <2>1, <2>2 DEF Arrives
<1> QED
  BY <1>1, <1>2 DEF Recorded

LEMMA RecordedOld ==
    ASSUME Parts, FreshInv, NEW m, Recorded(m)
    PROVE  m < nextMsg
  BY RecordedWaits DEF FreshInv, FreshCalls, FreshEvents

LEMMA CountGrows ==
    ASSUME Parts, [Next]_vars
    PROVE  /\ nextMsg \in Nat /\ nextMsg' \in {nextMsg, nextMsg + 1}
<1> USE DEF display, disk, names, client, queues, locals, told, writes, history
<1>1. ASSUME NEW p \in Callers, Continue(p) PROVE nextMsg' \in {nextMsg, nextMsg + 1}
  BY <1>1 DEF Continue, init_fail, init_seed, shutdown_drop, shutdown_reset, create_record,
     send_message_client, send_message_record, add_group_member_client
<1>2. ASSUME NEW p \in Callers, Call(p) PROVE nextMsg' = nextMsg
  BY <1>2 DEF Call, init_load, shutdown_take, create_conversation, create_group_conversation,
     create_client, add_group_member_check, send_message_check, delete_conversation,
     set_conversation_nickname, set_installation_name
<1>3. ASSUME NEW s \in Sessions, Consume(s) \/ Peer(s) PROVE nextMsg' \in {nextMsg, nextMsg + 1}
  BY <1>3 DEF Consume, Peer, fetch_metadata, record_conversation_started,
     record_message_received, record_members_changed, peer_invites, peer_sends,
     peer_changes_members
<1>4. crash \/ UNCHANGED vars => nextMsg' = nextMsg
  BY DEF crash, vars
<1>5. nextMsg \in Nat
  BY BoundsAssumption DEF Parts
<1> QED
  BY <1>1, <1>2, <1>3, <1>4, <1>5 DEF Next

LEMMA NextUsedOld ==
    ASSUME Parts, LifeInv, FreshInv, [Next]_vars
    PROVE  UsedOld'
<1> SUFFICES ASSUME NEW m \in Msgs, m >= nextMsg' PROVE Unused(m)'
  BY DEF UsedOld
<1>1. m \in Nat /\ m >= nextMsg /\ nextMsg \in Nat
  BY CountGrows, BoundsAssumption DEF Msgs
<1>2. Unused(m) /\ ~Recorded(m)
  BY <1>1, RecordedOld DEF FreshInv, UsedOld
<1> QED
  BY <1>2, UnusedKept

\* Only one consumer is done with an event in a step.
LEMMA DoneOnce ==
    ASSUME EventsOK, NEW s \in Sessions, events[s] # << >>, Done(s),
           NEW t \in Sessions, events[t] # << >>, Done(t)
    PROVE  s = t
<1>1. SUFFICES ASSUME s # t PROVE FALSE
  OBVIOUS
<1>2. /\ Len(events[s]) \in Nat \ {0} /\ DOMAIN events[s] = 1..Len(events[s])
      /\ DOMAIN events'[s] = 1..(Len(events[s]) - 1)
  BY DoneEvents
<1>3. events'[s] = events[s]
  BY <1>1, DoneEvents
<1>4. Len(events[s]) \in DOMAIN events[s] /\ Len(events[s]) \notin DOMAIN events'[s]
  BY <1>2
<1> QED
  BY <1>3, <1>4

\* Where the events of the queues come from: each was d[s] places further back,
\* or it is the one event the step added, which has the next number.
Comes(d, t, n) ==
    /\ \A s \in Sessions : record_message_received(s) => d[s] = 1
    /\ \A s \in Sessions : \A i \in DOMAIN events'[s] :
        /\ i \in Nat \ {0}
        /\ \/ i + d[s] \in DOMAIN events[s] /\ events'[s][i] = events[s][i + d[s]]
           \/ /\ s = t /\ i = n
              /\ events'[s][i].type = "MessageReceived" =>
                    events'[s][i].msg = nextMsg /\ nextMsg' = nextMsg + 1
LEMMA QueueFrom ==
    ASSUME Parts, [Next]_vars, NEW x \in Sessions
    PROVE  \E d \in [Sessions -> {0, 1}], t \in Sessions, n \in Nat : Comes(d, t, n)
<1>0. EventsOK /\ EventsOK'
  BY NextParts DEF Parts
<1>a. \A s \in Sessions : DOMAIN events[s] \subseteq Nat \ {0} /\ DOMAIN events'[s] \subseteq Nat \ {0}
  BY <1>0, LenProperties DEF EventsOK
<1> DEFINE still == [s \in Sessions |-> 0]
<1>b. still \in [Sessions -> {0, 1}] /\ \A s \in Sessions : still[s] = 0
  OBVIOUS
<1>1. ASSUME NEW u \in Sessions, events[u] # << >>, Done(u)
      PROVE  \E d \in [Sessions -> {0, 1}], t \in Sessions, n \in Nat : Comes(d, t, n)
  <2> DEFINE d == [s \in Sessions |-> IF s = u THEN 1 ELSE 0]
  <2>1. d \in [Sessions -> {0, 1}] /\ \A s \in Sessions : d[s] = IF s = u THEN 1 ELSE 0
    OBVIOUS
  <2> HIDE DEF d
  <2>2. ASSUME NEW s \in Sessions, record_message_received(s) PROVE d[s] = 1
    <3>1. events[s] # << >> /\ Done(s)
      BY <2>2 DEF record_message_received, Handling
    <3> QED
      BY <1>0, <1>1, <2>1, <3>1, DoneOnce
  <2>3. ASSUME NEW s \in Sessions, NEW i \in DOMAIN events'[s]
        PROVE  i + d[s] \in DOMAIN events[s] /\ events'[s][i] = events[s][i + d[s]]
    <3>1. i \in Nat
      BY <1>a
    <3>2. CASE s = u
      <4>1. i + 1 \in DOMAIN events[s] /\ events'[s][i] = events[s][i + 1]
        BY <1>0, <1>1, <3>2, DoneEvents
      <4> QED
        BY <2>1, <3>2, <4>1
    <3>3. CASE s # u
      <4>1. events'[s] = events[s] /\ d[s] = 0 /\ i + 0 = i
        BY <1>0, <1>1, <2>1, <3>1, <3>3, DoneEvents
      <4> QED
        BY <4>1
    <3> QED
      BY <3>2, <3>3
  <2>4. Comes(d, u, 0)
    BY <1>a, <2>2, <2>3 DEF Comes
  <2> QED
    BY <2>1, <2>4
<1>2. ASSUME \A s \in Sessions : ~record_message_received(s),
             \A s \in Sessions : \A i \in DOMAIN events'[s] :
                 i \in DOMAIN events[s] /\ events'[s][i] = events[s][i]
      PROVE  \E d \in [Sessions -> {0, 1}], t \in Sessions, n \in Nat : Comes(d, t, n)
  <2>1. \A s \in Sessions : \A i \in DOMAIN events'[s] : i + still[s] = i /\ i \in Nat \ {0}
    BY <1>a, <1>b
  <2> HIDE DEF still
  <2>2. Comes(still, x, 0)
    BY <1>2, <2>1 DEF Comes
  <2> QED
    BY <1>b, <2>2
<1>3. ASSUME NEW u \in Sessions, NEW k \in Convos, NEW m \in Msgs \cup {0},
             NEW y \in {"ConversationStarted", "MessageReceived", "MembersChanged"},
             Enqueue(u, y, k, m),
             y = "MessageReceived" => m = nextMsg /\ nextMsg' = nextMsg + 1,
             \A s \in Sessions : ~record_message_received(s)
      PROVE  \E d \in [Sessions -> {0, 1}], t \in Sessions, n \in Nat : Comes(d, t, n)
  <2> DEFINE n == Len(events[u]) + 1
  <2>1. /\ \A s \in Sessions \ {u} : events'[s] = events[s]
        /\ n \in Nat /\ DOMAIN events[u] = 1..(n - 1) /\ DOMAIN events'[u] = 1..n
        /\ \A i \in DOMAIN events[u] : events'[u][i] = events[u][i]
        /\ events'[u][n].type = y /\ events'[u][n].msg = m
    BY <1>0, <1>3, EnqueueEvents
  <2> HIDE DEF n
  <2>2. ASSUME NEW s \in Sessions, NEW i \in DOMAIN events'[s]
        PROVE  /\ i \in Nat \ {0} /\ i + still[s] = i
               /\ \/ i \in DOMAIN events[s] /\ events'[s][i] = events[s][i]
                  \/ s = u /\ i = n
    <3>1. i \in Nat \ {0} /\ i + still[s] = i
      BY <1>a, <1>b
    <3>2. CASE s = u
      <4>1. i = n \/ i \in DOMAIN events[u]
        BY <2>1, <3>2
      <4> QED
        BY <2>1, <3>1, <3>2, <4>1
    <3>3. CASE s # u
      BY <2>1, <3>1, <3>3
    <3> QED
      BY <3>2, <3>3
  <2>3. events'[u][n].type = "MessageReceived" =>
            events'[u][n].msg = nextMsg /\ nextMsg' = nextMsg + 1
    BY <1>3, <2>1
  <2> HIDE DEF still
  <2>4. Comes(still, u, n)
    BY <1>3, <2>2, <2>3 DEF Comes
  <2> QED
    BY <1>b, <2>1, <2>4
<1>4. CASE \E s \in Sessions : \/ record_conversation_started(s) \/ record_message_received(s)
                               \/ record_members_changed(s)
  <2>1. \E s \in Sessions : events[s] # << >> /\ Done(s)
    BY <1>4 DEF record_conversation_started, record_message_received, record_members_changed,
       Handling
  <2> QED
    BY <1>1, <2>1
<1>5. CASE UNCHANGED events /\ \A s \in Sessions : ~record_message_received(s)
  BY <1>2, <1>5
<1>6. CASE crash /\ \A s \in Sessions : ~record_message_received(s)
  <2>1. \A s \in Sessions : DOMAIN events'[s] = {}
    BY <1>6 DEF crash
  <2> QED
    BY <1>2, <1>6, <2>1
<1>7. ASSUME NEW u \in Sessions, NEW k \in Convos,
             peer_invites(u, k) \/ peer_sends(u, k) \/ peer_changes_members(u, k),
             \A s \in Sessions : ~record_message_received(s)
      PROVE  \E d \in [Sessions -> {0, 1}], t \in Sessions, n \in Nat : Comes(d, t, n)
  <2>1. CASE peer_sends(u, k)
    <3>1. nextMsg \in Msgs /\ Enqueue(u, "MessageReceived", k, nextMsg) /\ nextMsg' = nextMsg + 1
      BY <2>1, PeerEnqueues DEF peer_sends
    <3> QED
      BY <1>3, <1>7, <3>1
  <2>2. CASE peer_invites(u, k)
    <3>1. Enqueue(u, "ConversationStarted", k, 0)
      BY <2>2, PeerEnqueues
    <3> QED
      BY <1>3, <1>7, <3>1
  <2>3. CASE peer_changes_members(u, k)
    <3>1. Enqueue(u, "MembersChanged", k, 0)
      BY <2>3, PeerEnqueues
    <3> QED
      BY <1>3, <1>7, <3>1
  <2> QED
    BY <1>7, <2>1, <2>2, <2>3
<1> QED
  BY <1>4, <1>5, <1>6, <1>7, QueueSteps

LEMMA NextFreshEvents ==
    ASSUME Parts, LifeInv, FreshInv, [Next]_vars
    PROVE  FreshEvents'
<1> SUFFICES ASSUME NEW s \in Sessions, NEW i \in DOMAIN events'[s], NEW m,
                    events'[s][i].type = "MessageReceived", m = events'[s][i].msg
             PROVE  /\ Unused(m)' /\ m < nextMsg'
                    /\ \A t \in Sessions : \A j \in DOMAIN events'[t] :
                        events'[t][j].type = "MessageReceived" /\ events'[t][j].msg = m
                        => s = t /\ i = j
  BY DEF FreshEvents, Arrives, Unused
<1>0. nextMsg \in Nat /\ nextMsg' \in {nextMsg, nextMsg + 1} /\ \A x \in Msgs : x \in Nat
  BY CountGrows, BoundsAssumption DEF Msgs
<1>1. m \in Msgs
  <2>1. EventsOK'
    BY NextParts DEF Parts
  <2> QED
    BY <2>1 DEF EventsOK
<1>2. PICK d \in [Sessions -> {0, 1}], u \in Sessions, n \in Nat : Comes(d, u, n)
  BY QueueFrom
<1>3. /\ \A t \in Sessions : record_message_received(t) => d[t] = 1
      /\ \A t \in Sessions : \A j \in DOMAIN events'[t] :
        /\ j \in Nat \ {0} /\ d[t] \in {0, 1}
        /\ \/ j + d[t] \in DOMAIN events[t] /\ events'[t][j] = events[t][j + d[t]]
           \/ /\ t = u /\ j = n
              /\ events'[t][j].type = "MessageReceived" =>
                    events'[t][j].msg = nextMsg /\ nextMsg' = nextMsg + 1
  BY <1>2 DEF Comes
<1>4. \A t \in Sessions : \A k \in DOMAIN events[t] :
        events[t][k].type = "MessageReceived" => events[t][k].msg < nextMsg
  BY DEF FreshInv, FreshEvents, Arrives
<1>5. CASE i + d[s] \in DOMAIN events[s] /\ events'[s][i] = events[s][i + d[s]]
  <2>1. PICK k \in DOMAIN events[s] : k = i + d[s] /\ events[s][k] = events'[s][i]
    BY <1>5
  <2>2. /\ Unused(m) /\ m < nextMsg
        /\ \A t \in Sessions : \A j \in DOMAIN events[t] :
            Arrives(t, j) /\ events[t][j].msg = m => s = t /\ k = j
    BY <1>1, <2>1 DEF FreshInv, FreshEvents, Arrives
  <2>3. ~Recorded(m)
    <3>1. ASSUME NEW p \in Callers, call[p].pc = "send_record", m = call[p].msg PROVE FALSE
      BY <1>1, <2>1, <3>1 DEF FreshInv, FreshCalls, Arrives
    <3>2. ASSUME NEW t \in Sessions, 1 \in DOMAIN events[t], Arrives(t, 1), m = events[t][1].msg,
                 record_message_received(t)
          PROVE  FALSE
      <4>1. t = s /\ k = 1
        BY <2>2, <3>2
      <4>2. d[s] = 1 /\ i \in Nat \ {0}
        BY <1>3, <3>2, <4>1
      <4> QED
        BY <2>1, <4>1, <4>2
    <3> QED
      BY <3>1, <3>2, RecordedWaits
  <2>4. Unused(m)'
    BY <1>1, <2>2, <2>3, UnusedKept
  <2>5. ASSUME NEW t \in Sessions, NEW j \in DOMAIN events'[t],
               events'[t][j].type = "MessageReceived", events'[t][j].msg = m
        PROVE  s = t /\ i = j
    <3>1. j + d[t] \in DOMAIN events[t] /\ events'[t][j] = events[t][j + d[t]]
      BY <1>0, <1>3, <2>2, <2>5
    <3>2. s = t /\ k = j + d[t]
      BY <2>2, <2>5, <3>1 DEF Arrives
    <3> QED
      BY <1>3, <2>1, <3>2
  <2>6. m < nextMsg'
    BY <1>0, <1>1, <2>2
  <2> QED
    BY <1>1, <2>4, <2>5, <2>6
<1>6. CASE s = u /\ i = n /\ m = nextMsg /\ nextMsg' = nextMsg + 1
  <2>1. Unused(m) /\ ~Recorded(m)
    <3>1. ~(m < nextMsg) /\ m >= nextMsg
      BY <1>0, <1>6
    <3> QED
      BY <1>1, <3>1, RecordedOld DEF FreshInv, UsedOld
  <2>2. Unused(m)' /\ m < nextMsg'
    BY <1>0, <1>1, <1>6, <2>1, UnusedKept
  <2>3. ASSUME NEW t \in Sessions, NEW j \in DOMAIN events'[t],
               events'[t][j].type = "MessageReceived", events'[t][j].msg = m
        PROVE  s = t /\ i = j
    <3>1. ~(j + d[t] \in DOMAIN events[t] /\ events'[t][j] = events[t][j + d[t]])
      BY <1>0, <1>4, <1>6, <2>3
    <3> QED
      BY <1>3, <1>6, <3>1
  <2> QED
    BY <1>1, <2>2, <2>3
<1> QED
  BY <1>1, <1>3, <1>5, <1>6

LEMMA NextFreshCalls ==
    ASSUME OneCaller, Parts, LifeInv, FreshInv, [Next]_vars
    PROVE  FreshCalls'
<1> SUFFICES ASSUME NEW q \in Callers, NEW m, call'[q].pc = "send_record", m = call'[q].msg
             PROVE  /\ Unused(m)' /\ m < nextMsg'
                    /\ \A t \in Sessions : \A j \in DOMAIN events'[t] :
                        events'[t][j].type = "MessageReceived" => events'[t][j].msg # m
  BY DEF FreshCalls, Arrives, Unused
<1>0. nextMsg \in Nat /\ nextMsg' \in {nextMsg, nextMsg + 1} /\ \A x \in Msgs : x \in Nat
  BY CountGrows, BoundsAssumption DEF Msgs
<1>1. m \in Msgs
  <2>1. CallsOK'
    BY NextParts DEF Parts
  <2> QED
    BY <2>1 DEF CallsOK
<1>2. CASE call'[q] = call[q]
  <2>1. /\ Unused(m) /\ m < nextMsg
        /\ \A t \in Sessions : \A j \in DOMAIN events[t] :
            Arrives(t, j) => events[t][j].msg # m
    BY <1>1, <1>2 DEF FreshInv, FreshCalls
  <2>2. ~Recorded(m)
    <3>1. ASSUME NEW p \in Callers, send_message_record(p) PROVE FALSE
      <4>1. p = q
        BY DEF OneCaller
      <4>2. call'[q].pc = "idle"
        BY <3>1, <4>1 DEF send_message_record, Return, Idle, Parts, CallsOK
      <4> QED
        BY <4>2
    <3> QED
      BY <2>1, <3>1, RecordedWaits
  <2>3. Unused(m)' /\ m < nextMsg'
    BY <1>0, <1>1, <2>1, <2>2, UnusedKept
  <2>4. ASSUME NEW t \in Sessions, NEW j \in DOMAIN events'[t],
               events'[t][j].type = "MessageReceived"
        PROVE  events'[t][j].msg # m
    <3>1. PICK d \in [Sessions -> {0, 1}], u \in Sessions, n \in Nat : Comes(d, u, n)
      BY QueueFrom
    <3>2. \/ j + d[t] \in DOMAIN events[t] /\ events'[t][j] = events[t][j + d[t]]
          \/ events'[t][j].msg = nextMsg
      BY <2>4, <3>1 DEF Comes
    <3> QED
      BY <1>0, <2>1, <2>4, <3>2 DEF Arrives
  <2> QED
    BY <1>1, <2>3, <2>4
<1>3. CASE send_message_client(q)
  <2>1. m = nextMsg /\ nextMsg' = nextMsg + 1 /\ UNCHANGED events
    <3>1. call \in [Callers -> Locals]
      BY DEF Parts, CallsOK
    <3>2. Return(q) => call'[q].pc = "idle"
      BY <3>1 DEF Return, Idle
    <3>3. /\ call' = [call EXCEPT ![q] = [@ EXCEPT !.pc = "send_record", !.msg = nextMsg]]
          /\ nextMsg' = nextMsg + 1 /\ UNCHANGED events
      BY <1>3, <3>2 DEF send_message_client, queues
    <3>4. call'[q].msg = nextMsg
      BY <3>1, <3>3 DEF Locals
    <3> QED
      BY <1>1, <3>3, <3>4
  <2>2. ~(m < nextMsg) /\ m >= nextMsg /\ m < nextMsg'
    BY <1>0, <2>1
  <2>3. Unused(m) /\ ~Recorded(m)
    BY <1>1, <2>2, RecordedOld DEF FreshInv, UsedOld
  <2>4. Unused(m)'
    BY <1>1, <2>3, UnusedKept
  <2>5. \A t \in Sessions : \A j \in DOMAIN events[t] :
          events[t][j].type = "MessageReceived" => events[t][j].msg < nextMsg
    BY DEF FreshInv, FreshEvents, Arrives
  <2> QED
    BY <1>1, <2>1, <2>2, <2>4, <2>5
<1> QED
  BY <1>2, <1>3, CallSteps DEF LifePC

LEMMA InitFresh == Init => FreshInv
<1> SUFFICES ASSUME Init PROVE FreshInv
  OBVIOUS
<1>1. \A m : Unused(m)
  BY DEF Init, Unused, Items, NoChats
<1>2. \A s \in Sessions : DOMAIN events[s] = {}
  BY DEF Init
<1>3. \A p \in Callers : call[p].pc = "idle"
  BY DEF Init, Idle
<1> QED
  BY <1>1, <1>2, <1>3 DEF FreshInv, UsedOld, FreshEvents, FreshCalls

LEMMA NextFresh ==
    ASSUME OneCaller, Parts, LifeInv, FreshInv, [Next]_vars
    PROVE  FreshInv'
<1>1. UsedOld'
  BY NextUsedOld
<1>2. FreshEvents'
  BY NextFreshEvents
<1>3. FreshCalls'
  BY NextFreshCalls
<1> QED
  BY <1>1, <1>2, <1>3 DEF FreshInv

-----------------------------------------------------------------------------
(***************************************************************************)
(* The steps of the archive, in the variables of the code                  *)
(***************************************************************************)
\* The archive's rows and its view.
Rows == {c \in Convos : db_chats[c] # None}
View == [c \in Convos |-> IF c \in list_conversations THEN get_messages(c) ELSE None]

\* The conversations being created when the callers are where k says.
ClaimsIn(k) == {c \in Convos : \E p \in Callers : k[p].pc = "create_record" /\ k[p].convo = c}
Claims == ClaimsIn(call)

LEMMA OnlyClaim ==
    ASSUME OneCaller, NEW p \in Callers, NEW k
    PROVE  /\ k[p].pc # "create_record" => ClaimsIn(k) = {}
           /\ \A c \in Convos : k[p].pc = "create_record" /\ k[p].convo = c => ClaimsIn(k) = {c}
  BY DEF OneCaller, ClaimsIn

\* A conversation is claimed by the first half of a create and released by the
\* second, or lost in a crash.
LEMMA ClaimSteps ==
    ASSUME OneCaller, Parts, [Next]_vars
    PROVE  \/ UNCHANGED Claims \/ crash
           \/ \E p \in Callers : create_record(p) \/ \E c \in Convos : create_client(p, c)
<1> USE DEF display, disk, names, client, queues, locals, told, writes, history
<1>1. ASSUME UNCHANGED call PROVE UNCHANGED Claims
  BY <1>1 DEF Claims
<1>2. ASSUME NEW p \in Callers, call[p].pc # "create_record", call'[p].pc # "create_record"
      PROVE  UNCHANGED Claims
  BY <1>2, OnlyClaim DEF Claims
<1>3. ASSUME NEW s \in Sessions, Consume(s) \/ Peer(s) PROVE UNCHANGED Claims
  BY <1>1, <1>3, EventsKeepList
<1>4. ASSUME NEW p \in Callers, Continue(p), ~create_record(p) PROVE UNCHANGED Claims
  <2>1. call[p].pc # "create_record" /\ ~\E c \in Convos : create_client(p, c)
    BY <1>4 DEF Continue, init_seed, init_fail, shutdown_drop, shutdown_reset, create_client,
       add_group_member_client, send_message_client, send_message_record
  <2>2. call'[p].pc # "create_record"
    BY <2>1, CallSteps DEF LifePC
  <2> QED
    BY <1>2, <2>1, <2>2
<1>5. ASSUME NEW p \in Callers, Call(p), ~\E c \in Convos : create_client(p, c)
      PROVE  UNCHANGED Claims
  <2>1. call[p].pc # "create_record"
    BY <1>5 DEF Call, init_load, shutdown_take, create_conversation, create_client,
       create_group_conversation, add_group_member_check, send_message_check,
       set_conversation_nickname, delete_conversation, set_installation_name
  <2>2. call'[p].pc # "create_record"
    BY <1>5, <2>1, CallSteps DEF LifePC
  <2> QED
    BY <1>2, <2>1, <2>2
<1>6. UNCHANGED vars => UNCHANGED Claims
  BY <1>1 DEF vars
<1> QED
  BY <1>3, <1>4, <1>5, <1>6 DEF Next

LEMMA OpenStep ==
    ASSUME ~chat_db, chat_db' = TRUE, UNCHANGED <<Rows, db_messages, db_deleted, Claims>>,
           View' = [c \in Convos |-> IF c \in Rows THEN Archive!Newest(db_messages[c]) ELSE None]
    PROVE  Archive!Next
<1>1. Archive!Open
  BY DEF Archive!Open, Archive!archive, View, Rows, Claims, ClaimsIn
<1> QED
  BY <1>1 DEF Archive!Next

LEMMA CloseStep ==
    ASSUME chat_db, chat_db' = FALSE, UNCHANGED <<Rows, db_messages, db_deleted>>,
           View' = [c \in Convos |-> None], Claims' = {}
    PROVE  Archive!Next
<1>1. Archive!Close
  BY DEF Archive!Close, Archive!archive, View, Rows, Claims, ClaimsIn
<1> QED
  BY <1>1 DEF Archive!Next

LEMMA ClaimStep ==
    ASSUME NEW c \in Convos, chat_db, c \notin Rows \cup db_deleted \cup Claims, View[c] = None,
           Claims' = Claims \cup {c}, UNCHANGED <<Rows, db_messages, db_deleted, chat_db, View>>
    PROVE  Archive!Next
<1>1. Archive!Claim(c)
  BY DEF Archive!Claim, Archive!archive, View, Rows, Claims, ClaimsIn
<1> QED
  BY <1>1 DEF Archive!Next

LEMMA StartStep ==
    ASSUME NEW c \in Convos, chat_db, c \notin db_deleted, View[c] = None,
           View' = [View EXCEPT ![c] = << >>], Rows' \in {Rows, Rows \cup {c}},
           Claims' \in {Claims, Claims \ {c}}, UNCHANGED <<db_messages, db_deleted, chat_db>>
    PROVE  Archive!Next
<1>1. Archive!Start(c)
  BY DEF Archive!Start, View, Rows, Claims, ClaimsIn
<1> QED
  BY <1>1 DEF Archive!Next

LEMMA SupersedeStep ==
    ASSUME NEW c \in Convos, chat_db, c \notin db_deleted, View[c] # None, c \in Claims,
           View' = [View EXCEPT ![c] = << >>], Rows' \in {Rows, Rows \cup {c}},
           Claims' = Claims \ {c}, UNCHANGED <<db_messages, db_deleted, chat_db>>
    PROVE  Archive!Next
<1>1. Archive!Supersede(c)
  BY DEF Archive!Supersede, View, Rows, Claims, ClaimsIn
<1> QED
  BY <1>1 DEF Archive!Next

LEMMA SaveStep ==
    ASSUME NEW c \in Convos, chat_db, View[c] # None, Rows' = Rows \cup {c},
           UNCHANGED <<db_messages, db_deleted, chat_db, View, Claims>>
    PROVE  Archive!Next
<1>1. Archive!Save(c)
  BY DEF Archive!Save, View, Rows, Claims, ClaimsIn
<1> QED
  BY <1>1 DEF Archive!Next

LEMMA DeleteStep ==
    ASSUME NEW c \in Convos, chat_db, View[c] # None, Rows' = Rows \ {c},
           db_messages' = [db_messages EXCEPT ![c] = << >>],
           db_deleted' = db_deleted \cup {c}, View' = [View EXCEPT ![c] = None],
           UNCHANGED <<chat_db, Claims>>
    PROVE  Archive!Next
<1>1. Archive!Delete(c)
  BY DEF Archive!Delete, View, Rows, Claims, ClaimsIn
<1> QED
  BY <1>1 DEF Archive!Next

\* A message enters the view, and the archive with its row or not at all.
LEMMA RecordStep ==
    ASSUME NEW c \in Convos, NEW m \in Msgs, chat_db, c \notin db_deleted, Parts, Unused(m),
           View' = [View EXCEPT ![c] = Append(IF View[c] = None THEN << >> ELSE View[c], m)],
           \/ UNCHANGED <<Rows, db_messages>>
           \/ /\ db_messages' = [db_messages EXCEPT ![c] = Append(db_messages[c], m)]
              /\ Rows' \in {Rows, Rows \cup {c}} /\ (View[c] = None => c \in Rows'),
           UNCHANGED <<db_deleted, chat_db, Claims>>
    PROVE  Archive!Next
<1>0. /\ View \in [Convos -> {View[k] : k \in Convos}] /\ db_messages \in [Convos -> Seq(Msgs)]
      /\ DOMAIN View = Convos
  BY DEF View, Parts
<1>1. ASSUME NEW k \in Convos
      PROVE  /\ ~Archive!Holds(db_messages[k], m)
             /\ View[k] = None \/ ~Archive!Holds(View[k], m)
  <2>1. m \notin Items(db_messages[k]) /\ (chats[k] # None => m \notin Items(chats[k].messages))
    BY DEF Unused
  <2>2. View[k] = None \/ (chats[k] # None /\ View[k] = chats[k].messages)
    BY DEF View, list_conversations, get_messages
  <2>3. \A q : m \notin Items(q) => ~Archive!Holds(q, m)
    BY DEF Items, Archive!Holds
  <2> QED
    BY <2>1, <2>2, <2>3
<1>2. Archive!Fresh(m)
  BY <1>1 DEF Archive!Fresh, View
<1>3. /\ View' = [View EXCEPT ![c] = Append(IF @ = None THEN << >> ELSE @, m)]
      /\ \/ UNCHANGED <<Rows, db_messages>>
         \/ /\ db_messages' = [db_messages EXCEPT ![c] = Append(@, m)]
            /\ Rows' \in {Rows, Rows \cup {c}} /\ (View[c] = None => c \in Rows')
  BY <1>0
<1>4. Archive!Record(c, m)
  BY <1>2, <1>3 DEF Archive!Record, View, Rows, Claims, ClaimsIn
<1> QED
  BY <1>4 DEF Archive!Next

\* A step that changes nothing of them is no step of the archive.
LEMMA StutterStep ==
    ASSUME UNCHANGED <<Rows, db_messages, db_deleted, chat_db, View, Claims>>
    PROVE  UNCHANGED Archive!vars
  BY DEF Archive!vars, Rows, View, Claims, ClaimsIn

-----------------------------------------------------------------------------
\* What the updates of the list and of the table are to the archive.
LEMMA ViewAt ==
    /\ DOMAIN View = Convos
    /\ \A c \in Convos : View[c] = IF chats[c] = None THEN None ELSE chats[c].messages
  BY DEF View, list_conversations, get_messages

LEMMA ViewUpdated ==
    ASSUME Parts, NEW c \in Convos, NEW chat, chats' = [chats EXCEPT ![c] = chat]
    PROVE  View' = [View EXCEPT ![c] = IF chat = None THEN None ELSE chat.messages]
<1>1. View' = [k \in Convos |-> IF chats'[k] = None THEN None ELSE chats'[k].messages]
  BY DEF View, list_conversations, get_messages
<1>2. View = [k \in Convos |-> IF chats[k] = None THEN None ELSE chats[k].messages]
  BY DEF View, list_conversations, get_messages
<1>3. chats'[c] = chat /\ \A k \in Convos \ {c} : chats'[k] = chats[k]
  BY DEF Parts, Lists
<1> QED
  BY <1>1, <1>2, <1>3

LEMMA RowsUpdated ==
    ASSUME Parts, NEW c \in Convos, NEW row \in Row, NEW saved \in BOOLEAN,
           db_chats' = save_chat(db_chats, c, row, saved)
    PROVE  Rows' = IF saved THEN Rows \cup {c} ELSE Rows
<1>1. db_chats \in [Convos -> Optional(Row)] /\ row # None
  BY NoneAssumption DEF Parts, Tables
<1> QED
  BY <1>1 DEF Rows, save_chat

LEMMA ListedMessages ==
    ASSUME Parts, NEW c \in Convos
    PROVE  View[c] # None <=> chats[c] # None
<1>1. chats[c] # None => chats[c].messages \in Seq(Msgs)
  BY ListTypes, MessagesOf DEF Parts
<1> QED
  BY <1>1, ViewAt, NoneAssumption

-----------------------------------------------------------------------------
(***************************************************************************)
(* Every step is a step of the archive or none                             *)
(***************************************************************************)
ArchiveInv == Parts /\ LifeInv /\ SerialInv /\ TombInv /\ FreshInv
ArchiveStep == Archive!Next \/ UNCHANGED Archive!vars

LEMMA NewestAgrees ==
    ASSUME NEW q \in Seq(Msgs)
    PROVE  Archive!Newest(q) = newest(q)
<1>1. Len(q) \in Nat /\ LoadedPerChat \in Nat
  BY BoundsAssumption, LenProperties
<1> QED
  BY <1>1 DEF Archive!Newest, newest, older

\* Opening and closing: init_seed, shutdown_reset and a crash.
LEMMA SeedArchive ==
    ASSUME ArchiveInv, UNCHANGED Claims, NEW p \in Callers, init_seed(p)
    PROVE  ArchiveStep
<1>1. loaded = load_state({}) /\ ~chat_db
  BY DEF init_seed, ArchiveInv, LifeInv, CallsLife
<1>2. /\ chats' = loaded.chats /\ chat_db' = TRUE
      /\ UNCHANGED <<db_chats, db_messages, db_deleted>>
  BY DEF init_seed, disk
<1>3. ASSUME NEW c \in Convos
      PROVE  (IF chats'[c] = None THEN None ELSE chats'[c].messages)
                = IF c \in Rows THEN Archive!Newest(db_messages[c]) ELSE None
  <2>0. db_messages[c] \in Seq(Msgs) /\ (db_chats[c] # None => db_chats[c] \in Row)
    BY DEF ArchiveInv, Parts, Tables, Optional
  <2>1. CASE db_chats[c] = None
    <3>1. chats'[c] = None
      BY <1>1, <1>2, <2>1 DEF load_state
    <3> QED
      BY <2>1, <3>1 DEF Rows
  <2>2. CASE db_chats[c] # None
    <3> DEFINE chat == [row |-> db_chats[c], messages |-> newest(db_messages[c]),
                        older_messages |-> older(db_messages[c]),
                        history_only |-> HistoryOnly(c, {})]
    <3>1. chats'[c] = chat
      BY <1>1, <1>2, <2>2 DEF load_state
    <3>2. chat # None
      BY <2>0, <2>2, AgreesLoaded DEF Agrees, HistoryOnly
    <3>3. chat.messages = newest(db_messages[c])
      OBVIOUS
    <3> HIDE DEF chat
    <3>4. Archive!Newest(db_messages[c]) = newest(db_messages[c])
      BY <2>0, NewestAgrees
    <3> QED
      BY <2>2, <3>1, <3>2, <3>3, <3>4 DEF Rows
  <2> QED
    BY <2>1, <2>2
<1>4. View' = [c \in Convos |-> IF chats'[c] = None THEN None ELSE chats'[c].messages]
  BY DEF View, list_conversations, get_messages
<1>5. View' = [c \in Convos |-> IF c \in Rows THEN Archive!Newest(db_messages[c]) ELSE None]
  BY <1>3, <1>4
<1>6. UNCHANGED Rows
  BY <1>2 DEF Rows
<1> QED
  BY <1>1, <1>2, <1>5, <1>6, OpenStep DEF ArchiveStep

LEMMA CloseArchive ==
    ASSUME OneCaller, ArchiveInv, crash \/ \E p \in Callers : shutdown_reset(p)
    PROVE  ArchiveStep
<1>1. /\ chats' = NoChats /\ chat_db' = FALSE
      /\ UNCHANGED <<db_chats, db_messages, db_deleted>>
  BY DEF crash, shutdown_reset, disk
<1>2. UNCHANGED Rows /\ View' = [c \in Convos |-> None]
  BY <1>1 DEF Rows, View, list_conversations, get_messages, NoChats
<1>c. Claims' = {}
  <2>1. CASE crash
    BY <2>1 DEF crash, Idle, Claims, ClaimsIn
  <2>2. ASSUME NEW p \in Callers, shutdown_reset(p) PROVE Claims' = {}
    <3>1. call'[p].pc # "create_record"
      BY <2>2 DEF shutdown_reset, Return, Idle, ArchiveInv, Parts, CallsOK
    <3> QED
      BY <3>1, OnlyClaim DEF Claims
  <2> QED
    BY <2>1, <2>2
<1>3. CASE chat_db
  BY <1>1, <1>2, <1>c, <1>3, CloseStep DEF ArchiveStep
<1>4. CASE ~chat_db
  <2>1. \A c \in Convos : chats[c] = None
    BY <1>4 DEF ArchiveInv, SerialInv, ClosedEmpty
  <2>2. View = [c \in Convos |-> None]
    BY <2>1 DEF View, list_conversations, get_messages
  <2>3. chat_db = FALSE
    BY <1>4 DEF ArchiveInv, Parts
  <2>4. Claims = {}
    BY <1>4 DEF Claims, ClaimsIn, ArchiveInv, SerialInv, CreateHeld, LifeInv, InitialisedOpen
  <2> QED
    BY <1>1, <1>2, <1>c, <2>2, <2>3, <2>4, StutterStep DEF ArchiveStep
<1> QED
  BY <1>3, <1>4

\* The calls that write.
LEMMA ClaimArchive ==
    ASSUME OneCaller, ArchiveInv, NEW p \in Callers, NEW c \in Convos, create_client(p, c)
    PROVE  ArchiveStep
<1>1. chat_db /\ UNCHANGED <<chats, chat_db, db_chats, db_messages, db_deleted>>
  BY DEF create_client, StateInstalled, ArchiveInv, LifeInv, InitialisedOpen, display, disk
<1>2. chats[c] = None /\ db_chats[c] = None /\ c \notin db_deleted
  BY DEF create_client, ArchiveInv, TombInv, ListBorn
<1>3. Claims = {} /\ Claims' = {c}
  <2>1. call[p].pc = "idle" /\ call'[p].pc = "create_record" /\ call'[p].convo = c
    BY DEF create_client, Enter, Idle, ArchiveInv, Parts, CallsOK
  <2> QED
    BY <2>1, OnlyClaim DEF Claims
<1>4. c \notin Rows /\ View[c] = None
  BY <1>2, ViewAt DEF Rows
<1>5. UNCHANGED <<Rows, View>>
  BY <1>1 DEF Rows, View, list_conversations, get_messages
<1> QED
  BY <1>1, <1>2, <1>3, <1>4, <1>5, ClaimStep DEF ArchiveStep

LEMMA CreateArchive ==
    ASSUME OneCaller, ArchiveInv, NEW p \in Callers, create_record(p)
    PROVE  ArchiveStep
<1> USE DEF names, client
<1>1. PICK c \in Convos : c = call[p].convo
  BY DEF create_record, ArchiveInv, Parts, CallsOK
<1>2. chat_db /\ c \notin db_deleted
  BY <1>1 DEF create_record, ArchiveInv, LifeInv, InitialisedOpen, SerialInv, CreateHeld,
     TombInv, CreateInv
<1>3. PICK saved \in BOOLEAN : db_chats' = save_chat(db_chats, c, created_row(c), saved)
  BY <1>1 DEF create_record, Outcomes
<1>4. chats' = [chats EXCEPT ![c] = Fresh(created_row(c))]
  BY <1>1 DEF create_record
<1>5. Fresh(created_row(c)) # None /\ Fresh(created_row(c)).messages = << >>
  <2>1. Fresh(created_row(c)) \in ChatSession
    BY RowTypes, SessionTypes
  <2> QED
    BY <2>1, NoneAssumption DEF Fresh
<1>6. View' = [View EXCEPT ![c] = << >>]
  BY <1>4, <1>5, ViewUpdated DEF ArchiveInv
<1>7. Rows' \in {Rows, Rows \cup {c}}
  BY <1>3, RowTypes, RowsUpdated DEF ArchiveInv
<1>8. UNCHANGED <<db_messages, db_deleted, chat_db>>
  BY DEF create_record
<1>9. Claims = {c} /\ Claims' = {}
  <2>1. call[p].pc = "create_record" /\ call[p].convo = c /\ call'[p].pc # "create_record"
    BY <1>1 DEF create_record, Return, Idle, ArchiveInv, Parts, CallsOK
  <2> QED
    BY <2>1, OnlyClaim DEF Claims
\* A message handled since the create began has listed the conversation, or not.
<1>10. CASE View[c] = None
  BY <1>2, <1>6, <1>7, <1>8, <1>9, <1>10, StartStep DEF ArchiveStep
<1>11. CASE View[c] # None
  BY <1>2, <1>6, <1>7, <1>8, <1>9, <1>11, SupersedeStep DEF ArchiveStep
<1> QED
  BY <1>10, <1>11

LEMMA SendArchive ==
    ASSUME ArchiveInv, UNCHANGED Claims, NEW p \in Callers, send_message_record(p)
    PROVE  ArchiveStep
<1> USE DEF names, client
<1>1. PICK c \in Convos, m \in Msgs : c = call[p].convo /\ m = call[p].msg
  BY DEF send_message_record, ArchiveInv, Parts, CallsOK
<1>2. chat_db /\ chats[c] # None /\ Unused(m)
  BY <1>1 DEF send_message_record, ArchiveInv, SerialInv, SendListed, FreshInv, FreshCalls
<1>3. c \notin db_deleted
  BY <1>2 DEF ArchiveInv, TombInv, Tombstoned
<1>4. /\ chats' = [chats EXCEPT ![c] = Push(chats[c], m)]
      /\ UNCHANGED <<db_chats, db_deleted, chat_db>>
      /\ \E saved \in BOOLEAN : db_messages' = store_message(db_messages, c, m, saved)
  <2>1. chats' = [chats EXCEPT ![c] = Push(chats[c], m)]
    BY <1>1, <1>2 DEF send_message_record, ArchiveInv, Parts, Lists
  <2> QED
    BY <1>1, <2>1 DEF send_message_record, Outcomes
<1>5. /\ Push(chats[c], m) # None /\ Push(chats[c], m).messages = Append(chats[c].messages, m)
      /\ View[c] = chats[c].messages /\ View[c] # None
  <2>1. chats[c] \in ChatSession
    BY <1>2, ListTypes DEF ArchiveInv, Parts
  <2>2. Push(chats[c], m) \in ChatSession
    BY <2>1, SessionTypes
  <2> QED
    BY <1>2, <2>1, <2>2, NoneAssumption, MessagesOf, ViewAt, ListedMessages DEF ArchiveInv
<1>6. View' = [View EXCEPT ![c] = Append(IF View[c] = None THEN << >> ELSE View[c], m)]
  <2>1. View' = [View EXCEPT ![c] = IF Push(chats[c], m) = None THEN None
                                    ELSE Push(chats[c], m).messages]
    BY <1>4, ViewUpdated DEF ArchiveInv
  <2> QED
    BY <1>5, <2>1
<1>7. \/ UNCHANGED db_messages
      \/ db_messages' = [db_messages EXCEPT ![c] = Append(db_messages[c], m)]
  BY <1>4 DEF store_message, ArchiveInv, Parts
<1>8. UNCHANGED Rows
  BY <1>4 DEF Rows
<1> QED
  BY <1>2, <1>3, <1>4, <1>5, <1>6, <1>7, <1>8, RecordStep DEF ArchiveStep, ArchiveInv

LEMMA DeleteArchive ==
    ASSUME ArchiveInv, UNCHANGED Claims, NEW p \in Callers, NEW c \in Convos, delete_conversation(p, c)
    PROVE  ArchiveStep
<1>1. /\ chat_db /\ chats[c] # None /\ UNCHANGED chat_db
      /\ db_messages' = [db_messages EXCEPT ![c] = << >>]
      /\ db_deleted' = db_deleted \cup {c}
      /\ chats' = [chats EXCEPT ![c] = None] /\ db_chats' = [db_chats EXCEPT ![c] = None]
  BY DEF delete_conversation
<1>2. View' = [View EXCEPT ![c] = None]
  BY <1>1, ViewUpdated DEF ArchiveInv
<1>3. Rows' = Rows \ {c}
  BY <1>1 DEF Rows, ArchiveInv, Parts, Tables
<1>4. View[c] # None
  BY <1>1, ListedMessages DEF ArchiveInv
<1> QED
  BY <1>1, <1>2, <1>3, <1>4, DeleteStep DEF ArchiveStep

LEMMA NicknameArchive ==
    ASSUME ArchiveInv, UNCHANGED Claims, NEW p \in Callers, NEW c \in Convos,
           NEW n \in Nicknames \cup {None}, set_conversation_nickname(p, c, n)
    PROVE  ArchiveStep
<1> DEFINE chat == [chats[c] EXCEPT !.row = [chats[c].row EXCEPT !.nickname = n]]
<1>1. chats[c] # None /\ chats' = [chats EXCEPT ![c] = chat]
  BY DEF set_conversation_nickname, ArchiveInv, Parts, Lists
<1>2. chats[c] \in ChatSession /\ View[c] # None /\ View[c] = chats[c].messages
  BY <1>1, ListTypes, ListedMessages, ViewAt DEF ArchiveInv, Parts
<1>3. chat_db
  BY <1>1 DEF ArchiveInv, SerialInv, ClosedEmpty
<1>4. chat \in ChatSession /\ chat.row \in Row /\ chat.messages = chats[c].messages
  BY <1>2, SessionTypes DEF ChatSession
<1>5. PICK saved \in BOOLEAN : db_chats' = save_chat(db_chats, c, chat.row, saved)
  BY DEF set_conversation_nickname, Outcomes
<1>6. UNCHANGED <<db_messages, db_deleted, chat_db>>
  BY DEF set_conversation_nickname
<1> HIDE DEF chat
<1>7. UNCHANGED View
  <2>1. View' = [View EXCEPT ![c] = IF chat = None THEN None ELSE chat.messages]
    BY <1>1, ViewUpdated DEF ArchiveInv
  <2>2. chat # None
    BY <1>4, NoneAssumption
  <2>3. View = [k \in Convos |-> View[k]]
    BY DEF View
  <2>4. View' = [View EXCEPT ![c] = View[c]]
    BY <1>2, <1>4, <2>1, <2>2
  <2> QED
    BY <2>3, <2>4
<1>8. Rows' = IF saved THEN Rows \cup {c} ELSE Rows
  BY <1>4, <1>5, RowsUpdated DEF ArchiveInv
<1> QED
  BY <1>2, <1>3, <1>6, <1>7, <1>8, SaveStep, StutterStep DEF ArchiveStep

\* The consumer's steps that write.
LEMMA StartedArchive ==
    ASSUME ArchiveInv, UNCHANGED Claims, NEW s \in Sessions, record_conversation_started(s)
    PROVE  ArchiveStep
<1> USE DEF names, client
<1>1. PICK c \in Convos : c = Head(events[s]).convo /\ events[s] # << >>
  BY HeadTypes DEF record_conversation_started, Handling, ArchiveInv, Parts
<1>2. chat_db /\ deleted = db_deleted
  BY <1>1, EventsOpen DEF ArchiveInv, TombInv, Tombstoned
<1>3. UNCHANGED <<db_messages, db_deleted, chat_db>>
  BY DEF record_conversation_started
<1>4. PICK saved \in Outcomes((~Ignored(c) /\ ~(chats[c] # None)) /\ chat_db) :
        db_chats' = save_chat(db_chats, c, started_row(s, c), saved)
  BY <1>1 DEF record_conversation_started
<1>5. saved \in BOOLEAN /\ (saved => ~Ignored(c) /\ chats[c] = None)
  <2>1. ((~Ignored(c) /\ ~(chats[c] # None)) /\ chat_db) \in BOOLEAN
    BY DEF Ignored, ArchiveInv, Parts
  <2> QED
    BY <1>4, <2>1, SavedOnlyIfTried
<1>6. Rows' = IF saved THEN Rows \cup {c} ELSE Rows
  BY <1>4, <1>5, RowTypes, RowsUpdated DEF ArchiveInv
<1>7. CASE Ignored(c)
  <2>1. UNCHANGED chats
    BY <1>1, <1>7 DEF record_conversation_started
  <2>2. UNCHANGED View
    BY <2>1 DEF View, list_conversations, get_messages
  <2> QED
    BY <1>3, <1>5, <1>6, <1>7, <2>2, StutterStep DEF ArchiveStep
<1>8. CASE ~Ignored(c) /\ chats[c] # None
  <2>1. chats' = [chats EXCEPT ![c] = Revived(chats[c])]
    BY <1>1, <1>8 DEF record_conversation_started, ArchiveInv, Parts, Lists
  <2>2. chats[c] \in ChatSession
    BY <1>8, ListTypes DEF ArchiveInv, Parts
  <2>3. Revived(chats[c]) # None /\ Revived(chats[c]).messages = chats[c].messages
    <3>1. Revived(chats[c]) \in ChatSession
      BY <2>2, SessionTypes
    <3> QED
      BY <2>2, <3>1, NoneAssumption, MessagesOf
  <2>4. View' = [View EXCEPT ![c] = IF Revived(chats[c]) = None THEN None
                                    ELSE Revived(chats[c]).messages]
    BY <2>1, ViewUpdated DEF ArchiveInv
  <2>5. View[c] = chats[c].messages
    BY <1>8, ViewAt
  <2>6. View' = [View EXCEPT ![c] = View[c]]
    BY <2>3, <2>4, <2>5
  <2>7. View = [k \in Convos |-> View[k]]
    BY DEF View
  <2>8. UNCHANGED View
    BY <2>6, <2>7
  <2> QED
    BY <1>3, <1>5, <1>6, <1>8, <2>8, StutterStep DEF ArchiveStep
<1>9. CASE ~Ignored(c) /\ chats[c] = None
  <2>1. chats' = [chats EXCEPT ![c] = Fresh(started_row(s, c))]
    BY <1>1, <1>9 DEF record_conversation_started
  <2>2. Fresh(started_row(s, c)) # None /\ Fresh(started_row(s, c)).messages = << >>
    <3>1. Fresh(started_row(s, c)) \in ChatSession
      BY RowTypes, SessionTypes
    <3> QED
      BY <3>1, NoneAssumption DEF Fresh
  <2>3. View' = [View EXCEPT ![c] = << >>]
    BY <2>1, <2>2, ViewUpdated DEF ArchiveInv
  <2>4. c \notin db_deleted /\ View[c] = None
    BY <1>2, <1>9, ViewAt DEF Ignored
  <2> QED
    BY <1>2, <1>3, <1>5, <1>6, <2>3, <2>4, StartStep DEF ArchiveStep
<1> QED
  BY <1>7, <1>8, <1>9

LEMMA ReceivedArchive ==
    ASSUME ArchiveInv, UNCHANGED Claims, NEW s \in Sessions, record_message_received(s)
    PROVE  ArchiveStep
<1> USE DEF names, client
<1>1. /\ events[s] # << >> /\ events[s] \in Seq(Event) /\ EventsOK
      /\ Head(events[s]).type = "MessageReceived"
  BY DEF record_message_received, Handling, ArchiveInv, Parts, EventsOK
<1>2. PICK c \in Convos, m \in Msgs : c = Head(events[s]).convo /\ m = Head(events[s]).msg
  BY <1>1, HeadTypes
<1>3. chat_db /\ deleted = db_deleted
  BY <1>1, EventsOpen DEF ArchiveInv, TombInv, Tombstoned
<1>4. Unused(m)
  <2>1. Head(events[s]) = events[s][1] /\ 1 \in DOMAIN events[s]
    BY <1>1, HeadTailProperties, LenProperties
  <2> QED
    BY <1>1, <1>2, <2>1 DEF ArchiveInv, FreshInv, FreshEvents, Arrives
<1>5. UNCHANGED <<db_deleted, chat_db>>
  BY DEF record_message_received
<1> DEFINE chat == with_peer(session_for(c))
<1>6. PICK saved \in Outcomes(~Ignored(c) /\ chat_db) :
        /\ db_chats' = save_chat(db_chats, c, chat.row, saved /\ ChatChanged(c))
        /\ db_messages' = store_message(db_messages, c, m, saved)
  BY <1>2 DEF record_message_received
<1>7. saved \in BOOLEAN /\ (saved => ~Ignored(c))
  <2>1. (~Ignored(c) /\ chat_db) \in BOOLEAN
    BY DEF Ignored, ArchiveInv, Parts
  <2> QED
    BY <1>6, <2>1, SavedOnlyIfTried
<1>8. /\ session_for(c) \in ChatSession
      /\ session_for(c).messages = IF chats[c] = None THEN << >> ELSE chats[c].messages
  <2>1. chats[c] # None => chats[c] \in ChatSession
    BY ListTypes DEF ArchiveInv, Parts
  <2>2. Fresh(fallback_row) \in ChatSession /\ Fresh(fallback_row).messages = << >>
    BY RowTypes, SessionTypes DEF Fresh
  <2> QED
    BY <2>1, <2>2 DEF session_for
<1>9. /\ chat \in ChatSession /\ chat.row \in Row
      /\ chat.messages = IF chats[c] = None THEN << >> ELSE chats[c].messages
      /\ Push(chat, m) \in ChatSession /\ Push(chat, m).messages = Append(chat.messages, m)
  <2>1. chat \in ChatSession /\ chat.messages = session_for(c).messages
    BY <1>8, MessagesOf
  <2> HIDE DEF chat
  <2>2. chat.row \in Row /\ Push(chat, m) \in ChatSession
    BY <2>1, SessionTypes
  <2>3. Push(chat, m).messages = Append(chat.messages, m)
    BY <2>1, MessagesOf
  <2> QED
    BY <1>8, <2>1, <2>2, <2>3
<1>10. ~Ignored(c) => chats' = [chats EXCEPT ![c] = Push(chat, m)]
  BY <1>2, <1>3 DEF record_message_received
<1>11. Ignored(c) => UNCHANGED chats
  BY <1>2 DEF record_message_received
<1> HIDE DEF chat
<1>12. Rows' = IF saved /\ ChatChanged(c) THEN Rows \cup {c} ELSE Rows
  <2>1. (saved /\ ChatChanged(c)) \in BOOLEAN
    BY <1>7 DEF ChatChanged
  <2> QED
    BY <1>6, <1>9, <2>1, RowsUpdated DEF ArchiveInv
<1>13. CASE Ignored(c)
  <2>1. UNCHANGED View
    BY <1>11, <1>13 DEF View, list_conversations, get_messages
  <2>2. UNCHANGED <<db_messages, Rows>>
    BY <1>6, <1>7, <1>12, <1>13 DEF store_message
  <2> QED
    BY <1>5, <2>1, <2>2, StutterStep DEF ArchiveStep
<1>14. CASE ~Ignored(c)
  <2>1. View' = [View EXCEPT ![c] = Append(chat.messages, m)]
    <3>1. View' = [View EXCEPT ![c] = IF Push(chat, m) = None THEN None ELSE Push(chat, m).messages]
      BY <1>10, <1>14, ViewUpdated DEF ArchiveInv
    <3>2. Push(chat, m) # None
      BY <1>9, NoneAssumption
    <3> QED
      BY <1>9, <3>1, <3>2
  <2>2. /\ View[c] = None <=> chats[c] = None
        /\ chats[c] # None => View[c] = chats[c].messages
    BY ListedMessages, ViewAt DEF ArchiveInv
  <2>3. chat.messages = IF View[c] = None THEN << >> ELSE View[c]
    BY <1>9, <2>2
  <2>4. \/ UNCHANGED <<Rows, db_messages>>
        \/ /\ db_messages' = [db_messages EXCEPT ![c] = Append(db_messages[c], m)]
           /\ Rows' \in {Rows, Rows \cup {c}} /\ (View[c] = None => c \in Rows')
    <3>1. CASE saved
      <4>1. db_messages' = [db_messages EXCEPT ![c] = Append(db_messages[c], m)]
        BY <1>6, <3>1 DEF store_message, ArchiveInv, Parts
      <4>2. View[c] = None => ChatChanged(c)
        BY <2>2 DEF ChatChanged
      <4> QED
        BY <1>12, <3>1, <4>1, <4>2
    <3>2. CASE ~saved
      BY <1>6, <1>12, <3>2 DEF store_message
    <3> QED
      BY <3>1, <3>2
  <2>5. c \notin db_deleted
    BY <1>3, <1>14 DEF Ignored
  <2> QED
    BY <1>3, <1>4, <1>5, <2>1, <2>3, <2>4, <2>5, RecordStep DEF ArchiveStep, ArchiveInv
<1> QED
  BY <1>13, <1>14

LEMMA NextArchive ==
    ASSUME OneCaller, ArchiveInv, [Next]_vars
    PROVE  ArchiveStep
<1>1. CASE crash
  BY <1>1, CloseArchive
<1>2. CASE \E p \in Callers : create_record(p) \/ \E c \in Convos : create_client(p, c)
  BY <1>2, CreateArchive, ClaimArchive
<1>3. CASE UNCHANGED Claims
  <2>1. CASE UNCHANGED listing
    BY <1>3, <2>1, StutterStep
    DEF listing, Rows, View, list_conversations, get_messages, ArchiveStep
  <2> QED
    BY <1>3, <2>1, SeedArchive, CloseArchive, CreateArchive, SendArchive, DeleteArchive,
       NicknameArchive, StartedArchive, ReceivedArchive, ListSteps
<1> QED
  BY <1>1, <1>2, <1>3, ClaimSteps DEF ArchiveInv

LEMMA InitArchive == Init => Archive!Init
  BY DEF Init, Archive!Init, NoChats, list_conversations, get_messages, Idle

\* When the calls are serialised, the list and chat.db implement the archive:
\* whatever the event consumers, the clients, the peers, failed writes, crashes
\* and the steps of init and shutdown do, a reader of list_conversations and
\* get_messages sees each message enter once and at the end, and after init what
\* chat.db holds; nothing but a delete takes a message out of chat.db, and
\* nothing but a delete or the insert of a create that was under way when the
\* message arrived takes it out of the view (actions.rs, inbound.rs,
\* persistence.rs).
THEOREM ListIsAnArchive == ASSUME OneCaller PROVE Spec => ImplementsArchive
<1>1. Init => ArchiveInv
  BY InitParts, InitLife, InitSerial, InitTomb, InitFresh DEF ArchiveInv
<1>2. ArchiveInv /\ [Next]_vars => ArchiveInv'
  BY SerialController, NextParts, NextLife, NextSerial, NextTomb, NextFresh DEF ArchiveInv
<1>3. ArchiveInv /\ [Next]_vars => [Archive!Next]_(Archive!vars)
  BY NextArchive DEF ArchiveStep
<1> QED
  BY <1>1, <1>2, <1>3, InitArchive, PTL DEF Spec, ImplementsArchive, Archive!Spec
===============================================================================
