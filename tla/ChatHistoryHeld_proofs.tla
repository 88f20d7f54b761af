------------------------ MODULE ChatHistoryHeld_proofs ------------------------
(***************************************************************************)
(* Proofs about ChatHistory that relate the conversations a client holds   *)
(* and the events in its queue to the list, for any number of callers of   *)
(* which one at most calls init and shutdown: what is held is listed and   *)
(* live, and what is listed has the client's kind.                         *)
(***************************************************************************)
EXTENDS ChatHistoryList_proofs

-----------------------------------------------------------------------------
(***************************************************************************)
(* Which steps touch what                                                  *)
(***************************************************************************)
\* The steps that give the client a conversation or take it away.
LEMMA ClientSteps ==
    ASSUME [Next]_vars
    PROVE  \/ UNCHANGED <<held, peers, born>>
           \/ crash
           \/ \E p \in Callers :
                \/ shutdown_drop(p) \/ add_group_member_client(p)
                \/ \E c \in Convos : create_conversation(p, c) \/ create_group_conversation(p, c)
           \/ \E s \in Sessions, c \in Convos : peer_invites(s, c)
<1> USE DEF display, disk, names, client, queues, locals, told, writes, history
<1>1. ASSUME NEW p \in Callers,
             \/ init_load(p) \/ shutdown_take(p) \/ init_fail(p) \/ init_seed(p)
             \/ shutdown_reset(p) \/ create_record(p)
             \/ send_message_client(p) \/ send_message_record(p)
             \/ \E c \in Convos : \/ add_group_member_check(p, c) \/ send_message_check(p, c)
                                  \/ delete_conversation(p, c)
                                  \/ \E n \in Nicknames \cup {None} :
                                        set_conversation_nickname(p, c, n)
             \/ \E n \in Names \cup {None} : set_installation_name(p, n)
      PROVE  UNCHANGED <<held, peers, born>>
  BY <1>1 DEF init_load, shutdown_take, init_fail, init_seed, shutdown_reset, create_record,
     send_message_client, send_message_record, add_group_member_check, send_message_check,
     delete_conversation, set_conversation_nickname, set_installation_name
<1>2. ASSUME NEW s \in Sessions, NEW c \in Convos, peer_sends(s, c) \/ peer_changes_members(s, c)
      PROVE  UNCHANGED <<held, peers, born>>
  BY <1>2 DEF peer_sends, peer_changes_members
<1>3. ASSUME NEW s \in Sessions, Consume(s)
      PROVE  UNCHANGED <<held, peers, born>>
  BY <1>3 DEF Consume, fetch_metadata, record_conversation_started, record_message_received,
     record_members_changed
<1>4. ASSUME NEW p \in Callers, Continue(p)
      PROVE  \/ UNCHANGED <<held, peers, born>>
             \/ shutdown_drop(p) \/ add_group_member_client(p)
  BY <1>1, <1>4 DEF Continue
<1>5. ASSUME NEW p \in Callers, Call(p)
      PROVE  \/ UNCHANGED <<held, peers, born>>
             \/ \E c \in Convos : create_conversation(p, c) \/ create_group_conversation(p, c)
  BY <1>1, <1>5 DEF Call
<1>6. UNCHANGED vars => UNCHANGED <<held, peers, born>>
  BY DEF vars
<1> QED
  BY <1>2, <1>3, <1>4, <1>5, <1>6 DEF Next, Peer

\* The steps that touch a queue of events.
LEMMA QueueSteps ==
    ASSUME [Next]_vars
    PROVE  \/ UNCHANGED events
           \/ crash
           \/ \E s \in Sessions :
                \/ record_conversation_started(s) \/ record_message_received(s)
                \/ record_members_changed(s)
                \/ \E c \in Convos : \/ peer_invites(s, c) \/ peer_sends(s, c)
                                     \/ peer_changes_members(s, c)
<1> USE DEF display, disk, names, client, queues, locals, told, writes, history
<1>1. ASSUME NEW p \in Callers, Continue(p) PROVE UNCHANGED events
  BY <1>1 DEF Continue, init_fail, init_seed, shutdown_drop, shutdown_reset, create_record,
     send_message_client, send_message_record, add_group_member_client
<1>2. ASSUME NEW p \in Callers, Call(p) PROVE UNCHANGED events
  BY <1>2 DEF Call, init_load, shutdown_take, create_conversation, create_group_conversation,
     create_client, add_group_member_check, send_message_check, delete_conversation,
     set_conversation_nickname, set_installation_name
<1>3. ASSUME NEW s \in Sessions, fetch_metadata(s) PROVE UNCHANGED events
  BY <1>3 DEF fetch_metadata
<1>4. UNCHANGED vars => UNCHANGED events
  BY DEF vars
<1> QED
  BY <1>1, <1>2, <1>3, <1>4 DEF Next, Consume, Peer

\* The steps that end or begin a session's installation.
LEMMA InstallSteps ==
    ASSUME [Next]_vars
    PROVE  \/ UNCHANGED installed
           \/ installed' = 0
           \/ \E p \in Callers : init_seed(p)
<1> USE DEF display, disk, names, client, queues, locals, told, writes, history
<1>1. ASSUME NEW p \in Callers, Continue(p) PROVE UNCHANGED installed \/ init_seed(p)
  BY <1>1 DEF Continue, init_fail, init_seed, shutdown_drop, shutdown_reset, create_record,
     send_message_client, send_message_record, add_group_member_client
<1>2. ASSUME NEW p \in Callers, Call(p) PROVE UNCHANGED installed \/ installed' = 0
  BY <1>2 DEF Call, init_load, shutdown_take, create_conversation, create_group_conversation,
     create_client, add_group_member_check, send_message_check, delete_conversation,
     set_conversation_nickname, set_installation_name
<1>3. ASSUME NEW s \in Sessions, Consume(s) \/ Peer(s) PROVE UNCHANGED installed
  BY <1>3 DEF Consume, Peer, fetch_metadata, record_conversation_started,
     record_message_received, record_members_changed, peer_invites, peer_sends,
     peer_changes_members
<1>4. UNCHANGED vars => UNCHANGED installed
  BY DEF vars
<1>5. crash => installed' = 0
  BY DEF crash
<1> QED
  BY <1>1, <1>2, <1>3, <1>4, <1>5 DEF Next

LEMMA OtherCaller ==
    ASSUME Parts, NEW p \in Callers, NEW q \in Callers, p # q, Continue(p) \/ Call(p)
    PROVE  call'[q] = call[q]
<1>1. \/ UNCHANGED call
      \/ \E x : call' = [call EXCEPT ![p] = x]
  BY DEF Continue, Call, init_fail, init_seed, shutdown_drop, shutdown_reset,
     create_record, send_message_client, send_message_record, add_group_member_client,
     init_load, shutdown_take, create_conversation, create_group_conversation,
     create_client, add_group_member_check, send_message_check, delete_conversation,
     set_conversation_nickname, set_installation_name, Return, Goto, Enter, locals
<1> QED
  BY <1>1 DEF Parts, CallsOK

\* Where a caller is after a step: where it was, outside the operations on
\* conversations, or one step further in one of them.
LEMMA CallSteps ==
    ASSUME Parts, [Next]_vars, NEW q \in Callers
    PROVE  \/ call'[q] = call[q]
           \/ call'[q].pc \in {"idle"} \cup LifePC
           \/ \E c \in Convos : /\ call'[q].pc = "create_record" /\ call'[q].convo = c
                                /\ create_client(q, c)
           \/ \E c \in Convos : /\ call'[q].pc \in {"add_client", "send_client"}
                                /\ call'[q].convo = c /\ check_live(c)
                                /\ add_group_member_check(q, c) \/ send_message_check(q, c)
           \/ /\ call'[q].pc = "send_record" /\ call'[q].convo = call[q].convo
              /\ send_message_client(q)
<1> USE DEF display, disk, names, client, queues, locals, told, writes, history
<1>0. call \in [Callers -> Locals] /\ \A p \in Callers : call[p] \in Locals
  BY DEF Parts, CallsOK
<1>1. ASSUME NEW p \in Callers, p # q, Continue(p) \/ Call(p) PROVE call'[q] = call[q]
  BY <1>1, OtherCaller
<1>2. ASSUME Continue(q)
      PROVE  \/ call'[q].pc \in {"idle"} \cup LifePC
             \/ /\ call'[q].pc = "send_record" /\ call'[q].convo = call[q].convo
                /\ send_message_client(q)
  <2>1. Return(q) => call'[q].pc = "idle"
    BY <1>0 DEF Return, Idle
  <2>2. Goto(q, "shutdown_reset") => call'[q].pc = "shutdown_reset"
    BY <1>0 DEF Goto, Locals
  <2>3. call' = [call EXCEPT ![q] = [@ EXCEPT !.pc = "send_record", !.msg = nextMsg]]
            => call'[q].pc = "send_record" /\ call'[q].convo = call[q].convo
    BY <1>0 DEF Locals
  <2>4. \/ Return(q) \/ Goto(q, "shutdown_reset")
        \/ /\ send_message_client(q)
           /\ call' = [call EXCEPT ![q] = [@ EXCEPT !.pc = "send_record", !.msg = nextMsg]]
    BY <1>2 DEF Continue, init_fail, init_seed, shutdown_drop, shutdown_reset,
       create_record, send_message_client, send_message_record, add_group_member_client
  <2> QED
    BY <2>1, <2>2, <2>3, <2>4 DEF LifePC
<1>3. ASSUME NEW c \in Convos, create_client(q, c)
      PROVE  call'[q].pc = "create_record" /\ call'[q].convo = c
  BY <1>0, <1>3 DEF create_client, Enter, Idle
<1>4. ASSUME NEW c \in Convos, add_group_member_check(q, c) \/ send_message_check(q, c)
      PROVE  /\ call'[q].pc \in {"add_client", "send_client"} /\ call'[q].convo = c
             /\ check_live(c)
  BY <1>0, <1>4 DEF add_group_member_check, send_message_check, Enter, Idle
<1>5. init_load(q) \/ shutdown_take(q) => call'[q].pc \in LifePC
  <2>1. init_load(q) => call'[q].pc = "init_seed"
    BY <1>0 DEF init_load, Goto, Locals
  <2>2. shutdown_take(q) => call'[q].pc = "shutdown_drop"
    BY <1>0 DEF shutdown_take, Idle
  <2> QED
    BY <2>1, <2>2 DEF LifePC
<1>6. ASSUME NEW c \in Convos,
             \/ delete_conversation(q, c)
             \/ \E n \in Nicknames \cup {None} : set_conversation_nickname(q, c, n)
      PROVE  UNCHANGED call
  BY <1>6 DEF delete_conversation, set_conversation_nickname
<1>7. ASSUME NEW n \in Names \cup {None}, set_installation_name(q, n) PROVE UNCHANGED call
  BY <1>7 DEF set_installation_name
<1>8. ASSUME NEW s \in Sessions, Consume(s) \/ Peer(s) PROVE UNCHANGED call
  BY <1>8 DEF Consume, Peer, fetch_metadata, record_conversation_started,
     record_message_received, record_members_changed, peer_invites, peer_sends,
     peer_changes_members
<1>9. crash => call'[q].pc = "idle"
  BY DEF crash, Idle
<1>10. UNCHANGED vars => UNCHANGED call
  BY DEF vars
<1>11. ASSUME Call(q)
       PROVE  \/ call'[q] = call[q]
              \/ call'[q].pc \in {"idle"} \cup LifePC
              \/ \E c \in Convos : /\ call'[q].pc = "create_record" /\ call'[q].convo = c
                                   /\ create_client(q, c)
              \/ \E c \in Convos : /\ call'[q].pc \in {"add_client", "send_client"}
                                   /\ call'[q].convo = c /\ check_live(c)
                                   /\ add_group_member_check(q, c) \/ send_message_check(q, c)
  <2>1. CASE init_load(q) \/ shutdown_take(q)
    BY <1>5, <2>1
  <2>2. ASSUME NEW c \in Convos, create_client(q, c)
        PROVE  call'[q].pc = "create_record" /\ call'[q].convo = c /\ create_client(q, c)
    BY <1>3, <2>2
  <2>3. CASE \E n \in Names \cup {None} : set_installation_name(q, n)
    BY <1>7, <2>3
  <2>4. CASE \E c \in Convos : \/ delete_conversation(q, c)
                               \/ \E n \in Nicknames \cup {None} :
                                     set_conversation_nickname(q, c, n)
    BY <1>6, <2>4
  <2>5. CASE \E c \in Convos : create_client(q, c)
    BY <2>2, <2>5
  <2>6. CASE \E c \in Convos : add_group_member_check(q, c) \/ send_message_check(q, c)
    BY <1>4, <2>6
  <2> QED
    BY <1>11, <2>1, <2>3, <2>4, <2>5, <2>6
    DEF Call, create_conversation, create_group_conversation
<1> QED
  BY <1>1, <1>2, <1>8, <1>9, <1>10, <1>11 DEF Next

\* A create between its halves goes on with its second, or dies with the process.
LEMMA CreateGoesOn ==
    ASSUME Parts, [Next]_vars, NEW q \in Callers, call[q].pc = "create_record"
    PROVE  call'[q] = call[q] \/ create_record(q) \/ crash
<1> USE DEF display, disk, names, client, queues, locals, told, writes, history
<1>1. ASSUME NEW p \in Callers, Continue(p) \/ Call(p) PROVE call'[q] = call[q] \/ create_record(q)
  <2>1. CASE p # q
    BY <1>1, <2>1, OtherCaller
  <2>2. CASE p = q
    <3>1. ~Call(q)
      BY DEF Call, init_load, shutdown_take, create_conversation, create_group_conversation,
         create_client, add_group_member_check, send_message_check, delete_conversation,
         set_conversation_nickname, set_installation_name
    <3>2. Continue(q) => create_record(q)
      BY DEF Continue, init_fail, init_seed, shutdown_drop, shutdown_reset,
         send_message_client, send_message_record, add_group_member_client
    <3> QED
      BY <1>1, <2>2, <3>1, <3>2
  <2> QED
    BY <2>1, <2>2
<1>2. ASSUME NEW s \in Sessions, Consume(s) \/ Peer(s) PROVE UNCHANGED call
  BY <1>2 DEF Consume, Peer, fetch_metadata, record_conversation_started,
     record_message_received, record_members_changed, peer_invites, peer_sends,
     peer_changes_members
<1>3. UNCHANGED vars => UNCHANGED call
  BY DEF vars
<1> QED
  BY <1>1, <1>2, <1>3 DEF Next

-----------------------------------------------------------------------------
(***************************************************************************)
(* What a step does to what is known of a conversation                     *)
(***************************************************************************)
\* Every client and queue is empty after the step: a crash, the seeding of the
\* display and its reset.
Cleared == \A s \in Sessions : held'[s] = {} /\ events'[s] = << >>

\* A conversation that is listed, live in the list, stays so or is deleted.
ListKept ==
    /\ deleted \subseteq deleted'
    /\ \A c \in Convos :
        /\ chats[c] # None => chats'[c] # None \/ c \in deleted'
        /\ check_live(c) => check_live(c)' \/ c \in deleted'

LEMMA LiveKept ==
    ASSUME NEW chat \in ChatSession
    PROVE  /\ \A m : /\ Push(chat, m).history_only = chat.history_only
                     /\ Push(with_peer(chat), m).history_only = chat.history_only
           /\ with_peer(chat).history_only = chat.history_only
           /\ ~Revived(chat).history_only
           /\ \A row : [chat EXCEPT !.row = row].history_only = chat.history_only
<1>1. ASSUME NEW x \in ChatSession, NEW m PROVE Push(x, m).history_only = x.history_only
  BY DEF ChatSession, Push
<1>2. with_peer(chat).history_only = chat.history_only
  BY DEF ChatSession, with_peer
<1>3. with_peer(chat) \in ChatSession
  BY SessionTypes
<1>4. ~Revived(chat).history_only
  BY DEF ChatSession, Revived
<1>5. \A row : [chat EXCEPT !.row = row].history_only = chat.history_only
  BY DEF ChatSession
<1> QED
  BY <1>1, <1>2, <1>3, <1>4, <1>5

\* Updating a chat of the list with a session that is live if the old one was.
LEMMA UpdateKept ==
    ASSUME Parts, NEW c \in Convos, NEW chat \in ChatSession, UNCHANGED deleted,
           check_live(c) => ~chat.history_only,
           chats' = [chats EXCEPT ![c] = chat]
    PROVE  ListKept
<1>1. chat # None
  BY NoneAssumption
<1>2. \A k \in Convos : k # c => chats'[k] = chats[k]
  BY DEF Parts, Lists
<1>3. chats'[c] = chat
  BY DEF Parts, Lists
<1> QED
  BY <1>1, <1>2, <1>3 DEF ListKept, check_live

LEMMA ResetClears ==
    ASSUME OneController, Parts, LifeInv, NEW p \in Callers, init_seed(p) \/ shutdown_reset(p)
    PROVE  Cleared
<1> USE DEF display, disk, names, client, queues, locals, told, writes, history
<1>1. CASE init_seed(p)
  <2>1. call[p].pc = "init_seed" /\ p \in Controllers /\ installed = 0
    BY <1>1 DEF init_seed, LifeInv, CallsLife, LifePC
  <2>2. \A s \in Sessions : held[s] = {} /\ events[s] = << >>
    BY <2>1, NothingActive
  <2> QED
    BY <1>1, <2>2 DEF init_seed, Cleared
<1>2. CASE shutdown_reset(p)
  <2>1. call[p].pc = "shutdown_reset" /\ p \in Controllers /\ installed = 0
    BY <1>2 DEF shutdown_reset, LifeInv, CallsLife, LifePC
  <2>2. held[call[p].taken] = {} /\ events[call[p].taken] = << >>
    BY <1>2, <2>1 DEF shutdown_reset, consumer_ended, LifeInv, CallsLife
  <2>3. \A s \in Sessions : Active(s) => s = call[p].taken
    BY <2>1, OnlyController, BoundsAssumption DEF Active, Stopping, LifePC, Sessions
  <2>4. \A s \in Sessions : held[s] = {} /\ events[s] = << >>
    BY <2>2, <2>3 DEF LifeInv, ClientsLife
  <2> QED
    BY <1>2, <2>4 DEF shutdown_reset, Cleared
<1> QED
  BY <1>1, <1>2

LEMMA KeptOrCleared ==
    ASSUME OneController, Parts, LifeInv, [Next]_vars
    PROVE  ListKept \/ Cleared
<1> USE DEF display, disk, names, client, queues, locals, told, writes, history
<1>0. \A c \in Convos : chats[c] # None => chats[c] \in ChatSession
  BY ListTypes DEF Parts
<1>1. CASE UNCHANGED listing
  BY <1>1 DEF listing, ListKept, check_live
<1>2. CASE crash
  BY <1>2 DEF crash, Cleared
<1>3. ASSUME NEW p \in Callers, init_seed(p) \/ shutdown_reset(p) PROVE Cleared
  BY <1>3, ResetClears
<1>4. ASSUME NEW p \in Callers, create_record(p) PROVE ListKept
  <2>1. PICK k \in Convos : k = call[p].convo
    BY <1>4 DEF create_record, Parts, CallsOK
  <2>2. Fresh(created_row(k)) \in ChatSession /\ ~Fresh(created_row(k)).history_only
    BY <2>1, RowTypes, SessionTypes DEF Fresh
  <2> QED
    BY <1>4, <2>1, <2>2, UpdateKept DEF create_record
<1>5. ASSUME NEW p \in Callers, send_message_record(p) PROVE ListKept
  <2>1. PICK k \in Convos : k = call[p].convo
    BY <1>5 DEF send_message_record, Parts, CallsOK
  <2>2. call[p].msg \in Msgs
    BY <1>5 DEF send_message_record, Parts, CallsOK
  <2>3. CASE chats' = chats
    BY <1>5, <2>3 DEF ListKept, check_live, send_message_record
  <2>4. CASE chats[k] # None /\ chats' = [chats EXCEPT ![k] = Push(@, call[p].msg)]
    <3>1. Push(chats[k], call[p].msg) \in ChatSession
      BY <1>0, <2>2, <2>4, SessionTypes
    <3>2. check_live(k) => ~Push(chats[k], call[p].msg).history_only
      BY <1>0, <2>4, LiveKept DEF check_live
    <3> QED
      BY <1>5, <2>4, <3>1, <3>2, UpdateKept DEF send_message_record
  <2> QED
    BY <1>5, <2>1, <2>3, <2>4 DEF send_message_record
<1>6. ASSUME NEW p \in Callers, NEW k \in Convos, delete_conversation(p, k) PROVE ListKept
  <2>1. deleted' = deleted \cup {k} /\ \A c \in Convos : c # k => chats'[c] = chats[c]
    BY <1>6 DEF delete_conversation, Parts, Lists
  <2> QED
    BY <2>1 DEF ListKept, check_live
<1>7. ASSUME NEW p \in Callers, NEW k \in Convos, NEW n \in Nicknames \cup {None},
             set_conversation_nickname(p, k, n)
      PROVE  ListKept
  <2> DEFINE chat == [chats[k] EXCEPT !.row = [@ EXCEPT !.nickname = n]]
  <2>1. chats[k] # None /\ chats' = [chats EXCEPT ![k] = chat] /\ UNCHANGED deleted
    BY <1>7 DEF set_conversation_nickname
  <2>2. chat \in ChatSession
    BY <1>0, <2>1, SessionTypes
  <2>3. chat.history_only = chats[k].history_only
    BY <1>0, <2>1 DEF ChatSession
  <2> HIDE DEF chat
  <2>4. check_live(k) => ~chat.history_only
    BY <2>3 DEF check_live
  <2> QED
    BY <2>1, <2>2, <2>4, UpdateKept
<1>8. ASSUME NEW s \in Sessions, record_conversation_started(s) PROVE ListKept
  <2>1. PICK k \in Convos : k = Head(events[s]).convo
    BY <1>8, HeadTypes DEF record_conversation_started, Handling, Parts
  <2>2. UNCHANGED deleted
    BY <1>8 DEF record_conversation_started
  <2>3. CASE chats' = chats
    BY <2>2, <2>3 DEF ListKept, check_live
  <2>4. CASE chats[k] # None /\ chats' = [chats EXCEPT ![k] = Revived(@)]
    BY <1>0, <2>2, <2>4, UpdateKept, SessionTypes, LiveKept
  <2>5. CASE chats[k] = None /\ chats' = [chats EXCEPT ![k] = Fresh(started_row(s, k))]
    <3>1. Fresh(started_row(s, k)) \in ChatSession /\ ~Fresh(started_row(s, k)).history_only
      BY RowTypes, SessionTypes DEF Fresh
    <3> QED
      BY <2>2, <2>5, <3>1, UpdateKept
  <2>6. \/ chats' = chats
        \/ chats[k] # None /\ chats' = [chats EXCEPT ![k] = Revived(@)]
        \/ chats[k] = None /\ chats' = [chats EXCEPT ![k] = Fresh(started_row(s, k))]
    BY <1>8, <2>1 DEF record_conversation_started
  <2> QED
    BY <2>3, <2>4, <2>5, <2>6
<1>9. ASSUME NEW s \in Sessions, record_message_received(s) PROVE ListKept
  <2>1. PICK k \in Convos : k = Head(events[s]).convo
    BY <1>9, HeadTypes DEF record_message_received, Handling, Parts
  <2>2. UNCHANGED deleted /\ Head(events[s]).msg \in Msgs
    BY <1>9, HeadTypes DEF record_message_received, Handling, Parts
  <2> DEFINE chat == with_peer(session_for(k))
             m == Head(events[s]).msg
  <2>3. \/ chats' = chats
        \/ chats' = [chats EXCEPT ![k] = Push(chat, m)]
        \/ chats' = [chats EXCEPT ![k] = chat]
    BY <1>9, <2>1 DEF record_message_received
  <2>4. session_for(k) \in ChatSession
    BY <1>0, RowTypes, SessionTypes DEF session_for
  <2>5. chat \in ChatSession /\ Push(chat, m) \in ChatSession
    BY <2>2, <2>4, SessionTypes
  <2>6. check_live(k) => ~session_for(k).history_only
    BY DEF check_live, session_for
  <2>7. check_live(k) => ~chat.history_only /\ ~Push(chat, m).history_only
    BY <2>4, <2>6, LiveKept
  <2> HIDE DEF chat, m
  <2>8. CASE chats' = chats
    BY <2>2, <2>8 DEF ListKept, check_live
  <2> QED
    BY <2>2, <2>3, <2>5, <2>7, <2>8, UpdateKept
<1> QED
  BY <1>1, <1>2, <1>3, <1>4, <1>5, <1>6, <1>7, <1>8, <1>9, ListSteps

-----------------------------------------------------------------------------
(***************************************************************************)
(* Events that wait                                                        *)
(***************************************************************************)
LEMMA DoneEvents ==
    ASSUME EventsOK, NEW t \in Sessions, events[t] # << >>, Done(t)
    PROVE  /\ \A s \in Sessions \ {t} : events'[s] = events[s]
           /\ events[t] \in Seq(Event) /\ Len(events[t]) \in Nat \ {0}
           /\ DOMAIN events[t] = 1..Len(events[t]) /\ events[t][1] = Head(events[t])
           /\ DOMAIN events'[t] = 1..(Len(events[t]) - 1)
           /\ \A i \in DOMAIN events'[t] : events'[t][i] = events[t][i + 1]
<1>1. events[t] \in Seq(Event) /\ events \in [Sessions -> Seq(Event)]
  BY DEF EventsOK
<1>2. events'[t] = Tail(events[t]) /\ \A s \in Sessions \ {t} : events'[s] = events[s]
  BY <1>1 DEF Done
<1>3. /\ Tail(events[t]) \in Seq(Event) /\ Len(Tail(events[t])) = Len(events[t]) - 1
      /\ \A i \in 1..Len(Tail(events[t])) : Tail(events[t])[i] = events[t][i + 1]
      /\ Head(events[t]) = events[t][1]
  BY <1>1, HeadTailProperties
<1>4. /\ Len(events[t]) \in Nat \ {0} /\ DOMAIN events[t] = 1..Len(events[t])
  BY <1>1, LenProperties, EmptySeq
<1>5. DOMAIN Tail(events[t]) = 1..(Len(events[t]) - 1)
  BY <1>3, LenProperties
<1> QED
  BY <1>1, <1>2, <1>3, <1>4, <1>5

LEMMA EnqueueEvents ==
    ASSUME EventsOK, NEW t \in Sessions, NEW c \in Convos, NEW m \in Msgs \cup {0},
           NEW type \in {"ConversationStarted", "MessageReceived", "MembersChanged"},
           Enqueue(t, type, c, m)
    PROVE  /\ \A s \in Sessions \ {t} : events'[s] = events[s]
           /\ events[t] \in Seq(Event) /\ Len(events[t]) \in Nat
           /\ DOMAIN events[t] = 1..Len(events[t])
           /\ DOMAIN events'[t] = 1..(Len(events[t]) + 1)
           /\ \A i \in DOMAIN events[t] : events'[t][i] = events[t][i]
           /\ events'[t][Len(events[t]) + 1].type = type
           /\ events'[t][Len(events[t]) + 1].convo = c
           /\ events'[t][Len(events[t]) + 1].msg = m
<1> DEFINE e == [type |-> type, convo |-> c, msg |-> m]
<1>1. e \in Event
  BY DEF Event
<1>2. events[t] \in Seq(Event) /\ events \in [Sessions -> Seq(Event)]
  BY DEF EventsOK
<1>3. events'[t] = Append(events[t], e) /\ \A s \in Sessions \ {t} : events'[s] = events[s]
  BY <1>2 DEF Enqueue
<1> HIDE DEF e
<1>4. /\ Append(events[t], e) \in Seq(Event) /\ Len(Append(events[t], e)) = Len(events[t]) + 1
      /\ \A i \in 1..Len(events[t]) : Append(events[t], e)[i] = events[t][i]
      /\ Append(events[t], e)[Len(events[t]) + 1] = e
  BY <1>1, <1>2, AppendProperties
<1>5. Len(events[t]) \in Nat /\ DOMAIN events[t] = 1..Len(events[t])
  BY <1>2, LenProperties
<1>6. DOMAIN Append(events[t], e) = 1..(Len(events[t]) + 1)
  BY <1>4, LenProperties
<1> QED
  BY <1>2, <1>3, <1>4, <1>5, <1>6 DEF e

LEMMA DonePending ==
    ASSUME EventsOK, NEW t \in Sessions, events[t] # << >>, Done(t),
           NEW s \in Sessions, NEW type, NEW c, Pending(s, type, c)
    PROVE  \/ Pending(s, type, c)'
           \/ s = t /\ Head(events[t]).type = type /\ Head(events[t]).convo = c
<1>1. CASE s # t
  BY <1>1, DoneEvents DEF Pending
<1>2. CASE s = t
  <2>1. PICK i \in DOMAIN events[t] : events[t][i].type = type /\ events[t][i].convo = c
    BY <1>2 DEF Pending
  <2>2. CASE i = 1
    BY <1>2, <2>1, <2>2, DoneEvents
  <2>3. CASE i # 1
    <3>1. i - 1 \in DOMAIN events'[t] /\ events'[t][i - 1] = events[t][i]
      BY <2>1, <2>3, DoneEvents
    <3> QED
      BY <1>2, <2>1, <3>1 DEF Pending
  <2> QED
    BY <2>2, <2>3
<1> QED
  BY <1>1, <1>2

LEMMA EnqueuePending ==
    ASSUME EventsOK, NEW t \in Sessions, NEW k \in Convos, NEW m \in Msgs \cup {0},
           NEW y \in {"ConversationStarted", "MessageReceived", "MembersChanged"},
           Enqueue(t, y, k, m)
    PROVE  /\ Pending(t, y, k)'
           /\ \A s \in Sessions : \A type, c : Pending(s, type, c) => Pending(s, type, c)'
<1>0. /\ \A s \in Sessions \ {t} : events'[s] = events[s]
      /\ Len(events[t]) \in Nat /\ DOMAIN events[t] = 1..Len(events[t])
      /\ DOMAIN events'[t] = 1..(Len(events[t]) + 1)
      /\ \A i \in DOMAIN events[t] : events'[t][i] = events[t][i]
      /\ events'[t][Len(events[t]) + 1].type = y
      /\ events'[t][Len(events[t]) + 1].convo = k
  BY EnqueueEvents
<1>1. Pending(t, y, k)'
  <2>1. Len(events[t]) + 1 \in DOMAIN events'[t]
    BY <1>0
  <2>2. /\ events'[t][Len(events[t]) + 1].type = y
        /\ events'[t][Len(events[t]) + 1].convo = k
    BY <1>0
  <2> QED
    BY <2>1, <2>2 DEF Pending
<1>2. ASSUME NEW s \in Sessions, NEW type, NEW c, Pending(s, type, c) PROVE Pending(s, type, c)'
  <2>1. PICK i \in DOMAIN events[s] : events[s][i].type = type /\ events[s][i].convo = c
    BY <1>2 DEF Pending
  <2>2. i \in DOMAIN events'[s] /\ events'[s][i] = events[s][i]
    <3>1. CASE s = t
      BY <1>0, <3>1
    <3>2. CASE s # t
      BY <1>0, <3>2
    <3> QED
      BY <3>1, <3>2
  <2> QED
    BY <2>1, <2>2 DEF Pending
<1> QED
  BY <1>1, <1>2

\* The queue operations of the peers' steps.
LEMMA PeerEnqueues ==
    ASSUME Parts, NEW s \in Sessions, NEW c \in Convos
    PROVE  /\ peer_invites(s, c) => Enqueue(s, "ConversationStarted", c, 0)
           /\ peer_sends(s, c) => nextMsg \in Msgs /\ Enqueue(s, "MessageReceived", c, nextMsg)
           /\ peer_changes_members(s, c) => Enqueue(s, "MembersChanged", c, 0)
<1>1. nextMsg <= MaxMsgs => nextMsg \in Msgs
  BY BoundsAssumption DEF Parts, Msgs
<1> QED
  BY <1>1 DEF peer_invites, peer_sends, peer_changes_members

\* A conversation whose start is handled is live in the list, or was deleted.
LEMMA StartedShown ==
    ASSUME Parts, NEW s \in Sessions, record_conversation_started(s), NEW c \in Convos,
           c = Head(events[s]).convo
    PROVE  check_live(c)' \/ c \in deleted'
<1>1. deleted' = deleted
  BY DEF record_conversation_started
<1>2. CASE c \notin deleted
  <2>1. chats'[c] = IF chats[c] # None THEN Revived(chats[c]) ELSE Fresh(started_row(s, c))
    BY <1>2 DEF record_conversation_started, Ignored, Parts, Lists
  <2>2. chats[c] # None => Revived(chats[c]) \in ChatSession /\ ~Revived(chats[c]).history_only
    BY ListTypes, SessionTypes, LiveKept DEF Parts
  <2>3. Fresh(started_row(s, c)) \in ChatSession /\ ~Fresh(started_row(s, c)).history_only
    BY RowTypes, SessionTypes DEF Fresh
  <2> QED
    BY <2>1, <2>2, <2>3, NoneAssumption DEF check_live
<1> QED
  BY <1>1, <1>2

LEMMA StartsKept ==
    ASSUME Parts, [Next]_vars, ~Cleared, NEW s \in Sessions, NEW c \in Convos,
           Pending(s, "ConversationStarted", c)
    PROVE  Pending(s, "ConversationStarted", c)' \/ check_live(c)' \/ c \in deleted'
<1>0. EventsOK
  BY DEF Parts
<1>1. CASE UNCHANGED events
  BY <1>1 DEF Pending
<1>2. CASE crash
  BY <1>2 DEF crash, Cleared
<1>3. ASSUME NEW t \in Sessions, record_conversation_started(t)
      PROVE  Pending(s, "ConversationStarted", c)' \/ check_live(c)' \/ c \in deleted'
  <2>1. events[t] # << >> /\ Done(t)
    BY <1>3 DEF record_conversation_started, Handling
  <2>2. Pending(s, "ConversationStarted", c)' \/ (s = t /\ Head(events[t]).convo = c)
    BY <1>0, <2>1, DonePending
  <2> QED
    BY <1>3, <2>2, StartedShown
<1>4. ASSUME NEW t \in Sessions, record_message_received(t) \/ record_members_changed(t)
      PROVE  Pending(s, "ConversationStarted", c)'
  <2>1. events[t] # << >> /\ Done(t) /\ Head(events[t]).type # "ConversationStarted"
    BY <1>4 DEF record_message_received, record_members_changed, Handling
  <2> QED
    BY <1>0, <2>1, DonePending
<1>5. ASSUME NEW t \in Sessions, NEW k \in Convos,
             peer_invites(t, k) \/ peer_sends(t, k) \/ peer_changes_members(t, k)
      PROVE  Pending(s, "ConversationStarted", c)'
  BY <1>0, <1>5, PeerEnqueues, EnqueuePending
<1> QED
  BY <1>1, <1>2, <1>3, <1>4, <1>5, QueueSteps

\* What the list and the queue know of a conversation: it was deleted, is
\* listed (is live), or its start waits to be handled.
Known(s, c) == chats[c] # None \/ c \in deleted \/ Pending(s, "ConversationStarted", c)
Shown(s, c) == check_live(c) \/ c \in deleted \/ Pending(s, "ConversationStarted", c)

\* A step that clears no session keeps both.
LEMMA KnownKept ==
    ASSUME OneController, Parts, LifeInv, [Next]_vars, ~Cleared,
           NEW s \in Sessions, NEW c \in Convos
    PROVE  (Known(s, c) => Known(s, c)') /\ (Shown(s, c) => Shown(s, c)')
<1>1. ListKept
  BY KeptOrCleared
<1>2. check_live(c)' => chats'[c] # None
  BY DEF check_live
<1>3. Pending(s, "ConversationStarted", c) => Shown(s, c)'
  BY StartsKept DEF Shown
<1>4. Shown(s, c)' => Known(s, c)'
  BY <1>2 DEF Shown, Known
<1>5. chats[c] # None \/ c \in deleted => Known(s, c)'
  BY <1>1 DEF Known, ListKept
<1>6. check_live(c) \/ c \in deleted => Shown(s, c)'
  BY <1>1 DEF Shown, ListKept
<1> QED
  BY <1>3, <1>4, <1>5, <1>6 DEF Known, Shown

-----------------------------------------------------------------------------
(***************************************************************************)
(* Every conversation that appears anywhere was given out by the client    *)
(***************************************************************************)
CallsBorn == \A p \in Callers :
    call[p].pc \in {"create_record", "add_client"} => call[p].convo \in born
BornInv == ListBorn /\ EventsBorn /\ HeldBorn /\ CallsBorn /\ peers \subseteq born

LEMMA BornGrows == ASSUME [Next]_vars PROVE born \subseteq born'
<1> USE DEF display, disk, names, client, queues, locals, told, writes, history
<1>1. ASSUME NEW p \in Callers, NEW c \in Convos,
             create_conversation(p, c) \/ create_group_conversation(p, c)
      PROVE  born \subseteq born'
  BY <1>1 DEF create_conversation, create_group_conversation, create_client
<1>2. ASSUME NEW s \in Sessions, NEW c \in Convos, peer_invites(s, c) PROVE born \subseteq born'
  BY <1>2 DEF peer_invites
<1>3. ASSUME NEW p \in Callers, shutdown_drop(p) \/ add_group_member_client(p)
      PROVE  born \subseteq born'
  BY <1>3 DEF shutdown_drop, add_group_member_client
<1>4. crash => born \subseteq born'
  BY DEF crash
<1> QED
  BY <1>1, <1>2, <1>3, <1>4, ClientSteps

\* A write of one conversation of born.
LEMMA BornUpdate ==
    ASSUME Parts, ListBorn, NEW c \in Convos, c \in born, born \subseteq born',
           UNCHANGED <<deleted, db_deleted>>,
           \A k \in Convos \ {c} : chats'[k] = chats[k] /\ db_chats'[k] = db_chats[k]
    PROVE  ListBorn'
  BY DEF ListBorn

LEMMA NextListBorn ==
    ASSUME Parts, LifeInv, BornInv, [Next]_vars
    PROVE  ListBorn'
<1> USE DEF display, disk, names, client, queues, locals, told, writes, history
<1>0. born \subseteq born' /\ ListBorn /\ chats \in Lists /\ db_chats \in Tables
  BY BornGrows DEF BornInv, Parts
<1>1. CASE UNCHANGED listing
  BY <1>0, <1>1 DEF listing, ListBorn
<1>2. CASE crash
  BY <1>0, <1>2 DEF crash, ListBorn, NoChats
<1>3. ASSUME NEW p \in Callers, init_seed(p) PROVE ListBorn'
  <2>1. loaded = load_state({})
    BY <1>3 DEF init_seed, LifeInv, CallsLife
  <2>2. loaded.deleted = db_deleted /\ \A c \in Convos : loaded.chats[c] # None => db_chats[c] # None
    BY <2>1 DEF load_state
  <2> QED
    BY <1>0, <1>3, <2>2 DEF init_seed, ListBorn
<1>4. ASSUME NEW p \in Callers, shutdown_reset(p) PROVE ListBorn'
  BY <1>0, <1>4 DEF shutdown_reset, ListBorn, NoChats
<1>5. ASSUME NEW p \in Callers, create_record(p) PROVE ListBorn'
  <2>1. PICK k \in Convos : k = call[p].convo
    BY <1>5 DEF create_record, Parts, CallsOK
  <2>2. k \in born
    BY <1>5, <2>1 DEF create_record, BornInv, CallsBorn
  <2>3. /\ UNCHANGED <<deleted, db_deleted>>
        /\ \A c \in Convos \ {k} : chats'[c] = chats[c] /\ db_chats'[c] = db_chats[c]
    BY <1>0, <1>5, <2>1 DEF create_record, save_chat, Lists, Tables
  <2> QED
    BY <1>0, <2>2, <2>3, BornUpdate
<1>6. ASSUME NEW p \in Callers, send_message_record(p) PROVE ListBorn'
  <2>1. PICK k \in Convos : k = call[p].convo
    BY <1>6 DEF send_message_record, Parts, CallsOK
  <2>2. /\ UNCHANGED <<deleted, db_deleted, db_chats>>
        /\ \A c \in Convos : chats'[c] # None => chats[c] # None
    BY <1>0, <1>6, <2>1 DEF send_message_record, Lists
  <2> QED
    BY <1>0, <2>2 DEF ListBorn
<1>7. ASSUME NEW p \in Callers, NEW k \in Convos, delete_conversation(p, k) PROVE ListBorn'
  <2>1. k \in born
    BY <1>0, <1>7 DEF delete_conversation, ListBorn
  <2>2. \A c \in Convos : /\ chats'[c] # None => chats[c] # None
                          /\ db_chats'[c] # None => db_chats[c] # None
    BY <1>0, <1>7 DEF delete_conversation, Lists, Tables
  <2>3. deleted' = deleted \cup {k} /\ db_deleted' = db_deleted \cup {k}
    BY <1>7 DEF delete_conversation
  <2> QED
    BY <1>0, <2>1, <2>2, <2>3 DEF ListBorn
<1>8. ASSUME NEW p \in Callers, NEW k \in Convos, NEW n \in Nicknames \cup {None},
             set_conversation_nickname(p, k, n)
      PROVE  ListBorn'
  <2>1. k \in born
    BY <1>0, <1>8 DEF set_conversation_nickname, ListBorn
  <2>2. /\ UNCHANGED <<deleted, db_deleted>>
        /\ \A c \in Convos \ {k} : chats'[c] = chats[c] /\ db_chats'[c] = db_chats[c]
    BY <1>0, <1>8 DEF set_conversation_nickname, save_chat, Lists, Tables
  <2> QED
    BY <1>0, <2>1, <2>2, BornUpdate
<1>9. ASSUME NEW s \in Sessions, record_conversation_started(s) PROVE ListBorn'
  <2>1. PICK k \in Convos : k = Head(events[s]).convo
    BY <1>9, HeadTypes DEF record_conversation_started, Handling, Parts
  <2>2. k \in born
    BY <1>9, <2>1, HeadBorn DEF record_conversation_started, Handling, Parts, BornInv
  <2>3. /\ UNCHANGED <<deleted, db_deleted>>
        /\ \A c \in Convos \ {k} : chats'[c] = chats[c] /\ db_chats'[c] = db_chats[c]
    BY <1>0, <1>9, <2>1 DEF record_conversation_started, save_chat, Lists, Tables
  <2> QED
    BY <1>0, <2>2, <2>3, BornUpdate
<1>10. ASSUME NEW s \in Sessions, record_message_received(s) PROVE ListBorn'
  <2>1. PICK k \in Convos : k = Head(events[s]).convo
    BY <1>10, HeadTypes DEF record_message_received, Handling, Parts
  <2>2. k \in born
    BY <1>10, <2>1, HeadBorn DEF record_message_received, Handling, Parts, BornInv
  <2>3. /\ UNCHANGED <<deleted, db_deleted>>
        /\ \A c \in Convos \ {k} : chats'[c] = chats[c] /\ db_chats'[c] = db_chats[c]
    BY <1>0, <1>10, <2>1 DEF record_message_received, save_chat, Lists, Tables
  <2> QED
    BY <1>0, <2>2, <2>3, BornUpdate
<1> QED
  BY <1>1, <1>2, <1>3, <1>4, <1>5, <1>6, <1>7, <1>8, <1>9, <1>10, ListSteps

LEMMA NextBorn ==
    ASSUME Parts, LifeInv, BornInv, [Next]_vars
    PROVE  BornInv'
<1> USE DEF display, disk, names, client, queues, locals, told, writes, history
<1>0. born \subseteq born' /\ EventsOK /\ EventsBorn /\ HeldBorn /\ held \in [Sessions -> SUBSET Convos]
  BY BornGrows DEF Parts, BornInv, ClientOK
<1>1. EventsBorn'
  <2>1. CASE UNCHANGED events
    BY <1>0, <2>1 DEF EventsBorn
  <2>2. CASE crash
    BY <2>2 DEF crash, EventsBorn
  <2>3. ASSUME NEW s \in Sessions,
               \/ record_conversation_started(s) \/ record_message_received(s)
               \/ record_members_changed(s)
        PROVE  EventsBorn'
    <3>1. events[s] # << >> /\ Done(s) /\ UNCHANGED born
      BY <2>3 DEF record_conversation_started, record_message_received,
         record_members_changed, Handling
    <3> QED
      BY <1>0, <3>1, DoneBorn
  <2>4. ASSUME NEW s \in Sessions, NEW c \in Convos, peer_invites(s, c) PROVE EventsBorn'
    <3>1. c \in born' /\ Enqueue(s, "ConversationStarted", c, 0)
      BY <2>4 DEF peer_invites
    <3> QED
      BY <1>0, <3>1, EnqueueBorn
  <2>5. ASSUME NEW s \in Sessions, NEW c \in Convos, peer_sends(s, c) PROVE EventsBorn'
    <3>1. c \in born' /\ nextMsg \in Msgs /\ Enqueue(s, "MessageReceived", c, nextMsg)
      BY <1>0, <2>5, PeerEnqueues DEF peer_sends, HeldBorn
    <3> QED
      BY <1>0, <3>1, EnqueueBorn
  <2>6. ASSUME NEW s \in Sessions, NEW c \in Convos, peer_changes_members(s, c) PROVE EventsBorn'
    <3>1. c \in born' /\ Enqueue(s, "MembersChanged", c, 0)
      BY <1>0, <2>6 DEF peer_changes_members, HeldBorn
    <3> QED
      BY <1>0, <3>1, EnqueueBorn
  <2> QED
    BY <2>1, <2>2, <2>3, <2>4, <2>5, <2>6, QueueSteps
<1>2. HeldBorn' /\ peers' \subseteq born'
  <2>0. peers \subseteq born
    BY DEF BornInv
  <2>1. CASE UNCHANGED <<held, peers, born>>
    BY <1>0, <2>0, <2>1 DEF HeldBorn
  <2>2. CASE crash
    BY <2>0, <2>2 DEF crash, HeldBorn
  <2>3. ASSUME NEW p \in Callers, shutdown_drop(p) PROVE HeldBorn' /\ peers' \subseteq born'
    BY <1>0, <2>0, <2>3 DEF shutdown_drop, HeldBorn
  <2>4. ASSUME NEW p \in Callers, add_group_member_client(p)
        PROVE  HeldBorn' /\ peers' \subseteq born'
    <3>1. call[p].convo \in born
      BY <2>4 DEF add_group_member_client, BornInv, CallsBorn
    <3> QED
      BY <1>0, <2>0, <2>4, <3>1 DEF add_group_member_client, HeldBorn
  <2>5. ASSUME NEW p \in Callers, NEW c \in Convos,
               create_conversation(p, c) \/ create_group_conversation(p, c)
        PROVE  HeldBorn' /\ peers' \subseteq born'
    BY <1>0, <2>0, <2>5 DEF create_conversation, create_group_conversation, create_client, HeldBorn
  <2>6. ASSUME NEW s \in Sessions, NEW c \in Convos, peer_invites(s, c)
        PROVE  HeldBorn' /\ peers' \subseteq born'
    BY <1>0, <2>0, <2>6 DEF peer_invites, HeldBorn
  <2> QED
    BY <2>1, <2>2, <2>3, <2>4, <2>5, <2>6, ClientSteps
<1>3. CallsBorn'
  <2>1. ASSUME NEW q \in Callers, call'[q].pc \in {"create_record", "add_client"}
        PROVE  call'[q].convo \in born'
    <3>1. CASE call'[q] = call[q]
      BY <1>0, <2>1, <3>1 DEF BornInv, CallsBorn
    <3>2. ASSUME NEW c \in Convos, call'[q].convo = c, create_client(q, c) PROVE c \in born'
      BY <3>2 DEF create_client
    <3>3. ASSUME NEW c \in Convos, check_live(c) PROVE c \in born'
      BY <1>0, <3>3 DEF check_live, BornInv, ListBorn
    <3> QED
      BY <2>1, <3>1, <3>2, <3>3, CallSteps DEF LifePC
  <2> QED
    BY <2>1 DEF CallsBorn
<1> QED
  BY <1>1, <1>2, <1>3, NextListBorn DEF BornInv

LEMMA InitBorn == Init => BornInv
<1> SUFFICES ASSUME Init PROVE BornInv
  OBVIOUS
<1>1. CallsBorn
  BY DEF Init, CallsBorn, Idle
<1>2. EventsBorn
  BY DEF Init, EventsBorn
<1> QED
  BY <1>1, <1>2 DEF Init, BornInv, ListBorn, HeldBorn, NoChats

-----------------------------------------------------------------------------
(***************************************************************************)
(* What the installed client holds is listed                               *)
(***************************************************************************)
\* How a session comes to hold a conversation.
LEMMA HeldFrom ==
    ASSUME Parts, [Next]_vars, NEW s \in Sessions, NEW c \in held'[s]
    PROVE  \/ c \in held[s]
           \/ s = installed /\ \E p \in Callers : create_client(p, c)
           \/ peer_invites(s, c)
<1> USE DEF display, disk, names, client, queues, locals, told, writes, history
<1>0. held \in [Sessions -> SUBSET Convos]
  BY DEF Parts, ClientOK
<1>1. CASE UNCHANGED <<held, peers, born>> \/ \E p \in Callers : add_group_member_client(p)
  BY <1>1 DEF add_group_member_client
<1>2. CASE crash
  BY <1>2 DEF crash
<1>3. ASSUME NEW p \in Callers, shutdown_drop(p) PROVE c \in held[s]
  BY <1>0, <1>3 DEF shutdown_drop
<1>4. ASSUME NEW p \in Callers, NEW k \in Convos, create_client(p, k)
      PROVE  c \in held[s] \/ (s = installed /\ c = k)
  BY <1>0, <1>4 DEF create_client
<1>5. ASSUME NEW t \in Sessions, NEW k \in Convos, peer_invites(t, k)
      PROVE  c \in held[s] \/ (s = t /\ c = k)
  BY <1>0, <1>5 DEF peer_invites
<1> QED
  BY <1>1, <1>2, <1>3, <1>4, <1>5, ClientSteps DEF create_conversation, create_group_conversation

\* A session stays the installed one unless every queue and client is empty.
LEMMA SameInstalled ==
    ASSUME OneController, Parts, LifeInv, [Next]_vars, installed' # 0, ~Cleared
    PROVE  installed' = installed /\ installed \in Sessions
  BY InstallSteps, ResetClears DEF Parts, ClientOK

LEMMA NextHeld ==
    ASSUME OneController, Parts, LifeInv, HeldIsListed, [Next]_vars
    PROVE  HeldIsListed'
<1> SUFFICES ASSUME installed' # 0, NEW c \in held'[installed'], c \notin deleted'
             PROVE  \/ Shown(installed, c)'
                    \/ \E p \in Callers : call'[p].pc = "create_record" /\ call'[p].convo = c
  BY DEF HeldIsListed, Shown
<1>0. Parts'
  BY NextParts
<1>1. installed' \in Sessions /\ c \in Convos
  BY <1>0 DEF Parts, ClientOK
<1>2. ~Cleared
  BY <1>1 DEF Cleared
<1>3. PICK s \in Sessions : s = installed /\ installed' = s
  BY <1>2, SameInstalled
<1>a. Shown(s, c)' => Shown(installed, c)'
  BY <1>3 DEF Shown, Pending
<1>4. CASE c \in held[installed]
  <2>1. CASE Shown(s, c)
    BY <1>1, <1>2, <1>a, <2>1, KnownKept
  <2>2. ASSUME NEW p \in Callers, call[p].pc = "create_record", call[p].convo = c
        PROVE  check_live(c)' \/ call'[p] = call[p]
    <3>1. CASE create_record(p)
      <4>1. chats'[c] = Fresh(created_row(c))
        BY <1>1, <2>2, <3>1 DEF create_record, Parts, Lists
      <4>2. Fresh(created_row(c)) \in ChatSession /\ ~Fresh(created_row(c)).history_only
        BY <1>1, RowTypes, SessionTypes DEF Fresh
      <4> QED
        BY <4>1, <4>2, NoneAssumption DEF check_live
    <3>2. ~crash
      BY <1>2 DEF crash, Cleared
    <3> QED
      BY <2>2, <3>1, <3>2, CreateGoesOn
  <2>3. \/ Shown(s, c)
        \/ \E p \in Callers : call[p].pc = "create_record" /\ call[p].convo = c
    BY <1>3, <1>4, BoundsAssumption DEF HeldIsListed, Shown, Sessions
  <2> QED
    BY <2>1, <2>2, <2>3 DEF Shown
<1>5. ASSUME NEW p \in Callers, create_client(p, c)
      PROVE  call'[p].pc = "create_record" /\ call'[p].convo = c
  BY <1>5 DEF create_client, Enter, Idle, Parts, CallsOK
<1>6. CASE peer_invites(s, c)
  <2>1. Pending(s, "ConversationStarted", c)'
    BY <1>1, <1>6, PeerEnqueues, EnqueuePending DEF Parts
  <2> QED
    BY <1>a, <2>1 DEF Shown
<1> QED
  BY <1>3, <1>4, <1>5, <1>6, HeldFrom

\* If one thread calls init and shutdown, a conversation the installed client
\* holds is listed and live, unless it was deleted, its ConversationStarted
\* still waits for the consumer or a create is between its halves: no order of
\* events, calls, failed writes, crashes and sessions loses one
\* (create_conversation, record_conversation_started, run_events, shutdown).
THEOREM HeldConversationsListed == ASSUME OneController PROVE Spec => []HeldIsListed
<1>1. Init => HeldIsListed
  BY DEF Init, HeldIsListed
<1>2. Parts /\ LifeInv /\ HeldIsListed /\ [Next]_vars => HeldIsListed'
  BY NextHeld
<1> QED
  BY LifeInvariant, <1>1, <1>2, PTL DEF Spec

-----------------------------------------------------------------------------
(***************************************************************************)
(* A listed chat has the client's kind                                     *)
(***************************************************************************)
\* The defensive "direct" row of record_message_received is right for a direct
\* conversation only.  It never meets a group because the start of a group is
\* queued before its first message: a peer can send to a group only once it is
\* a member, which takes an invitation by it (a ConversationStarted) or by this
\* installation (add_group_member, of a chat that is listed).
KnownAt(s, i, c) ==
    \/ chats[c] # None \/ c \in deleted
    \/ \E j \in DOMAIN events[s] :
        j < i /\ events[s][j].type = "ConversationStarted" /\ events[s][j].convo = c
Announced(s) == \A i \in DOMAIN events[s] :
    events[s][i].type = "MessageReceived" /\ events[s][i].convo \in Groups
        => KnownAt(s, i, events[s][i].convo)
HeldKnown == \A s \in Sessions : \A c \in held[s] \cap peers \cap Groups : Known(s, c)
AddKnown == installed # 0 =>
    \A p \in Callers : \A c \in held[installed] \cap Groups :
        call[p].pc = "add_client" /\ call[p].convo = c => Known(installed, c)
RowKinds ==
    /\ KindAgrees
    /\ \A c \in Convos : db_chats[c] # None => db_chats[c].kind = kind_of(c)
KindInv == RowKinds /\ (\A s \in Sessions : Announced(s)) /\ HeldKnown /\ AddKnown

\* One session at a time has conversations and events.
LEMMA OneActive ==
    ASSUME OneController, LifeInv, NEW s \in Sessions, NEW t \in Sessions, Active(s), Active(t)
    PROVE  s = t
<1>1. ASSUME NEW p \in Callers, call[p].pc \in {"shutdown_drop", "shutdown_reset"}
      PROVE  p \in Controllers /\ installed = 0
  BY <1>1 DEF LifeInv, CallsLife, LifePC
<1>2. 0 \notin Sessions
  BY BoundsAssumption DEF Sessions
<1> QED
  BY <1>1, <1>2 DEF Active, Stopping, OneController

LEMMA NextHeldKnown ==
    ASSUME OneController, Parts, LifeInv, BornInv, KindInv, [Next]_vars
    PROVE  HeldKnown'
<1> SUFFICES ASSUME NEW s \in Sessions, NEW c \in held'[s], c \in peers', c \in Groups
             PROVE  Known(s, c)'
  BY DEF HeldKnown
<1> USE DEF display, disk, names, client, queues, locals, told, writes, history
<1>1. ~Cleared /\ c \in Convos
  BY ConvosAssumption DEF Cleared
<1>2. Known(s, c) => Known(s, c)'
  BY <1>1, KnownKept
<1>3. CASE peer_invites(s, c)
  BY <1>1, <1>3, PeerEnqueues, EnqueuePending DEF Known, Parts
<1>4. ASSUME NEW p \in Callers, NEW k \in Convos,
             create_conversation(p, k) \/ create_group_conversation(p, k)
      PROVE  c \in held[s] /\ c \in peers
  <2>1. k \notin born /\ born' = born \cup {k}
    BY <1>4 DEF create_conversation, create_group_conversation, create_client
  <2>2. c \in peers
    BY <1>4 DEF create_conversation, create_group_conversation
  <2>3. c # k
    BY <2>1, <2>2 DEF BornInv
  <2> QED
    BY <1>4, <2>2, <2>3 DEF create_conversation, create_group_conversation, create_client,
       Parts, ClientOK
<1>5. ASSUME NEW t \in Sessions, NEW k \in Convos, peer_invites(t, k), ~peer_invites(s, c)
      PROVE  c \in held[s] /\ c \in peers
  <2>1. c \in held[s]
    BY <1>5 DEF peer_invites, Parts, ClientOK
  <2>2. Active(s) /\ Active(t)
    BY <1>5, <2>1 DEF peer_invites, Reachable, LifeInv, ClientsLife
  <2>3. s = t
    BY <2>2, OneActive
  <2>4. c # k
    BY <1>5, <2>1, <2>3 DEF peer_invites
  <2> QED
    BY <1>5, <2>1, <2>4 DEF peer_invites
<1>6. ASSUME NEW p \in Callers, add_group_member_client(p) PROVE Known(s, c)
  <2>1. c \in held[s]
    BY <1>6 DEF add_group_member_client
  <2>2. CASE c \in peers
    BY <2>1, <2>2 DEF KindInv, HeldKnown
  <2>3. CASE c \notin peers
    <3>1. installed # 0 /\ c = call[p].convo /\ c \in held[installed] /\ call[p].pc = "add_client"
      BY <1>6, <2>3 DEF add_group_member_client
    <3>2. Active(s) /\ Active(installed) /\ installed \in Sessions
      BY <2>1, <3>1 DEF LifeInv, ClientsLife, Active, Parts, ClientOK
    <3>3. s = installed
      BY <3>2, OneActive
    <3> QED
      BY <3>1, <3>3 DEF KindInv, AddKnown
  <2> QED
    BY <2>2, <2>3
<1>7. ASSUME NEW p \in Callers, shutdown_drop(p) PROVE c \in held[s] /\ c \in peers
  BY <1>7 DEF shutdown_drop, Parts, ClientOK
<1>8. CASE UNCHANGED <<held, peers, born>>
  BY <1>2, <1>8 DEF KindInv, HeldKnown
<1>9. ~crash
  BY <1>1 DEF crash, Cleared
<1>10. c \in held[s] /\ c \in peers => Known(s, c)
  BY DEF KindInv, HeldKnown
<1> QED
  BY <1>2, <1>3, <1>4, <1>5, <1>6, <1>7, <1>8, <1>9, <1>10, ClientSteps

LEMMA NextAddKnown ==
    ASSUME OneController, Parts, LifeInv, BornInv, KindInv, [Next]_vars
    PROVE  AddKnown'
<1> SUFFICES ASSUME installed' # 0, NEW p \in Callers, NEW c \in held'[installed'], c \in Groups,
                    call'[p].pc = "add_client", call'[p].convo = c
             PROVE  Known(installed, c)'
  BY DEF AddKnown
<1>0. Parts' /\ c \in Convos
  BY NextParts, ConvosAssumption
<1>1. ~Cleared
  BY <1>0 DEF Cleared, Parts, ClientOK
<1>2. PICK s \in Sessions : s = installed /\ installed' = s
  BY <1>1, SameInstalled
<1>3. Known(s, c)' => Known(installed, c)'
  BY <1>2 DEF Known, Pending
<1>4. Known(s, c) => Known(s, c)'
  BY <1>0, <1>1, KnownKept
<1>5. check_live(c) => Known(s, c) /\ c \in born
  BY <1>0 DEF check_live, Known, BornInv, ListBorn
<1>6. \/ call'[p] = call[p]
      \/ check_live(c)
  BY CallSteps DEF LifePC
<1>7. c \in born
  BY <1>5, <1>6 DEF BornInv, CallsBorn
<1>8. CASE c \in held[s]
  <2>1. call'[p] = call[p] => Known(s, c)
    BY <1>2, <1>8, BoundsAssumption DEF KindInv, AddKnown, Sessions
  <2> QED
    BY <1>3, <1>4, <1>5, <1>6, <2>1
<1>9. CASE peer_invites(s, c)
  <2>1. Pending(s, "ConversationStarted", c)'
    BY <1>0, <1>9, PeerEnqueues, EnqueuePending DEF Parts
  <2> QED
    BY <1>3, <2>1 DEF Known
<1>10. \A q \in Callers : ~create_client(q, c)
  BY <1>7 DEF create_client
<1> QED
  BY <1>2, <1>8, <1>9, <1>10, HeldFrom

LEMMA NextAnnounced ==
    ASSUME OneController, Parts, LifeInv, KindInv, [Next]_vars, NEW s \in Sessions
    PROVE  Announced(s)'
<1> SUFFICES ASSUME NEW i \in DOMAIN events'[s], events'[s][i].type = "MessageReceived",
                    NEW c \in Groups, c = events'[s][i].convo
             PROVE  KnownAt(s, i, c)'
  BY DEF Announced
<1>0. Parts' /\ c \in Convos /\ EventsOK
  BY NextParts, ConvosAssumption DEF Parts
<1>1. ~Cleared
  BY DEF Cleared
<1>2. ListKept
  BY <1>1, KeptOrCleared
<1>3. chats[c] # None \/ c \in deleted => KnownAt(s, i, c)'
  BY <1>0, <1>2 DEF ListKept, KnownAt
<1>a. Announced(s)
  BY DEF KindInv
<1>4. ASSUME events'[s] = events[s] PROVE KnownAt(s, i, c)'
  <2>1. KnownAt(s, i, c)
    BY <1>4, <1>a DEF Announced
  <2> QED
    BY <1>3, <1>4, <2>1 DEF KnownAt
<1>5. ASSUME NEW t \in Sessions, events[t] # << >>, Done(t),
             \/ record_conversation_started(t)
             \/ Head(events[t]).type # "ConversationStarted"
      PROVE  KnownAt(s, i, c)'
  <2>1. CASE s # t
    BY <1>0, <1>4, <1>5, <2>1, DoneEvents
  <2>2. CASE s = t
    <3>1. /\ Len(events[s]) \in Nat \ {0} /\ DOMAIN events[s] = 1..Len(events[s])
          /\ events[s][1] = Head(events[s])
          /\ DOMAIN events'[s] = 1..(Len(events[s]) - 1)
          /\ \A k \in DOMAIN events'[s] : events'[s][k] = events[s][k + 1]
      BY <1>0, <1>5, <2>2, DoneEvents
    <3>2. i + 1 \in DOMAIN events[s] /\ events'[s][i] = events[s][i + 1] /\ i \in Nat
      BY <3>1
    <3>3. KnownAt(s, i + 1, c)
      BY <1>a, <3>2 DEF Announced
    <3>4. ASSUME NEW j \in DOMAIN events[s], j < i + 1,
                 events[s][j].type = "ConversationStarted", events[s][j].convo = c
          PROVE  KnownAt(s, i, c)'
      <4>1. CASE j = 1
        <5>1. Head(events[t]).type = "ConversationStarted" /\ Head(events[t]).convo = c
          BY <2>2, <3>1, <3>4, <4>1
        <5>2. check_live(c)' \/ c \in deleted'
          BY <1>0, <1>5, <5>1, StartedShown
        <5> QED
          BY <5>2 DEF check_live, KnownAt
      <4>2. CASE j # 1
        <5>1. j - 1 \in DOMAIN events'[s] /\ j - 1 < i /\ (j - 1) + 1 = j
          BY <3>1, <3>2, <3>4, <4>2
        <5>2. events'[s][j - 1] = events[s][j]
          BY <3>1, <5>1
        <5> QED
          BY <3>4, <5>1, <5>2 DEF KnownAt
      <4> QED
        BY <4>1, <4>2
    <3> QED
      BY <1>3, <3>3, <3>4 DEF KnownAt
  <2> QED
    BY <2>1, <2>2
<1>6. ASSUME NEW t \in Sessions, NEW k \in Convos, NEW m \in Msgs \cup {0},
             NEW y \in {"ConversationStarted", "MessageReceived", "MembersChanged"},
             Enqueue(t, y, k, m), y = "MessageReceived" => k \in held[t] /\ k \in peers
      PROVE  KnownAt(s, i, c)'
  <2>1. CASE s # t
    BY <1>0, <1>4, <1>6, <2>1, EnqueueEvents
  <2>2. CASE s = t
    <3>1. /\ Len(events[s]) \in Nat /\ DOMAIN events[s] = 1..Len(events[s])
          /\ DOMAIN events'[s] = 1..(Len(events[s]) + 1)
          /\ \A j \in DOMAIN events[s] : events'[s][j] = events[s][j]
          /\ events'[s][Len(events[s]) + 1].type = y
          /\ events'[s][Len(events[s]) + 1].convo = k
      BY <1>0, <1>6, <2>2, EnqueueEvents
    <3>2. ASSUME NEW j \in DOMAIN events[s], j < i,
                 events[s][j].type = "ConversationStarted", events[s][j].convo = c
          PROVE  KnownAt(s, i, c)'
      <4>1. j \in DOMAIN events'[s] /\ events'[s][j] = events[s][j]
        BY <3>1
      <4> QED
        BY <3>2, <4>1 DEF KnownAt
    <3>3. CASE i \in DOMAIN events[s]
      <4>1. KnownAt(s, i, c)
        BY <1>a, <3>1, <3>3 DEF Announced
      <4> QED
        BY <1>3, <3>2, <4>1 DEF KnownAt
    <3>4. CASE i \notin DOMAIN events[s]
      <4>1. i = Len(events[s]) + 1 /\ \A j \in DOMAIN events[s] : j < i
        BY <3>1, <3>4
      <4>2. Known(s, c)
        BY <1>6, <2>2, <3>1, <4>1 DEF KindInv, HeldKnown
      <4> QED
        BY <1>3, <3>2, <4>1, <4>2 DEF Known, Pending
    <3> QED
      BY <3>3, <3>4
  <2> QED
    BY <2>1, <2>2
<1>7. ASSUME NEW t \in Sessions,
             \/ record_conversation_started(t) \/ record_message_received(t)
             \/ record_members_changed(t)
      PROVE  KnownAt(s, i, c)'
  <2>1. /\ events[t] # << >> /\ Done(t)
        /\ record_conversation_started(t) \/ Head(events[t]).type # "ConversationStarted"
    BY <1>7 DEF record_conversation_started, record_message_received, record_members_changed,
       Handling
  <2> QED
    BY <1>5, <2>1
<1>8. ASSUME NEW t \in Sessions, NEW k \in Convos, peer_invites(t, k) \/ peer_changes_members(t, k)
      PROVE  KnownAt(s, i, c)'
  BY <1>6, <1>8, PeerEnqueues
<1>9. ASSUME NEW t \in Sessions, NEW k \in Convos, peer_sends(t, k)
      PROVE  KnownAt(s, i, c)'
  <2>1. k \in held[t] /\ k \in peers /\ nextMsg \in Msgs
        /\ Enqueue(t, "MessageReceived", k, nextMsg)
    BY <1>9, PeerEnqueues DEF peer_sends
  <2> QED
    BY <1>6, <2>1
<1>10. ~crash
  BY <1>1 DEF crash, Cleared
<1>11. CASE UNCHANGED events
  BY <1>4, <1>11
<1> QED
  BY <1>7, <1>8, <1>9, <1>10, <1>11, QueueSteps

\* The rows the operations build have the conversation's kind.
LEMMA RowsOfKind ==
    /\ \A c \in Convos : created_row(c).kind = kind_of(c)
    /\ \A s \in Sessions, c \in Convos : started_row(s, c).kind = kind_of(c)
    /\ fallback_row.kind = "direct"
    /\ \A row : Fresh(row).row = row
    /\ \A chat \in ChatSession :
        /\ Revived(chat).row = chat.row
        /\ with_peer(chat).row.kind = chat.row.kind
        /\ \A m : Push(chat, m).row = chat.row
        /\ \A n \in Nicknames \cup {None} :
            [chat EXCEPT !.row = [@ EXCEPT !.nickname = n]].row.kind = chat.row.kind
<1>1. /\ \A c \in Convos : created_row(c).kind = kind_of(c)
      /\ \A s \in Sessions, c \in Convos : started_row(s, c).kind = kind_of(c)
      /\ fallback_row.kind = "direct"
  BY DEF created_row, started_row, fallback_row
<1>2. \A row : Fresh(row).row = row
  BY DEF Fresh
<1>3. ASSUME NEW chat \in ChatSession
      PROVE  /\ Revived(chat).row = chat.row
             /\ \A m : Push(chat, m).row = chat.row
  BY DEF ChatSession, Revived, Push
<1>4. ASSUME NEW chat \in ChatSession PROVE with_peer(chat).row.kind = chat.row.kind
  BY DEF ChatSession, Row, with_peer
<1>5. ASSUME NEW chat \in ChatSession, NEW n \in Nicknames \cup {None}
      PROVE  [chat EXCEPT !.row = [@ EXCEPT !.nickname = n]].row.kind = chat.row.kind
  BY DEF ChatSession, Row
<1> QED
  BY <1>1, <1>2, <1>3, <1>4, <1>5

\* Writing one conversation, in the list and in the database.
LEMMA KindUpdate ==
    ASSUME RowKinds, NEW c \in Convos, NEW chat, NEW row, chat.row.kind = kind_of(c),
           row.kind = kind_of(c),
           chats'[c] = chats[c] \/ chats'[c] = chat,
           db_chats'[c] = db_chats[c] \/ db_chats'[c] = row,
           \A k \in Convos \ {c} : chats'[k] = chats[k] /\ db_chats'[k] = db_chats[k]
    PROVE  RowKinds'
<1>1. ASSUME NEW k \in Convos PROVE chats'[k] # None => chats'[k].row.kind = kind_of(k)
  BY DEF RowKinds, KindAgrees
<1>2. ASSUME NEW k \in Convos PROVE db_chats'[k] # None => db_chats'[k].kind = kind_of(k)
  BY DEF RowKinds
<1> QED
  BY <1>1, <1>2 DEF RowKinds, KindAgrees, kind_of

LEMMA NextRowKinds ==
    ASSUME Parts, LifeInv, KindInv, [Next]_vars
    PROVE  RowKinds'
<1> USE DEF display, disk, names, client, queues, locals, told, writes, history
<1>0. RowKinds /\ chats \in Lists /\ db_chats \in Tables
  BY DEF KindInv, Parts
<1>a. \A c \in Convos : chats[c] # None => chats[c] \in ChatSession /\ chats[c].row.kind = kind_of(c)
  BY <1>0, ListTypes DEF RowKinds, KindAgrees
<1>1. CASE UNCHANGED listing
  BY <1>0, <1>1 DEF listing, RowKinds, KindAgrees, kind_of
<1>2. CASE crash
  BY <1>0, <1>2 DEF crash, RowKinds, KindAgrees, kind_of, NoChats
<1>3. ASSUME NEW p \in Callers, init_seed(p) PROVE RowKinds'
  <2>1. loaded = load_state({})
    BY <1>3 DEF init_seed, LifeInv, CallsLife
  <2>2. \A c \in Convos : loaded.chats[c] # None =>
            db_chats[c] # None /\ loaded.chats[c].row = db_chats[c]
    BY <2>1 DEF load_state
  <2>3. chats' = loaded.chats /\ UNCHANGED db_chats
    BY <1>3 DEF init_seed
  <2> QED
    BY <1>0, <2>2, <2>3 DEF RowKinds, KindAgrees, kind_of
<1>4. ASSUME NEW p \in Callers, shutdown_reset(p) PROVE RowKinds'
  BY <1>0, <1>4 DEF shutdown_reset, RowKinds, KindAgrees, kind_of, NoChats
<1>5. ASSUME NEW p \in Callers, create_record(p) PROVE RowKinds'
  <2>1. PICK k \in Convos : k = call[p].convo
    BY <1>5 DEF create_record, Parts, CallsOK
  <2>2. /\ chats'[k] = Fresh(created_row(k))
        /\ db_chats'[k] = db_chats[k] \/ db_chats'[k] = created_row(k)
        /\ \A c \in Convos \ {k} : chats'[c] = chats[c] /\ db_chats'[c] = db_chats[c]
    BY <1>0, <1>5, <2>1 DEF create_record, save_chat, Lists, Tables
  <2>3. Fresh(created_row(k)).row.kind = kind_of(k) /\ created_row(k).kind = kind_of(k)
    BY RowsOfKind
  <2> QED
    BY <1>0, <2>2, <2>3, KindUpdate
<1>6. ASSUME NEW p \in Callers, send_message_record(p) PROVE RowKinds'
  <2>1. PICK k \in Convos : k = call[p].convo
    BY <1>6 DEF send_message_record, Parts, CallsOK
  <2>2. /\ \/ chats' = chats
           \/ chats[k] # None /\ chats'[k] = Push(chats[k], call[p].msg)
        /\ UNCHANGED db_chats
        /\ \A c \in Convos \ {k} : chats'[c] = chats[c]
    BY <1>0, <1>6, <2>1 DEF send_message_record, Lists
  <2>3. chats[k] # None => Push(chats[k], call[p].msg).row.kind = kind_of(k)
    BY <1>a, RowsOfKind
  <2>4. CASE chats' = chats
    BY <1>0, <2>2, <2>4 DEF RowKinds, KindAgrees, kind_of
  <2>5. CASE chats[k] # None /\ chats'[k] = Push(chats[k], call[p].msg)
    BY <1>0, <2>2, <2>3, <2>5, RowsOfKind, KindUpdate
  <2> QED
    BY <2>2, <2>4, <2>5
<1>7. ASSUME NEW p \in Callers, NEW k \in Convos, delete_conversation(p, k) PROVE RowKinds'
  <2>1. /\ chats'[k] = None /\ db_chats'[k] = None
        /\ \A c \in Convos \ {k} : chats'[c] = chats[c] /\ db_chats'[c] = db_chats[c]
    BY <1>0, <1>7 DEF delete_conversation, Lists, Tables
  <2> QED
    BY <1>0, <2>1 DEF RowKinds, KindAgrees, kind_of
<1>8. ASSUME NEW p \in Callers, NEW k \in Convos, NEW n \in Nicknames \cup {None},
             set_conversation_nickname(p, k, n)
      PROVE  RowKinds'
  <2> DEFINE chat == [chats[k] EXCEPT !.row = [@ EXCEPT !.nickname = n]]
  <2>1. /\ chats[k] # None
        /\ chats'[k] = chat
        /\ db_chats'[k] = db_chats[k] \/ db_chats'[k] = chat.row
        /\ \A c \in Convos \ {k} : chats'[c] = chats[c] /\ db_chats'[c] = db_chats[c]
    BY <1>0, <1>8 DEF set_conversation_nickname, save_chat, Lists, Tables
  <2>2. chat.row.kind = kind_of(k)
    BY <1>a, <2>1, RowsOfKind
  <2> HIDE DEF chat
  <2> QED
    BY <1>0, <2>1, <2>2, KindUpdate
<1>9. ASSUME NEW s \in Sessions, record_conversation_started(s) PROVE RowKinds'
  <2>1. PICK k \in Convos : k = Head(events[s]).convo
    BY <1>9, HeadTypes DEF record_conversation_started, Handling, Parts
  <2>2. /\ \/ chats'[k] = chats[k]
           \/ chats[k] # None /\ chats'[k] = Revived(chats[k])
           \/ chats'[k] = Fresh(started_row(s, k))
        /\ db_chats'[k] = db_chats[k] \/ db_chats'[k] = started_row(s, k)
        /\ \A c \in Convos \ {k} : chats'[c] = chats[c] /\ db_chats'[c] = db_chats[c]
    BY <1>0, <1>9, <2>1 DEF record_conversation_started, save_chat, Lists, Tables
  <2>3. Fresh(started_row(s, k)).row.kind = kind_of(k) /\ started_row(s, k).kind = kind_of(k)
    BY RowsOfKind
  <2>4. chats[k] # None => Revived(chats[k]).row.kind = kind_of(k)
    BY <1>a, RowsOfKind
  <2> QED
    BY <1>0, <2>2, <2>3, <2>4, KindUpdate
<1>10. ASSUME NEW s \in Sessions, record_message_received(s) PROVE RowKinds'
  <2>1. PICK k \in Convos : k = Head(events[s]).convo
    BY <1>10, HeadTypes DEF record_message_received, Handling, Parts
  <2> DEFINE chat == with_peer(session_for(k))
             m == Head(events[s]).msg
  <2>2. CASE k \in deleted
    <3>1. UNCHANGED chats /\ ~(~Ignored(k) /\ chat_db)
      BY <1>10, <2>1, <2>2 DEF record_message_received, Ignored
    <3>2. PICK saved \in Outcomes(~Ignored(k) /\ chat_db) :
            db_chats' = save_chat(db_chats, k, chat.row, saved /\ ChatChanged(k))
      BY <1>10, <2>1 DEF record_message_received
    <3>3. ~saved
      BY <3>1, <3>2 DEF Outcomes
    <3>4. UNCHANGED db_chats
      BY <3>2, <3>3 DEF save_chat
    <3> QED
      BY <1>0, <3>1, <3>4 DEF RowKinds, KindAgrees, kind_of
  <2>3. CASE k \notin deleted
    <3>1. chats[k] = None => k \notin Groups
      <4>1. /\ Head(events[s]) = events[s][1] /\ DOMAIN events[s] = 1..Len(events[s])
            /\ 1 \in DOMAIN events[s] /\ events[s][1].type = "MessageReceived"
        BY <1>10, HeadTailProperties, LenProperties
        DEF record_message_received, Handling, Parts, EventsOK
      <4>2. k \in Groups => KnownAt(s, 1, k)
        BY <2>1, <4>1 DEF KindInv, Announced
      <4>3. ~\E j \in DOMAIN events[s] : j < 1
        BY <4>1
      <4> QED
        BY <2>3, <4>2, <4>3 DEF KnownAt
    <3>2. session_for(k) \in ChatSession /\ session_for(k).row.kind = kind_of(k)
      BY <1>a, <3>1, RowTypes, SessionTypes, RowsOfKind DEF session_for, kind_of
    <3>3. chat \in ChatSession /\ chat.row.kind = kind_of(k)
      BY <3>2, SessionTypes, RowsOfKind
    <3>4. Push(chat, m).row.kind = kind_of(k)
      BY <3>3, RowsOfKind
    <3>5. /\ \/ chats'[k] = chats[k] \/ chats'[k] = chat \/ chats'[k] = Push(chat, m)
          /\ db_chats'[k] = db_chats[k] \/ db_chats'[k] = chat.row
          /\ \A c \in Convos \ {k} : chats'[c] = chats[c] /\ db_chats'[c] = db_chats[c]
      BY <1>0, <1>10, <2>1 DEF record_message_received, save_chat, Lists, Tables
    <3> HIDE DEF chat, m
    <3> QED
      BY <1>0, <3>3, <3>4, <3>5, KindUpdate
  <2> QED
    BY <2>2, <2>3
<1> QED
  BY <1>1, <1>2, <1>3, <1>4, <1>5, <1>6, <1>7, <1>8, <1>9, <1>10, ListSteps

LEMMA InitKind == Init => KindInv
<1> SUFFICES ASSUME Init PROVE KindInv
  OBVIOUS
<1>1. RowKinds
  BY DEF Init, RowKinds, KindAgrees, NoChats
<1>2. \A s \in Sessions : Announced(s)
  BY DEF Init, Announced
<1> QED
  BY <1>1, <1>2 DEF Init, KindInv, HeldKnown, AddKnown

\* If one thread calls init and shutdown, every listed chat has the kind the
\* client gave the conversation: no order of invitations, messages, calls,
\* crashes and sessions lets record_message_received put its defensive "direct"
\* session in the place of a group, in the list or in chat.db.
THEOREM ListedKinds == ASSUME OneController PROVE Spec => []KindAgrees
<1>1. Init => BornInv /\ KindInv
  BY InitBorn, InitKind
<1>2. Parts /\ LifeInv /\ BornInv /\ KindInv /\ [Next]_vars => (BornInv /\ KindInv)'
  <2> SUFFICES ASSUME Parts, LifeInv, BornInv, KindInv, [Next]_vars
               PROVE  BornInv' /\ KindInv'
    OBVIOUS
  <2>1. BornInv'
    BY NextBorn
  <2>2. (\A s \in Sessions : Announced(s))'
    BY NextAnnounced
  <2> QED
    BY <2>1, <2>2, NextRowKinds, NextHeldKnown, NextAddKnown DEF KindInv
<1>3. KindInv => KindAgrees
  BY DEF KindInv, RowKinds
<1> QED
  BY LifeInvariant, <1>1, <1>2, <1>3, PTL DEF Spec
===============================================================================
