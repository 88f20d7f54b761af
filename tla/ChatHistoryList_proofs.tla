------------------------ MODULE ChatHistoryList_proofs ------------------------
(***************************************************************************)
(* Proofs about the conversation list of ChatHistory for any number of     *)
(* callers of which one at most calls init and shutdown, with failed       *)
(* writes and crashes: what a session holds, the list shows and chat.db    *)
(* keeps agree.                                                            *)
(***************************************************************************)
EXTENDS ChatHistory_proofs

\* One thread calls init and shutdown.  With two, a shutdown may reset the
\* display another init has seeded (the run with two controllers).
OneController == \A p, q \in Controllers : p = q

\* The steps of init and shutdown that follow the first.
LifePC == {"init_seed", "shutdown_drop", "shutdown_reset"}

\* The session installed, or the one a shutdown is taking down.
Stopping(p, s) == call[p].pc \in {"shutdown_drop", "shutdown_reset"} /\ call[p].taken = s
Active(s) == s = installed \/ \E p \in Callers : Stopping(p, s)

\* Where init and shutdown are and what the display and the clients are then:
\* an init in progress runs against a closed database nobody writes to, so what
\* it read is still true when it seeds the display; a client's conversations
\* and events belong to the session installed or to the one being taken down.
CallsLife == \A p \in Callers :
    /\ call[p].pc \in LifePC => p \in Controllers /\ installed = 0
    /\ call[p].pc = "init_seed" => ~chat_db /\ session # 0 /\ loaded = load_state({})
    /\ call[p].pc \in {"shutdown_drop", "shutdown_reset"} => chat_db
    /\ call[p].pc = "shutdown_reset" => call[p].taken \notin alive /\ held[call[p].taken] = {}
ClientsLife == \A s \in Sessions :
    /\ held[s] # {} \/ events[s] # << >> => Active(s)
    /\ s \in alive => Active(s) \/ \E p \in Callers : call[p].pc = "init_seed" /\ s = session
OpenLife ==
    chat_db => \/ installed # 0
               \/ \E p \in Callers : call[p].pc \in {"shutdown_drop", "shutdown_reset"}
LifeInv == CallsLife /\ ClientsLife /\ OpenLife /\ InitialisedOpen

\* With one controller no other caller is inside init or shutdown.
LEMMA OnlyController ==
    ASSUME OneController, LifeInv, NEW p \in Controllers
    PROVE  \A q \in Callers : q # p => call[q].pc \notin LifePC
  BY DEF OneController, LifeInv, CallsLife

\* Inside init nothing is up.
LEMMA NothingActive ==
    ASSUME OneController, LifeInv, NEW p \in Controllers, p \in Callers, installed = 0,
           call[p].pc \notin {"shutdown_drop", "shutdown_reset"}
    PROVE  \A s \in Sessions : ~Active(s) /\ held[s] = {} /\ events[s] = << >>
<1>1. \A s \in Sessions : ~Active(s)
  BY OnlyController, BoundsAssumption DEF Active, Stopping, LifePC, Sessions
<1> QED
  BY <1>1 DEF LifeInv, ClientsLife

-----------------------------------------------------------------------------
(***************************************************************************)
(* The life of a session                                                   *)
(***************************************************************************)
\* The steps of the other operations leave callers inside init and shutdown
\* where they are, and bring nobody there.
SameLife ==
    \A q \in Callers : call'[q].pc \in LifePC \/ call[q].pc \in LifePC => call'[q] = call[q]

LEMMA StepSameLife ==
    ASSUME CallsOK, NEW p \in Callers, call[p].pc \notin LifePC,
           \/ Return(p) \/ UNCHANGED call
           \/ \E c \in Convos, label \in {"create_record", "add_client", "send_client"} :
                Enter(p, label, c)
           \/ call' = [call EXCEPT ![p] = [@ EXCEPT !.pc = "send_record", !.msg = nextMsg]]
    PROVE  SameLife
<1>1. call \in [Callers -> Locals] /\ call[p] \in Locals
  BY DEF CallsOK
<1>2. UNCHANGED call \/ (call'[p].pc \notin LifePC /\ \A q \in Callers \ {p} : call'[q] = call[q])
  <2>1. CASE Return(p)
    BY <1>1, <2>1 DEF Return, Idle, LifePC
  <2>2. ASSUME NEW c \in Convos, NEW label \in {"create_record", "add_client", "send_client"},
               Enter(p, label, c)
        PROVE  call'[p].pc \notin LifePC /\ \A q \in Callers \ {p} : call'[q] = call[q]
    BY <1>1, <2>2 DEF Enter, Idle, LifePC
  <2>3. CASE call' = [call EXCEPT ![p] = [@ EXCEPT !.pc = "send_record", !.msg = nextMsg]]
    BY <1>1, <2>3 DEF Locals, LifePC
  <2> QED
    BY <2>1, <2>2, <2>3
<1> QED
  BY <1>2 DEF SameLife

\* They keep LifeInv if they change conversations and queues only of a session
\* that is up and write only to an open database.
LEMMA OrdinaryLife ==
    ASSUME Parts, LifeInv, SameLife, UNCHANGED <<installed, session, alive, chat_db, loaded>>,
           ~chat_db => UNCHANGED disk,
           \A s \in Sessions :
                \/ held'[s] = held[s] /\ (events'[s] # << >> => events[s] # << >>)
                \/ s = installed
                \/ s \in alive /\ Active(s)
    PROVE  LifeInv'
<1>1. \A s : (\E p \in Callers : Stopping(p, s)') <=> (\E p \in Callers : Stopping(p, s))
  BY DEF SameLife, Stopping, LifePC
<1>2. \A s : Active(s)' <=> Active(s)
  BY <1>1 DEF Active
<1>3. (\E p \in Callers : call'[p].pc = "init_seed") <=> (\E p \in Callers : call[p].pc = "init_seed")
  BY DEF SameLife, LifePC
<1>4. ClientsLife'
  <2>1. ASSUME NEW s \in Sessions, held'[s] # {} \/ events'[s] # << >> PROVE Active(s)
    BY <2>1 DEF LifeInv, ClientsLife, Active
  <2>2. ASSUME NEW s \in Sessions, s \in alive'
        PROVE  Active(s) \/ ((\E p \in Callers : call'[p].pc = "init_seed") /\ s = session')
    BY <1>3, <2>2 DEF LifeInv, ClientsLife
  <2>3. \A s \in Sessions : held'[s] # {} \/ events'[s] # << >> => Active(s)'
    BY <1>2, <2>1
  <2>4. \A s \in Sessions : s \in alive' =>
            Active(s)' \/ \E p \in Callers : call'[p].pc = "init_seed" /\ s = session'
    BY <1>2, <2>2
  <2> QED
    BY <2>3, <2>4 DEF ClientsLife
<1>5. ASSUME NEW p \in Callers, call'[p].pc \in LifePC
      PROVE  /\ call'[p] = call[p] /\ p \in Controllers /\ installed' = 0
             /\ call[p].pc = "init_seed" => ~chat_db' /\ session' # 0 /\ loaded' = load_state({})'
             /\ call[p].pc \in {"shutdown_drop", "shutdown_reset"} => chat_db'
             /\ call[p].pc = "shutdown_reset"
                    => call[p].taken \notin alive' /\ held'[call[p].taken] = {}
  <2>1. call'[p] = call[p]
    BY <1>5 DEF SameLife
  <2>2. call[p].pc = "init_seed" => loaded' = load_state({})'
    BY <2>1 DEF LifeInv, CallsLife, load_state, disk
  <2>3. call[p].pc = "shutdown_reset" => call[p].taken \in Sessions
    BY DEF Parts, CallsOK
  <2>4. ASSUME call[p].pc = "shutdown_reset" PROVE held'[call[p].taken] = {}
    <3>1. call[p].taken \notin alive /\ held[call[p].taken] = {} /\ installed = 0
      BY <2>4 DEF LifeInv, CallsLife, LifePC
    <3>2. call[p].taken \in Sessions /\ call[p].taken # installed
      BY <2>3, <2>4, <3>1, BoundsAssumption DEF Sessions
    <3> QED
      BY <3>1, <3>2
  <2> QED
    BY <1>5, <2>1, <2>2, <2>4 DEF LifeInv, CallsLife
<1>6. CallsLife'
  BY <1>5 DEF CallsLife, LifePC
<1>7. OpenLife'
  BY DEF LifeInv, OpenLife, SameLife, LifePC
<1> QED
  BY <1>4, <1>6, <1>7 DEF LifeInv, InitialisedOpen

LEMMA InitLife == Init => LifeInv
<1> SUFFICES ASSUME Init PROVE LifeInv
  OBVIOUS
<1>1. \A p \in Callers : call[p].pc = "idle"
  BY DEF Init, Idle
<1>2. CallsLife /\ OpenLife /\ InitialisedOpen
  BY <1>1 DEF Init, CallsLife, LifePC, OpenLife, InitialisedOpen
<1>3. ClientsLife
  BY DEF Init, ClientsLife
<1> QED
  BY <1>2, <1>3 DEF LifeInv

LEMMA LifecycleLife ==
    ASSUME OneController, Parts, LifeInv, NEW p \in Callers,
           \/ p \in Controllers /\ (init_load(p) \/ shutdown_take(p))
           \/ init_seed(p) \/ init_fail(p) \/ shutdown_drop(p) \/ shutdown_reset(p)
    PROVE  LifeInv'
<1> USE DEF display, disk, names, client, queues, locals, told, writes, history
<1>0. call \in [Callers -> Locals] /\ call[p] \in Locals
  BY DEF Parts, CallsOK
<1>a. p \in Controllers
  BY DEF LifeInv, CallsLife, LifePC, init_seed, init_fail, shutdown_drop, shutdown_reset
<1>b. \A q \in Callers : q # p => call[q].pc \notin LifePC
  BY <1>a, OnlyController
<1>c. ASSUME \A q \in Callers \ {p} : call'[q] = call[q]
      PROVE  /\ \A s : (\E q \in Callers : Stopping(q, s)') <=> Stopping(p, s)'
             /\ \A q \in Callers : q # p => call'[q].pc \notin LifePC
  BY <1>b, <1>c DEF Stopping, LifePC
<1>1. CASE init_load(p)
  <2>1. \A s \in Sessions : ~Active(s) /\ held[s] = {} /\ events[s] = << >>
    BY <1>1, <1>a, NothingActive DEF init_load
  <2>2. call'[p].pc = "init_seed" /\ \A q \in Callers \ {p} : call'[q] = call[q]
    BY <1>0, <1>1 DEF init_load, Goto, Locals
  <2>3. \A q \in Callers : q # p => call'[q].pc \notin LifePC
    BY <1>c, <2>2
  <2>4. /\ session + 1 \in Sessions /\ session' = session + 1 /\ session' # 0
        /\ alive' = alive \cup {session'} /\ installed = 0
        /\ UNCHANGED <<installed, held, events, chat_db, disk>>
    BY <1>1, BoundsAssumption DEF init_load, Parts, ClientOK, Sessions
  <2>5. loaded' = load_state({})'
    BY <1>1, <2>1, <2>4 DEF init_load, load_state
  <2>6. ~chat_db
    <3>1. \A q \in Callers : call[q].pc \notin {"shutdown_drop", "shutdown_reset"}
      BY <1>1, <1>b DEF init_load, LifePC
    <3> QED
      BY <2>4, <3>1 DEF LifeInv, OpenLife
  <2>7. CallsLife'
    BY <1>a, <2>2, <2>3, <2>4, <2>5, <2>6 DEF CallsLife, LifePC
  <2>8. \A s \in alive : s = session'
    <3>1. \A q \in Callers : call[q].pc # "init_seed"
      BY <1>1 DEF init_load, ModuleLockFree
    <3> QED
      BY <2>1, <3>1 DEF LifeInv, ClientsLife, Parts, ClientOK
  <2>9. ClientsLife'
    BY <2>1, <2>2, <2>4, <2>8 DEF ClientsLife
  <2> QED
    BY <2>4, <2>6, <2>7, <2>9 DEF LifeInv, OpenLife, InitialisedOpen
<1>2. CASE init_seed(p)
  <2>1. /\ call[p].pc = "init_seed" /\ installed = 0 /\ session # 0 /\ session \in Sessions
        /\ installed' = session /\ chat_db' = TRUE /\ UNCHANGED <<held, events, alive>>
    BY <1>2 DEF init_seed, LifeInv, CallsLife, LifePC, Parts, ClientOK
  <2>2. call'[p].pc = "idle" /\ \A q \in Callers \ {p} : call'[q] = call[q]
    BY <1>0, <1>2 DEF init_seed, Return, Idle
  <2>3. \A q \in Callers : call'[q].pc \notin LifePC
    BY <1>c, <2>2 DEF LifePC
  <2>4. \A s \in Sessions : ~Active(s) /\ held[s] = {} /\ events[s] = << >>
    BY <1>a, <2>1, NothingActive
  <2>5. \A s \in alive' : s = installed'
    BY <2>1, <2>4 DEF LifeInv, ClientsLife, Parts, ClientOK
  <2>6. CallsLife' /\ ClientsLife'
    BY <2>1, <2>3, <2>4, <2>5 DEF CallsLife, ClientsLife, LifePC, Active
  <2> QED
    BY <2>1, <2>6 DEF LifeInv, OpenLife, InitialisedOpen
<1>3. CASE init_fail(p)
  <2>1. /\ call[p].pc = "init_seed" /\ installed = 0 /\ ~chat_db
        /\ alive' = alive \ {session} /\ UNCHANGED <<installed, held, events, chat_db>>
    BY <1>3 DEF init_fail, LifeInv, CallsLife, LifePC
  <2>2. call'[p].pc = "idle" /\ \A q \in Callers \ {p} : call'[q] = call[q]
    BY <1>0, <1>3 DEF init_fail, Return, Idle
  <2>3. \A q \in Callers : call'[q].pc \notin LifePC
    BY <1>c, <2>2 DEF LifePC
  <2>4. \A s \in Sessions : ~Active(s) /\ held[s] = {} /\ events[s] = << >>
    BY <1>a, <2>1, NothingActive
  <2>5. alive' = {}
    BY <2>1, <2>4 DEF LifeInv, ClientsLife, Parts, ClientOK
  <2>6. CallsLife' /\ ClientsLife'
    BY <2>1, <2>3, <2>4, <2>5 DEF CallsLife, ClientsLife, LifePC
  <2> QED
    BY <2>1, <2>6 DEF LifeInv, OpenLife, InitialisedOpen
<1>4. CASE shutdown_take(p)
  <2>1. /\ call[p].pc = "idle" /\ installed # 0 /\ installed' = 0 /\ chat_db
        /\ \A q \in Callers : call[q].pc # "init_seed"
        /\ UNCHANGED <<alive, held, events, chat_db>>
    BY <1>4 DEF shutdown_take, LifeInv, InitialisedOpen, StateInstalled, ModuleLockFree
  <2>2. /\ call'[p].pc = "shutdown_drop" /\ call'[p].taken = installed
        /\ \A q \in Callers \ {p} : call'[q] = call[q]
    BY <1>0, <1>4 DEF shutdown_take, Idle
  <2>3. \A q \in Callers : q # p => call'[q].pc \notin LifePC
    BY <1>c, <2>2
  <2>4. \A s \in Sessions : Active(s) => Active(s)'
    BY <1>b, <2>1, <2>2 DEF Active, Stopping, LifePC
  <2>5. CallsLife'
    BY <1>a, <2>1, <2>2, <2>3 DEF CallsLife, LifePC
  <2>6. ClientsLife'
    BY <2>1, <2>4 DEF LifeInv, ClientsLife
  <2> QED
    BY <2>1, <2>2, <2>5, <2>6 DEF LifeInv, OpenLife, InitialisedOpen
<1>5. CASE shutdown_drop(p)
  <2> DEFINE t == call[p].taken
  <2>1. /\ call[p].pc = "shutdown_drop" /\ t \in Sessions /\ installed = 0 /\ chat_db
        /\ alive' = alive \ {t} /\ held' = [held EXCEPT ![t] = {}]
        /\ UNCHANGED <<installed, events, chat_db>>
    BY <1>5 DEF shutdown_drop, LifeInv, CallsLife, LifePC, Parts, CallsOK
  <2>2. /\ call'[p].pc = "shutdown_reset" /\ call'[p].taken = t
        /\ \A q \in Callers \ {p} : call'[q] = call[q]
    BY <1>0, <1>5 DEF shutdown_drop, Goto, Locals
  <2>3. \A q \in Callers : q # p => call'[q].pc \notin LifePC
    BY <1>c, <2>2
  <2>4. \A s \in Sessions : Active(s) => s = t /\ Active(s)'
    BY <1>b, <2>1, <2>2, BoundsAssumption DEF Active, Stopping, LifePC, Sessions
  <2>5. held'[t] = {} /\ \A s \in Sessions : held'[s] # {} => held[s] # {}
    BY <2>1 DEF Parts, ClientOK
  <2>6. CallsLife'
    BY <1>a, <2>1, <2>2, <2>3, <2>5 DEF CallsLife, LifePC
  <2>7. \A q \in Callers : call[q].pc # "init_seed"
    BY <1>b, <2>1 DEF LifePC
  <2>8. ClientsLife'
    BY <2>1, <2>4, <2>5, <2>7 DEF LifeInv, ClientsLife
  <2> QED
    BY <2>1, <2>2, <2>6, <2>8 DEF LifeInv, OpenLife, InitialisedOpen
<1>6. CASE shutdown_reset(p)
  <2> DEFINE t == call[p].taken
  <2>1. /\ call[p].pc = "shutdown_reset" /\ t \in Sessions /\ installed = 0
        /\ events[t] = << >> /\ held[t] = {} /\ t \notin alive /\ ~chat_db'
        /\ UNCHANGED <<installed, alive, held, events>>
    BY <1>6 DEF shutdown_reset, consumer_ended, LifeInv, CallsLife, LifePC, Parts, CallsOK
  <2>2. call'[p].pc = "idle" /\ \A q \in Callers \ {p} : call'[q] = call[q]
    BY <1>0, <1>6 DEF shutdown_reset, Return, Idle
  <2>3. \A q \in Callers : call'[q].pc \notin LifePC
    BY <1>c, <2>2 DEF LifePC
  <2>4. \A s \in Sessions : Active(s) => s = t
    BY <1>b, <2>1, BoundsAssumption DEF Active, Stopping, LifePC, Sessions
  <2>5. \A q \in Callers : call[q].pc # "init_seed"
    BY <1>b, <2>1 DEF LifePC
  <2>6. \A s \in Sessions : s \notin alive /\ held[s] = {} /\ events[s] = << >>
    BY <2>1, <2>4, <2>5 DEF LifeInv, ClientsLife
  <2>7. CallsLife' /\ ClientsLife'
    BY <2>1, <2>3, <2>6 DEF CallsLife, ClientsLife, LifePC
  <2> QED
    BY <2>1, <2>7 DEF LifeInv, OpenLife, InitialisedOpen
<1> QED
  BY <1>1, <1>2, <1>3, <1>4, <1>5, <1>6

LEMMA CrashLife ==
    ASSUME crash
    PROVE  LifeInv'
<1>1. \A p \in Callers : call'[p].pc = "idle"
  BY DEF crash, Idle
<1>2. /\ installed' = 0 /\ ~chat_db' /\ alive' = {}
      /\ \A s \in Sessions : held'[s] = {} /\ events'[s] = << >>
  BY DEF crash
<1> QED
  BY <1>1, <1>2 DEF LifeInv, CallsLife, ClientsLife, OpenLife, InitialisedOpen, LifePC

\* A write that is tried only on an open database leaves a closed one alone.
LEMMA ClosedUnwritten ==
    ASSUME Parts, NEW tries \in BOOLEAN, tries => chat_db, NEW saved \in Outcomes(tries), ~chat_db
    PROVE  /\ ~saved
           /\ \A c, row, x : save_chat(db_chats, c, row, saved /\ x) = db_chats
           /\ \A c, row : save_chat(db_chats, c, row, saved) = db_chats
           /\ \A c, m : store_message(db_messages, c, m, saved) = db_messages
<1>1. ~saved
  BY SavedOnlyIfTried
<1> QED
  BY <1>1 DEF save_chat, store_message

LEMMA CallerLife ==
    ASSUME OneController, Parts, LifeInv, NEW p \in Callers, Continue(p) \/ Call(p)
    PROVE  LifeInv'
<1> USE DEF display, disk, names, client, queues, locals, told, writes, history
<1>0. CallsOK /\ chat_db \in BOOLEAN /\ held \in [Sessions -> SUBSET Convos]
  BY DEF Parts, ClientOK
<1>1. CASE \/ p \in Controllers /\ (init_load(p) \/ shutdown_take(p))
           \/ init_seed(p) \/ init_fail(p) \/ shutdown_drop(p) \/ shutdown_reset(p)
  BY <1>1, LifecycleLife
<1>2. ASSUME NEW c \in Convos, create_client(p, c) PROVE LifeInv'
  <2>1. SameLife
    BY <1>0, <1>2, StepSameLife DEF create_client, LifePC
  <2>2. \A s \in Sessions : held'[s] = held[s] \/ s = installed
    BY <1>0, <1>2 DEF create_client
  <2> QED
    BY <1>2, <2>1, <2>2, OrdinaryLife DEF create_client
<1>3. CASE create_record(p)
  <2> DEFINE k == call[p].convo
  <2>1. SameLife
    BY <1>0, <1>3, StepSameLife DEF create_record, LifePC
  <2>2. PICK saved \in Outcomes(chat_db) :
            db_chats' = save_chat(db_chats, k, created_row(k), saved)
    BY <1>3 DEF create_record
  <2>3. ~chat_db => UNCHANGED db_chats
    BY <1>0, <2>2, ClosedUnwritten
  <2> QED
    BY <1>3, <2>1, <2>3, OrdinaryLife DEF create_record
<1>4. ASSUME NEW c \in Convos, add_group_member_check(p, c) \/ send_message_check(p, c)
      PROVE  LifeInv'
  <2>1. SameLife
    BY <1>0, <1>4, StepSameLife DEF add_group_member_check, send_message_check, LifePC
  <2> QED
    BY <1>4, <2>1, OrdinaryLife DEF add_group_member_check, send_message_check
<1>5. CASE add_group_member_client(p)
  <2>1. SameLife
    BY <1>0, <1>5, StepSameLife DEF add_group_member_client, LifePC
  <2> QED
    BY <1>5, <2>1, OrdinaryLife DEF add_group_member_client
<1>6. CASE send_message_client(p)
  <2>1. SameLife
    BY <1>0, <1>6, StepSameLife DEF send_message_client, LifePC
  <2> QED
    BY <1>6, <2>1, OrdinaryLife DEF send_message_client
<1>7. CASE send_message_record(p)
  <2> DEFINE k == call[p].convo
             m == call[p].msg
             tries == chats[k] # None /\ chat_db
  <2>1. SameLife
    BY <1>0, <1>7, StepSameLife DEF send_message_record, LifePC
  <2>2. PICK saved \in Outcomes(tries) : db_messages' = store_message(db_messages, k, m, saved)
    BY <1>7 DEF send_message_record
  <2>3. tries \in BOOLEAN /\ (tries => chat_db)
    BY Zenon DEF Parts
  <2> HIDE DEF tries
  <2>4. ~chat_db => UNCHANGED db_messages
    BY <2>2, <2>3, ClosedUnwritten
  <2> QED
    BY <1>7, <2>1, <2>4, OrdinaryLife DEF send_message_record
<1>8. ASSUME NEW c \in Convos, NEW n \in Nicknames \cup {None},
             set_conversation_nickname(p, c, n)
      PROVE  LifeInv'
  <2> DEFINE chat == [chats[c] EXCEPT !.row = [@ EXCEPT !.nickname = n]]
  <2>1. SameLife
    BY <1>8 DEF set_conversation_nickname, SameLife
  <2>2. PICK saved \in Outcomes(chat_db) : db_chats' = save_chat(db_chats, c, chat.row, saved)
    BY <1>8 DEF set_conversation_nickname
  <2>3. ~chat_db => UNCHANGED db_chats
    BY <1>0, <2>2, ClosedUnwritten
  <2> QED
    BY <1>8, <2>1, <2>3, OrdinaryLife DEF set_conversation_nickname
<1>9. ASSUME NEW c \in Convos, delete_conversation(p, c) PROVE LifeInv'
  BY <1>9, OrdinaryLife DEF delete_conversation, SameLife
<1>10. ASSUME NEW n \in Names \cup {None}, set_installation_name(p, n) PROVE LifeInv'
  BY <1>10, OrdinaryLife DEF set_installation_name, SameLife
<1> QED
  BY <1>1, <1>2, <1>3, <1>4, <1>5, <1>6, <1>7, <1>8, <1>9, <1>10
  DEF Continue, Call, create_conversation, create_group_conversation

LEMMA EventLife ==
    ASSUME Parts, LifeInv, NEW s \in Sessions, Consume(s) \/ Peer(s)
    PROVE  LifeInv'
<1> USE DEF display, disk, names, client, queues, locals, told, writes, history
<1>0. UNCHANGED <<call, loaded>> => SameLife
  BY DEF SameLife
<1>a. events \in [Sessions -> Seq(Event)] /\ held \in [Sessions -> SUBSET Convos]
  BY DEF Parts, EventsOK, ClientOK
<1>b. ASSUME Done(s), events[s] # << >>, UNCHANGED held
      PROVE  \A t \in Sessions : held'[t] = held[t] /\ (events'[t] # << >> => events[t] # << >>)
  BY <1>a, <1>b DEF Done
<1>c. ASSUME NEW c \in Convos, NEW type, NEW m, Reachable(s), Enqueue(s, type, c, m),
             \A t \in Sessions \ {s} : held'[t] = held[t]
      PROVE  \A t \in Sessions :
                \/ held'[t] = held[t] /\ (events'[t] # << >> => events[t] # << >>)
                \/ t \in alive /\ Active(t)
  <2>1. s \in alive /\ Active(s)
    BY <1>c DEF Reachable, LifeInv, ClientsLife
  <2>2. \A t \in Sessions \ {s} : events'[t] = events[t]
    BY <1>a, <1>c DEF Enqueue
  <2>3. ASSUME NEW t \in Sessions
        PROVE  \/ held'[t] = held[t] /\ (events'[t] # << >> => events[t] # << >>)
               \/ t \in alive /\ Active(t)
    BY <1>c, <2>1, <2>2
  <2> QED
    BY <2>3
<1>1. CASE fetch_metadata(s)
  BY <1>0, <1>1, OrdinaryLife DEF fetch_metadata
<1>2. CASE record_conversation_started(s)
  <2> DEFINE c == Head(events[s]).convo
             tries == ~Ignored(c) /\ ~(chats[c] # None) /\ chat_db
  <2>1. PICK saved \in Outcomes(tries) :
            db_chats' = save_chat(db_chats, c, started_row(s, c), saved)
    BY <1>2 DEF record_conversation_started
  <2>2. tries \in BOOLEAN /\ (tries => chat_db)
    BY Zenon DEF Parts
  <2>3. events[s] # << >> /\ Done(s) /\ UNCHANGED held
    BY <1>2 DEF record_conversation_started, Handling
  <2> HIDE DEF tries
  <2>4. ~chat_db => UNCHANGED db_chats
    BY <2>1, <2>2, ClosedUnwritten
  <2>5. UNCHANGED <<installed, session, alive, chat_db, loaded, call, db_messages, db_deleted, db_name>>
    BY <1>2 DEF record_conversation_started
  <2> QED
    BY <1>0, <1>b, <2>3, <2>4, <2>5, OrdinaryLife
<1>3. CASE record_message_received(s)
  <2> DEFINE c == Head(events[s]).convo
             m == Head(events[s]).msg
             chat == with_peer(session_for(c))
             tries == ~Ignored(c) /\ chat_db
  <2>1. PICK saved \in Outcomes(tries) :
            /\ db_chats' = save_chat(db_chats, c, chat.row, saved /\ ChatChanged(c))
            /\ db_messages' = store_message(db_messages, c, m, saved)
    BY <1>3 DEF record_message_received
  <2>2. tries \in BOOLEAN /\ (tries => chat_db)
    BY Zenon DEF Parts
  <2>3. events[s] # << >> /\ Done(s) /\ UNCHANGED held
    BY <1>3 DEF record_message_received, Handling
  <2> HIDE DEF tries
  <2>4. ~chat_db => UNCHANGED <<db_chats, db_messages>>
    BY <2>1, <2>2, ClosedUnwritten
  <2>5. UNCHANGED <<installed, session, alive, chat_db, loaded, call, db_deleted, db_name>>
    BY <1>3 DEF record_message_received
  <2> QED
    BY <1>0, <1>b, <2>3, <2>4, <2>5, OrdinaryLife
<1>4. CASE record_members_changed(s)
  BY <1>0, <1>4, <1>b, OrdinaryLife DEF record_members_changed, Handling
<1>5. ASSUME NEW c \in Convos, peer_invites(s, c) PROVE LifeInv'
  <2>1. \A t \in Sessions \ {s} : held'[t] = held[t]
    BY <1>5, <1>a DEF peer_invites
  <2> QED
    BY <1>0, <1>5, <1>c, <2>1, OrdinaryLife DEF peer_invites
<1>6. ASSUME NEW c \in Convos, peer_sends(s, c) PROVE LifeInv'
  BY <1>0, <1>6, <1>c, OrdinaryLife DEF peer_sends
<1>7. ASSUME NEW c \in Convos, peer_changes_members(s, c) PROVE LifeInv'
  BY <1>0, <1>7, <1>c, OrdinaryLife DEF peer_changes_members
<1> QED
  BY <1>1, <1>2, <1>3, <1>4, <1>5, <1>6, <1>7 DEF Consume, Peer

LEMMA NextLife ==
    ASSUME OneController
    PROVE  Parts /\ LifeInv /\ [Next]_vars => LifeInv'
<1>1. Parts /\ LifeInv /\ UNCHANGED vars => LifeInv'
  BY OrdinaryLife DEF vars, disk, SameLife
<1> QED
  BY <1>1, CallerLife, EventLife, CrashLife DEF Next

LEMMA LifeInvariant == ASSUME OneController PROVE Spec => [](Parts /\ LifeInv)
<1>1. Init => Parts /\ LifeInv
  BY InitParts, InitLife
<1>2. Parts /\ LifeInv /\ [Next]_vars => (Parts /\ LifeInv)'
  BY NextParts, NextLife
<1> QED
  BY <1>1, <1>2, PTL DEF Spec

\* If one thread calls init and shutdown, an initialised module has its database
\* open, whatever the other callers, a failed init, a crash or an event consumer
\* still at work do (initialize seeds the display before it
\* installs the state; shutdown resets it after it has taken the state out).
THEOREM OpenWhenInitialised == ASSUME OneController PROVE Spec => []InitialisedOpen
<1>1. LifeInv => InitialisedOpen
  BY DEF LifeInv
<1> QED
  BY LifeInvariant, <1>1, PTL

-----------------------------------------------------------------------------
(***************************************************************************)
(* The installation name                                                   *)
(***************************************************************************)
LEMMA NextName ==
    ASSUME OneController, Parts, LifeInv, NameKept, [Next]_vars
    PROVE  NameKept'
<1> USE DEF display, disk, names, client, queues, locals, told, writes, history
<1>0. ASSUME UNCHANGED names, chat_db' => chat_db PROVE NameKept'
  BY <1>0 DEF NameKept
<1>1. ASSUME NEW p \in Callers, init_seed(p) PROVE NameKept'
  <2>1. loaded = load_state({})
    BY <1>1 DEF init_seed, LifeInv, CallsLife
  <2>2. loaded.installation_name = db_name
    BY <2>1 DEF load_state
  <2> QED
    BY <1>1, <2>2 DEF init_seed, NameKept
<1>2. ASSUME NEW p \in Callers, NEW n \in Names \cup {None}, set_installation_name(p, n)
      PROVE  NameKept'
  <2>1. chat_db /\ installation_name = db_name
    BY <1>2 DEF set_installation_name, NameKept
  <2> QED
    BY <1>2, <2>1 DEF set_installation_name, shown_name, save_installation_name, NameKept
<1>3. CASE crash \/ \E p \in Callers : shutdown_reset(p)
  BY <1>3 DEF crash, shutdown_reset, NameKept
<1>4. ASSUME NEW p \in Callers,
             \/ init_load(p) \/ init_fail(p) \/ shutdown_take(p) \/ shutdown_drop(p)
             \/ create_record(p) \/ add_group_member_client(p)
             \/ send_message_client(p) \/ send_message_record(p)
      PROVE  NameKept'
  BY <1>0, <1>4 DEF init_load, init_fail, shutdown_take, shutdown_drop, create_record,
     add_group_member_client, send_message_client, send_message_record
<1>5. ASSUME NEW p \in Callers, NEW c \in Convos,
             \/ create_conversation(p, c) \/ create_group_conversation(p, c)
             \/ add_group_member_check(p, c) \/ send_message_check(p, c)
             \/ delete_conversation(p, c)
             \/ \E n \in Nicknames \cup {None} : set_conversation_nickname(p, c, n)
      PROVE  NameKept'
  BY <1>0, <1>5 DEF create_conversation, create_group_conversation, create_client,
     add_group_member_check, send_message_check, delete_conversation,
     set_conversation_nickname
<1>6. ASSUME NEW s \in Sessions, Consume(s) \/ Peer(s) PROVE NameKept'
  <2>1. UNCHANGED <<names, chat_db>>
    BY <1>6 DEF Consume, fetch_metadata, record_conversation_started, record_message_received,
       record_members_changed, Peer, peer_invites, peer_sends, peer_changes_members
  <2> QED
    BY <1>0, <2>1
<1>7. CASE UNCHANGED vars
  BY <1>0, <1>7 DEF vars
<1> QED
  BY <1>1, <1>2, <1>3, <1>4, <1>5, <1>6, <1>7 DEF Next, Continue, Call

\* If one thread calls init and shutdown, the installation name shown is the one
\* in chat.db, for any number of other callers: after failed writes, in a process
\* that follows a crash, and after a shutdown and re-init.  No name can be set
\* between init's reading of it and its showing, since the database is closed
\* then (set_installation_name, load_state, initialize).
THEOREM NameSurvives == ASSUME OneController PROVE Spec => []NameKept
<1>1. Init => NameKept
  BY DEF Init, NameKept
<1>2. Parts /\ LifeInv /\ NameKept /\ [Next]_vars => NameKept'
  BY NextName
<1> QED
  BY LifeInvariant, <1>1, <1>2, PTL DEF Spec

-----------------------------------------------------------------------------
(***************************************************************************)
(* The steps that touch the list or chat.db                                *)
(***************************************************************************)
listing == <<chats, deleted, chat_db, db_chats, db_messages, db_deleted, unsaved, replaced,
             sent, received>>

\* Everything else leaves the list, the database and what was told alone.
LEMMA ListSteps ==
    ASSUME [Next]_vars
    PROVE  \/ UNCHANGED listing
           \/ crash
           \/ \E p \in Callers :
                \/ init_seed(p) \/ shutdown_reset(p) \/ create_record(p) \/ send_message_record(p)
                \/ \E c \in Convos : \/ delete_conversation(p, c)
                                     \/ \E n \in Nicknames \cup {None} :
                                            set_conversation_nickname(p, c, n)
           \/ \E s \in Sessions : record_conversation_started(s) \/ record_message_received(s)
<1> USE DEF display, disk, names, client, queues, locals, told, writes, history, listing
<1>1. ASSUME NEW p \in Callers,
             \/ init_load(p) \/ shutdown_take(p) \/ init_fail(p) \/ shutdown_drop(p)
             \/ add_group_member_client(p) \/ send_message_client(p)
             \/ \E c \in Convos : \/ create_conversation(p, c) \/ create_group_conversation(p, c)
                                  \/ add_group_member_check(p, c) \/ send_message_check(p, c)
             \/ \E n \in Names \cup {None} : set_installation_name(p, n)
      PROVE  UNCHANGED listing
  BY <1>1 DEF init_load, shutdown_take, init_fail, shutdown_drop, add_group_member_client,
     send_message_client, create_conversation, create_group_conversation, create_client,
     add_group_member_check, send_message_check, set_installation_name
<1>2. ASSUME NEW s \in Sessions, fetch_metadata(s) \/ record_members_changed(s) \/ Peer(s)
      PROVE  UNCHANGED listing
  BY <1>2 DEF fetch_metadata, record_members_changed, Peer, peer_invites, peer_sends,
     peer_changes_members
<1>3. ASSUME UNCHANGED vars PROVE UNCHANGED listing
  BY <1>3 DEF vars
<1>4. ASSUME NEW p \in Callers, Continue(p)
      PROVE  \/ UNCHANGED listing
             \/ init_seed(p) \/ shutdown_reset(p) \/ create_record(p) \/ send_message_record(p)
  BY <1>1, <1>4 DEF Continue
<1>5. ASSUME NEW p \in Callers, Call(p)
      PROVE  \/ UNCHANGED listing
             \/ \E c \in Convos : \/ delete_conversation(p, c)
                                  \/ \E n \in Nicknames \cup {None} :
                                        set_conversation_nickname(p, c, n)
  BY <1>1, <1>5 DEF Call
<1> HIDE DEF listing
<1> QED
  BY <1>2, <1>3, <1>4, <1>5 DEF Next, Consume

\* What a write of conversation c leaves behind: it was not tried, or reached
\* the database, or marks c as unsaved.
LEMMA WroteCases ==
    ASSUME NEW c, NEW tries \in BOOLEAN, NEW saved \in Outcomes(tries), Wrote(c, tries, saved)
    PROVE  /\ unsaved \subseteq unsaved'
           /\ \/ saved /\ tries /\ UNCHANGED unsaved
              \/ ~saved /\ tries /\ c \in unsaved'
              \/ ~saved /\ ~tries /\ UNCHANGED unsaved
<1>1. saved \in BOOLEAN /\ (saved => tries)
  BY SavedOnlyIfTried
<1> QED
  BY <1>1 DEF Wrote

-----------------------------------------------------------------------------
(***************************************************************************)
(* The list and chat.db tell the same story                                *)
(***************************************************************************)
\* One chat of the list against its row and its stored messages.
Agrees(chat, row, stored) ==
    IF chat = None THEN row = None
    ELSE /\ row = chat.row
         /\ chat.older_messages + Len(chat.messages) = Len(stored)
         /\ \A i \in DOMAIN chat.messages : chat.messages[i] = stored[chat.older_messages + i]

\* DiskMatchesMemory is not inductive: a create, or a first message, starts a
\* chat with no messages, so the database must hold none of a chat it has no
\* row of, and a message is stored without its row when the chat is listed.
DiskConvo(c) ==
    /\ c \notin unsaved /\ db_chats[c] = None => db_messages[c] = << >>
    /\ chat_db /\ c \notin unsaved /\ chats[c] # None => db_chats[c] # None
    /\ chat_db /\ c \notin unsaved \cup replaced =>
            Agrees(chats[c], db_chats[c], db_messages[c])
DiskInv == \A c \in Convos : DiskConvo(c)

LEMMA DiskInvMatches == DiskInv => DiskMatchesMemory
<1>1. ASSUME DiskInv, chat_db, NEW c \in Convos \ (unsaved \cup replaced)
      PROVE  Agrees(chats[c], db_chats[c], db_messages[c])
  BY <1>1 DEF DiskInv, DiskConvo
<1> QED
  BY <1>1 DEF Agrees, DiskMatchesMemory, message_count

\* What init loads agrees with what it read.
LEMMA AgreesLoaded ==
    ASSUME NEW row \in Row, NEW q \in Seq(Msgs), NEW h \in BOOLEAN
    PROVE  Agrees([row |-> row, messages |-> newest(q), older_messages |-> older(q),
                   history_only |-> h], row, q)
<1> DEFINE chat == [row |-> row, messages |-> newest(q), older_messages |-> older(q),
                    history_only |-> h]
<1>1. Len(q) \in Nat /\ older(q) \in Nat /\ older(q) <= Len(q)
  BY BoundsAssumption, LenProperties DEF older
<1>2. \A i \in (older(q) + 1)..Len(q) : q[i] \in Msgs
  BY <1>1, LenProperties, ElementOfSeq
<1>3. /\ newest(q) \in Seq(Msgs)
      /\ Len(newest(q)) = Len(q) - older(q)
      /\ \A i \in 1..(Len(q) - older(q)) : newest(q)[i] = q[older(q) + i]
      /\ DOMAIN newest(q) = 1..(Len(q) - older(q))
  <2>1. Len(SubSeq(q, older(q) + 1, Len(q))) = Len(q) - older(q)
    BY <1>1
  <2> QED
    BY <1>1, <1>2, <2>1, SubSeqProperties, LenProperties DEF newest
<1>4. chat \in ChatSession
  BY <1>1, <1>3 DEF ChatSession
<1>5. chat # None
  BY <1>4, NoneAssumption
<1>6. chat.row = row /\ chat.messages = newest(q) /\ chat.older_messages = older(q)
  OBVIOUS
<1> HIDE DEF chat
<1>7. Agrees(chat, row, q)
  BY <1>1, <1>3, <1>5, <1>6 DEF Agrees
<1> QED
  BY <1>7 DEF chat

\* A new chat agrees with a database that holds no message of it.
LEMMA AgreesFresh ==
    ASSUME NEW row \in Row
    PROVE  Agrees(Fresh(row), row, << >>)
<1>1. Fresh(row) # None
  BY SessionTypes, NoneAssumption
<1> QED
  BY <1>1 DEF Agrees, Fresh

\* The updates of a listed chat, each with what is written for it.
LEMMA AgreesUpdated ==
    ASSUME NEW chat \in ChatSession, NEW row \in Row, NEW q \in Seq(Msgs), Agrees(chat, row, q)
    PROVE  /\ \A m \in Msgs : Agrees(Push(chat, m), row, Append(q, m))
           /\ Agrees(Revived(chat), row, q)
           /\ \A r \in Row : Agrees([chat EXCEPT !.row = r], r, q)
<1>1. /\ chat # None /\ row = chat.row /\ chat.older_messages + Len(chat.messages) = Len(q)
      /\ \A i \in DOMAIN chat.messages : chat.messages[i] = q[chat.older_messages + i]
      /\ chat.messages \in Seq(Msgs) /\ chat.older_messages \in Nat
  BY NoneAssumption DEF Agrees, ChatSession
<1>2. ASSUME NEW m \in Msgs PROVE Agrees(Push(chat, m), row, Append(q, m))
  <2>1. Push(chat, m) # None
    BY SessionTypes, NoneAssumption
  <2>2. /\ Push(chat, m).row = row /\ Push(chat, m).older_messages = chat.older_messages
        /\ Push(chat, m).messages = Append(chat.messages, m)
    BY <1>1 DEF Push, ChatSession
  <2>3. /\ Len(Append(chat.messages, m)) = Len(chat.messages) + 1
        /\ Len(Append(q, m)) = Len(q) + 1
        /\ Len(chat.messages) \in Nat /\ Len(q) \in Nat
        /\ DOMAIN chat.messages = 1..Len(chat.messages)
        /\ DOMAIN Append(chat.messages, m) = 1..(Len(chat.messages) + 1)
    BY <1>1, AppendProperties, LenProperties
  <2>4. ASSUME NEW i \in 1..(Len(chat.messages) + 1)
        PROVE  Append(chat.messages, m)[i] = Append(q, m)[chat.older_messages + i]
    <3>1. CASE i = Len(chat.messages) + 1
      <4>1. chat.older_messages + i = Len(q) + 1
        BY <1>1, <2>3, <3>1
      <4> QED
        BY <1>1, <3>1, <4>1, AppendProperties
    <3>2. CASE i # Len(chat.messages) + 1
      <4>1. i \in 1..Len(chat.messages) /\ chat.older_messages + i \in 1..Len(q)
        BY <1>1, <2>3, <3>2
      <4>2. /\ Append(chat.messages, m)[i] = chat.messages[i]
            /\ Append(q, m)[chat.older_messages + i] = q[chat.older_messages + i]
        BY <1>1, <4>1, AppendProperties
      <4> QED
        BY <1>1, <2>3, <4>1, <4>2
    <3> QED
      BY <3>1, <3>2
  <2>5. chat.older_messages + Len(Append(chat.messages, m)) = Len(Append(q, m))
    BY <1>1, <2>3
  <2> QED
    BY <2>1, <2>2, <2>3, <2>4, <2>5 DEF Agrees
<1>3. Agrees(Revived(chat), row, q)
  <2>1. Revived(chat) # None
    BY SessionTypes, NoneAssumption
  <2>2. /\ Revived(chat).row = chat.row /\ Revived(chat).older_messages = chat.older_messages
        /\ Revived(chat).messages = chat.messages
    BY DEF Revived, ChatSession
  <2> QED
    BY <1>1, <2>1, <2>2 DEF Agrees
<1>4. ASSUME NEW r \in Row PROVE Agrees([chat EXCEPT !.row = r], r, q)
  <2> DEFINE next == [chat EXCEPT !.row = r]
  <2>1. next \in ChatSession /\ next.row = r /\ next.older_messages = chat.older_messages
        /\ next.messages = chat.messages
    BY DEF ChatSession
  <2>2. next # None
    BY <2>1, NoneAssumption
  <2> HIDE DEF next
  <2>3. Agrees(next, r, q)
    BY <1>1, <2>1, <2>2 DEF Agrees
  <2> QED
    BY <2>3 DEF next
<1> QED
  BY <1>2, <1>3, <1>4

\* A conversation a step does not touch, or touches on a closed database only,
\* or leaves unsaved.
LEMMA DiskElsewhere ==
    ASSUME NEW c \in Convos, DiskConvo(c), unsaved \subseteq unsaved',
           db_chats'[c] = db_chats[c], db_messages'[c] = db_messages[c],
           \/ ~chat_db'
           \/ chats'[c] = chats[c] /\ chat_db' = chat_db /\ replaced \subseteq replaced'
    PROVE  DiskConvo(c)'
  BY DEF DiskConvo

LEMMA DiskUnsaved ==
    ASSUME NEW c \in Convos, c \in unsaved'
    PROVE  DiskConvo(c)'
  BY DEF DiskConvo

LEMMA LifecycleDisk ==
    ASSUME Parts, LifeInv, DiskInv, NEW p \in Callers, init_seed(p) \/ shutdown_reset(p) \/ crash
    PROVE  DiskInv'
<1> USE DEF display, disk, names, client, queues, locals, told, writes, history
<1>1. CASE shutdown_reset(p) \/ crash
  <2>1. ~chat_db' /\ UNCHANGED <<db_chats, db_messages, unsaved>>
    BY <1>1 DEF shutdown_reset, crash
  <2> QED
    BY <2>1, DiskElsewhere DEF DiskInv
<1>2. CASE init_seed(p)
  <2>1. loaded = load_state({}) /\ UNCHANGED <<db_chats, db_messages, unsaved>>
    BY <1>2 DEF init_seed, LifeInv, CallsLife
  <2>2. ASSUME NEW c \in Convos PROVE DiskConvo(c)'
    <3>1. chats'[c] = IF db_chats[c] = None THEN None
                      ELSE [row |-> db_chats[c], messages |-> newest(db_messages[c]),
                            older_messages |-> older(db_messages[c]),
                            history_only |-> HistoryOnly(c, {})]
      BY <1>2, <2>1 DEF init_seed, load_state
    <3>2. db_messages[c] \in Seq(Msgs) /\ HistoryOnly(c, {}) \in BOOLEAN
          /\ (db_chats[c] # None => db_chats[c] \in Row)
      BY DEF Parts, Tables, Optional, HistoryOnly
    <3>3. Agrees(chats'[c], db_chats[c], db_messages[c])
      <4>1. CASE db_chats[c] = None
        BY <3>1, <4>1 DEF Agrees
      <4>2. CASE db_chats[c] # None
        BY <3>1, <3>2, <4>2, AgreesLoaded
      <4> QED
        BY <4>1, <4>2
    <3>4. chats'[c] # None => db_chats[c] # None
      BY <3>1
    <3> QED
      BY <2>1, <3>3, <3>4 DEF DiskInv, DiskConvo
  <2> QED
    BY <2>2 DEF DiskInv
<1> QED
  BY <1>1, <1>2

LEMMA CallerDisk ==
    ASSUME Parts, DiskInv, NEW p \in Callers, NEW c \in Convos, NEW n \in Nicknames \cup {None},
           \/ create_record(p) \/ send_message_record(p)
           \/ set_conversation_nickname(p, c, n) \/ delete_conversation(p, c)
    PROVE  DiskInv'
<1> USE DEF display, disk, names, client, queues, locals, told, writes, history
<1>0. /\ chats \in Lists /\ db_chats \in Tables /\ db_messages \in [Convos -> Seq(Msgs)]
      /\ chat_db \in BOOLEAN
      /\ DOMAIN chats = Convos /\ DOMAIN db_chats = Convos /\ DOMAIN db_messages = Convos
  BY DEF Parts, Lists, Tables
<1>1. CASE create_record(p)
  <2>0. PICK k \in Convos, row \in Row : k = call[p].convo /\ row = created_row(k)
    BY <1>1, RowTypes DEF create_record, Parts, CallsOK
  <2>1. k \in Convos /\ row \in Row /\ row # None
    BY NoneAssumption
  <2>2. PICK saved \in Outcomes(chat_db) :
            db_chats' = save_chat(db_chats, k, row, saved) /\ Wrote(k, chat_db, saved)
    BY <1>1, <2>0 DEF create_record
  <2>3. /\ chats' = [chats EXCEPT ![k] = Fresh(row)]
        /\ replaced' = IF chats[k] = None THEN replaced ELSE replaced \cup {k}
        /\ UNCHANGED <<chat_db, db_messages>>
    BY <1>1, <2>0 DEF create_record
  <2>4. /\ unsaved \subseteq unsaved'
        /\ \/ saved /\ chat_db /\ UNCHANGED unsaved
           \/ ~saved /\ chat_db /\ k \in unsaved'
           \/ ~saved /\ ~chat_db /\ UNCHANGED unsaved
    BY <1>0, <2>2, WroteCases
  <2>5. ASSUME NEW j \in Convos, j # k PROVE DiskConvo(j)'
    <3>1. chats'[j] = chats[j] /\ db_chats'[j] = db_chats[j]
      BY <1>0, <2>1, <2>2, <2>3, <2>5 DEF save_chat
    <3> QED
      BY <2>3, <2>4, <3>1, DiskElsewhere DEF DiskInv
  <2>6. DiskConvo(k)'
    <3>1. CASE ~saved /\ chat_db /\ k \in unsaved'
      BY <2>1, <3>1, DiskUnsaved
    <3>2. CASE ~saved /\ ~chat_db
      BY <2>1, <2>2, <2>3, <2>4, <3>2, DiskElsewhere DEF DiskInv, save_chat
    <3>3. CASE saved /\ chat_db /\ UNCHANGED unsaved
      <4>1. db_chats'[k] = row /\ chats'[k] = Fresh(row)
        BY <1>0, <2>1, <2>2, <2>3, <3>3 DEF save_chat
      <4>2. ASSUME k \notin unsaved' \cup replaced'
            PROVE  Agrees(chats'[k], db_chats'[k], db_messages'[k])
        <5>1. chats[k] = None /\ k \notin unsaved \cup replaced
          BY <2>3, <2>4, <4>2
        <5>2. db_chats[k] = None
          BY <2>1, <3>3, <5>1 DEF DiskInv, DiskConvo, Agrees
        <5>3. db_messages'[k] = << >>
          BY <2>1, <2>3, <5>1, <5>2 DEF DiskInv, DiskConvo
        <5> QED
          BY <2>1, <4>1, <5>3, AgreesFresh
      <4> QED
        BY <2>1, <4>1, <4>2 DEF DiskConvo
    <3> QED
      BY <2>4, <3>1, <3>2, <3>3
  <2> QED
    BY <2>5, <2>6 DEF DiskInv
<1>2. CASE send_message_record(p)
  <2>0. PICK k \in Convos, m \in Msgs : k = call[p].convo /\ m = call[p].msg
    BY <1>2 DEF send_message_record, Parts, CallsOK
  <2> DEFINE tries == chats[k] # None /\ chat_db
  <2>1. k \in Convos /\ m \in Msgs
    OBVIOUS
  <2>2. PICK saved \in Outcomes(tries) :
            db_messages' = store_message(db_messages, k, m, saved) /\ Wrote(k, tries, saved)
    BY <1>2, <2>0 DEF send_message_record
  <2>3. tries \in BOOLEAN /\ (tries => chats[k] # None /\ chat_db)
    BY Zenon DEF Parts
  <2>4. /\ chats' = IF tries THEN [chats EXCEPT ![k] = Push(@, m)] ELSE chats
        /\ UNCHANGED <<chat_db, db_chats, replaced>>
    BY <1>2, <2>0 DEF send_message_record
  <2> HIDE DEF tries
  <2>5. /\ unsaved \subseteq unsaved'
        /\ \/ saved /\ tries /\ UNCHANGED unsaved
           \/ ~saved /\ tries /\ k \in unsaved'
           \/ ~saved /\ ~tries /\ UNCHANGED unsaved
    BY <2>2, <2>3, WroteCases
  <2>6. ASSUME NEW j \in Convos, j # k \/ ~tries PROVE DiskConvo(j)'
    <3>1. chats'[j] = chats[j] /\ db_messages'[j] = db_messages[j]
      BY <1>0, <2>1, <2>2, <2>4, <2>5, <2>6 DEF store_message
    <3> QED
      BY <2>4, <2>5, <3>1, DiskElsewhere DEF DiskInv
  <2>7. ASSUME tries PROVE DiskConvo(k)'
    <3>1. CASE ~saved
      BY <2>1, <2>5, <2>7, <3>1, DiskUnsaved
    <3>2. CASE saved
      <4>1. chats[k] \in ChatSession /\ chat_db /\ db_messages[k] \in Seq(Msgs) /\ UNCHANGED unsaved
        BY <1>0, <2>1, <2>3, <2>5, <2>7, <3>2, ListTypes
      <4>2. /\ chats'[k] = Push(chats[k], m) /\ db_messages'[k] = Append(db_messages[k], m)
            /\ db_chats'[k] = db_chats[k]
        BY <1>0, <2>1, <2>2, <2>4, <2>7, <3>2 DEF store_message
      <4>3. k \notin unsaved' => db_chats'[k] # None /\ db_chats'[k] \in Row
        BY <1>0, <2>1, <2>3, <2>7, <4>1, <4>2 DEF DiskInv, DiskConvo, Tables, Optional
      <4>4. ASSUME k \notin unsaved' \cup replaced'
            PROVE  Agrees(chats'[k], db_chats'[k], db_messages'[k])
        <5>1. Agrees(chats[k], db_chats[k], db_messages[k])
          BY <2>1, <2>4, <4>1, <4>4 DEF DiskInv, DiskConvo
        <5> QED
          BY <2>1, <4>1, <4>2, <4>3, <4>4, <5>1, AgreesUpdated
      <4> QED
        BY <4>3, <4>4 DEF DiskConvo
    <3> QED
      BY <3>1, <3>2
  <2> QED
    BY <2>6, <2>7 DEF DiskInv
<1>3. CASE set_conversation_nickname(p, c, n)
  <2> DEFINE row == [chats[c].row EXCEPT !.nickname = n]
             chat == [chats[c] EXCEPT !.row = row]
  <2>1. chats[c] \in ChatSession
    BY <1>0, <1>3, ListTypes DEF set_conversation_nickname
  <2>2. chat \in ChatSession /\ row \in Row /\ chat.row = row /\ row # None /\ chat # None
    <3>1. chats[c].row \in Row
      BY <2>1, SessionTypes
    <3>2. row \in Row
      BY <3>1 DEF Row
    <3>3. chat \in ChatSession /\ chat.row = row
      BY <2>1, <3>2 DEF ChatSession
    <3> QED
      BY <3>2, <3>3, NoneAssumption
  <2>3. PICK saved \in Outcomes(chat_db) :
            db_chats' = save_chat(db_chats, c, row, saved) /\ Wrote(c, chat_db, saved)
    BY <1>3, <2>1, <2>2 DEF set_conversation_nickname
  <2>4. chats' = [chats EXCEPT ![c] = chat] /\ UNCHANGED <<chat_db, db_messages, replaced>>
    BY <1>3 DEF set_conversation_nickname
  <2>5. /\ unsaved \subseteq unsaved'
        /\ \/ saved /\ chat_db /\ UNCHANGED unsaved
           \/ ~saved /\ chat_db /\ c \in unsaved'
           \/ ~saved /\ ~chat_db /\ UNCHANGED unsaved
    BY <1>0, <2>3, WroteCases
  <2>6. \A row1 \in Row : Agrees(chats[c], row1, db_messages[c])
                => Agrees(chat, row, db_messages[c])
    BY <1>0, <2>1, <2>2, AgreesUpdated
  <2>7. Agrees(chats[c], db_chats[c], db_messages[c]) => db_chats[c] \in Row
    BY <2>1, SessionTypes, NoneAssumption DEF Agrees
  <2> HIDE DEF row, chat
  <2>8. ASSUME NEW j \in Convos, j # c PROVE DiskConvo(j)'
    <3>1. chats'[j] = chats[j] /\ db_chats'[j] = db_chats[j]
      BY <1>0, <2>3, <2>4, <2>8 DEF save_chat
    <3> QED
      BY <2>4, <2>5, <3>1, DiskElsewhere DEF DiskInv
  <2>9. DiskConvo(c)'
    <3>1. CASE ~saved /\ chat_db /\ c \in unsaved'
      BY <3>1, DiskUnsaved
    <3>2. CASE ~saved /\ ~chat_db
      BY <2>3, <2>4, <2>5, <3>2, DiskElsewhere DEF DiskInv, save_chat
    <3>3. CASE saved /\ chat_db /\ UNCHANGED unsaved
      <4>1. db_chats'[c] = row /\ chats'[c] = chat
        BY <1>0, <2>3, <2>4, <3>3 DEF save_chat
      <4>2. ASSUME c \notin unsaved' \cup replaced'
            PROVE  Agrees(chats'[c], db_chats'[c], db_messages'[c])
        <5>1. Agrees(chats[c], db_chats[c], db_messages[c])
          BY <2>4, <3>3, <4>2 DEF DiskInv, DiskConvo
        <5> QED
          BY <2>4, <2>6, <2>7, <4>1, <5>1
      <4> QED
        BY <2>2, <4>1, <4>2 DEF DiskConvo
    <3> QED
      BY <2>5, <3>1, <3>2, <3>3
  <2> QED
    BY <2>8, <2>9 DEF DiskInv
<1>4. CASE delete_conversation(p, c)
  <2>1. /\ chats'[c] = None /\ db_chats'[c] = None /\ db_messages'[c] = << >>
        /\ UNCHANGED <<chat_db, unsaved, replaced>>
    BY <1>0, <1>4 DEF delete_conversation
  <2>2. DiskConvo(c)'
    BY <2>1 DEF DiskConvo, Agrees
  <2>3. ASSUME NEW j \in Convos, j # c PROVE DiskConvo(j)'
    <3>1. chats'[j] = chats[j] /\ db_chats'[j] = db_chats[j] /\ db_messages'[j] = db_messages[j]
      BY <1>0, <1>4, <2>3 DEF delete_conversation
    <3> QED
      BY <2>1, <3>1, DiskElsewhere DEF DiskInv
  <2> QED
    BY <2>2, <2>3 DEF DiskInv
<1> QED
  BY <1>1, <1>2, <1>3, <1>4

\* The session a message is recorded in agrees with the row written for it.
LEMMA AgreesWithPeer ==
    ASSUME NEW chat \in ChatSession, NEW row \in Row, NEW q \in Seq(Msgs), Agrees(chat, row, q)
    PROVE  Agrees(with_peer(chat), with_peer(chat).row, q)
<1>1. chat.row \in Row /\ row = chat.row
  BY SessionTypes, NoneAssumption DEF Agrees
<1>2. CASE ~learns_peer(chat.row)
  BY <1>1, <1>2 DEF with_peer
<1>3. CASE learns_peer(chat.row)
  <2> DEFINE r == [chat.row EXCEPT !.peer = TRUE]
  <2>1. r \in Row
    BY <1>1 DEF Row
  <2>2. with_peer(chat) = [chat EXCEPT !.row = r] /\ with_peer(chat).row = r
    BY <1>3 DEF with_peer, ChatSession
  <2> HIDE DEF r
  <2> QED
    BY <2>1, <2>2, AgreesUpdated
<1> QED
  BY <1>2, <1>3

LEMMA ConsumerDisk ==
    ASSUME Parts, DiskInv, NEW s \in Sessions,
           record_conversation_started(s) \/ record_message_received(s)
    PROVE  DiskInv'
<1> USE DEF display, disk, names, client, queues, locals, told, writes, history
<1>0. /\ chats \in Lists /\ db_chats \in Tables /\ db_messages \in [Convos -> Seq(Msgs)]
      /\ chat_db \in BOOLEAN
      /\ DOMAIN chats = Convos /\ DOMAIN db_chats = Convos /\ DOMAIN db_messages = Convos
  BY DEF Parts, Lists, Tables
<1>1. CASE record_conversation_started(s)
  <2>0. events[s] # << >>
    BY <1>1 DEF record_conversation_started, Handling
  <2>1. PICK c \in Convos, row \in Row :
            c = Head(events[s]).convo /\ row = started_row(s, Head(events[s]).convo)
    BY <2>0, HeadTypes, RowTypes DEF Parts
  <2> DEFINE tries == ~Ignored(c) /\ ~(chats[c] # None) /\ chat_db
  <2>2. PICK saved \in Outcomes(tries) :
            db_chats' = save_chat(db_chats, c, row, saved) /\ Wrote(c, tries, saved)
    BY <1>1, <2>1 DEF record_conversation_started
  <2>3. tries \in BOOLEAN /\ (tries <=> c \notin deleted /\ chats[c] = None /\ chat_db)
    BY Zenon DEF Parts, Ignored
  <2>4. /\ chats' = IF c \in deleted THEN chats
                    ELSE [chats EXCEPT ![c] = IF chats[c] # None THEN Revived(@) ELSE Fresh(row)]
        /\ UNCHANGED <<chat_db, db_messages, replaced>>
    BY <1>1, <2>1 DEF record_conversation_started, Ignored
  <2> HIDE DEF tries
  <2>5. /\ unsaved \subseteq unsaved'
        /\ \/ saved /\ tries /\ UNCHANGED unsaved
           \/ ~saved /\ tries /\ c \in unsaved'
           \/ ~saved /\ ~tries /\ UNCHANGED unsaved
    BY <2>2, <2>3, WroteCases
  <2>6. ASSUME NEW j \in Convos, j # c \/ c \in deleted PROVE DiskConvo(j)'
    <3>1. chats'[j] = chats[j] /\ db_chats'[j] = db_chats[j]
      BY <1>0, <2>2, <2>3, <2>4, <2>5, <2>6 DEF save_chat
    <3> QED
      BY <2>4, <2>5, <3>1, DiskElsewhere DEF DiskInv
  <2>7. ASSUME c \notin deleted PROVE DiskConvo(c)'
    <3>1. CASE ~chat_db
      <4>1. db_chats'[c] = db_chats[c]
        BY <2>2, <2>3, <2>5, <3>1 DEF save_chat
      <4> QED
        BY <2>4, <2>5, <3>1, <4>1, DiskElsewhere DEF DiskInv
    <3>2. CASE chat_db /\ chats[c] # None
      <4>1. chats[c] \in ChatSession /\ db_messages[c] \in Seq(Msgs)
        BY <1>0, <3>2, ListTypes
      <4>2. /\ chats'[c] = Revived(chats[c]) /\ db_chats'[c] = db_chats[c]
            /\ db_messages'[c] = db_messages[c] /\ UNCHANGED unsaved
        BY <1>0, <2>2, <2>3, <2>4, <2>5, <2>7, <3>2 DEF save_chat
      <4>3. c \notin unsaved => db_chats[c] # None /\ db_chats[c] \in Row
        BY <1>0, <3>2 DEF DiskInv, DiskConvo, Tables, Optional
      <4>4. ASSUME c \notin unsaved \cup replaced
            PROVE  Agrees(chats'[c], db_chats[c], db_messages[c])
        <5>1. Agrees(chats[c], db_chats[c], db_messages[c])
          BY <3>2, <4>4 DEF DiskInv, DiskConvo
        <5> QED
          BY <4>1, <4>2, <4>3, <4>4, <5>1, AgreesUpdated
      <4> QED
        BY <2>4, <4>2, <4>3, <4>4 DEF DiskConvo
    <3>3. CASE chat_db /\ chats[c] = None /\ ~saved
      BY <2>3, <2>5, <2>7, <3>3, DiskUnsaved
    <3>4. CASE chat_db /\ chats[c] = None /\ saved
      <4>1. db_chats'[c] = row /\ chats'[c] = Fresh(row) /\ UNCHANGED unsaved
        BY <1>0, <2>2, <2>4, <2>5, <2>7, <3>4 DEF save_chat
      <4>2. ASSUME c \notin unsaved \cup replaced
            PROVE  Agrees(chats'[c], row, db_messages[c])
        <5>1. db_chats[c] = None
          BY <3>4, <4>2 DEF DiskInv, DiskConvo, Agrees
        <5>2. db_messages[c] = << >>
          BY <4>2, <5>1 DEF DiskInv, DiskConvo
        <5> QED
          BY <4>1, <5>2, AgreesFresh
      <4>3. row # None
        BY NoneAssumption
      <4> QED
        BY <2>4, <4>1, <4>2, <4>3 DEF DiskConvo
    <3> QED
      BY <3>1, <3>2, <3>3, <3>4
  <2> QED
    BY <2>6, <2>7 DEF DiskInv
<1>2. CASE record_message_received(s)
  <2>0. events[s] # << >> /\ Head(events[s]).type = "MessageReceived"
    BY <1>2 DEF record_message_received, Handling
  <2>1. PICK c \in Convos, m \in Msgs : c = Head(events[s]).convo /\ m = Head(events[s]).msg
    BY <2>0, HeadTypes DEF Parts
  <2>a. session_for(c) \in ChatSession
    BY <1>0, ListTypes, SessionTypes, RowTypes DEF session_for
  <2>b. PICK chat \in ChatSession : chat = with_peer(session_for(c))
    BY <2>a, SessionTypes
  <2>c. chat.row \in Row /\ chat.row # None
    BY SessionTypes, NoneAssumption
  <2> DEFINE tries == ~Ignored(c) /\ chat_db
  <2>2. PICK saved \in Outcomes(tries) :
            /\ db_chats' = save_chat(db_chats, c, chat.row, saved /\ ChatChanged(c))
            /\ db_messages' = store_message(db_messages, c, m, saved)
            /\ Wrote(c, tries, saved)
    BY <1>2, <2>1, <2>b DEF record_message_received
  <2>3. tries \in BOOLEAN /\ (tries <=> c \notin deleted /\ chat_db)
    BY Zenon DEF Parts, Ignored
  <2>4. /\ chats' = IF c \in deleted THEN chats
                    ELSE [chats EXCEPT ![c] = IF chat_db THEN Push(chat, m) ELSE chat]
        /\ UNCHANGED <<chat_db, replaced>>
    BY <1>2, <2>1, <2>b DEF record_message_received, Ignored
  <2> HIDE DEF tries
  <2>5. /\ unsaved \subseteq unsaved'
        /\ \/ saved /\ tries /\ UNCHANGED unsaved
           \/ ~saved /\ tries /\ c \in unsaved'
           \/ ~saved /\ ~tries /\ UNCHANGED unsaved
    BY <2>2, <2>3, WroteCases
  <2>6. ASSUME NEW j \in Convos, j # c \/ c \in deleted PROVE DiskConvo(j)'
    <3>1. chats'[j] = chats[j] /\ db_chats'[j] = db_chats[j] /\ db_messages'[j] = db_messages[j]
      BY <1>0, <2>2, <2>3, <2>4, <2>5, <2>6 DEF save_chat, store_message
    <3> QED
      BY <2>4, <2>5, <3>1, DiskElsewhere DEF DiskInv
  <2>7. ASSUME c \notin deleted PROVE DiskConvo(c)'
    <3>1. CASE ~chat_db
      <4>1. db_chats'[c] = db_chats[c] /\ db_messages'[c] = db_messages[c]
        BY <2>2, <2>3, <2>5, <3>1 DEF save_chat, store_message
      <4> QED
        BY <2>4, <2>5, <3>1, <4>1, DiskElsewhere DEF DiskInv
    <3>2. CASE chat_db /\ ~saved
      BY <2>3, <2>5, <2>7, <3>2, DiskUnsaved
    <3>3. CASE chat_db /\ saved
      <4>1. /\ chats'[c] = Push(chat, m) /\ db_messages'[c] = Append(db_messages[c], m)
            /\ db_chats'[c] = IF ChatChanged(c) THEN chat.row ELSE db_chats[c]
            /\ UNCHANGED unsaved /\ db_messages[c] \in Seq(Msgs)
        BY <1>0, <2>2, <2>4, <2>5, <2>7, <3>3 DEF save_chat, store_message
      <4>2. c \notin unsaved => db_chats'[c] # None
        <5>1. CASE ChatChanged(c)
          BY <2>c, <4>1, <5>1
        <5>2. CASE ~ChatChanged(c)
          BY <3>3, <4>1, <5>2 DEF ChatChanged, DiskInv, DiskConvo
        <5> QED
          BY <5>1, <5>2
      <4>3. ASSUME c \notin unsaved \cup replaced
            PROVE  Agrees(chats'[c], db_chats'[c], db_messages'[c])
        <5>1. Agrees(chats[c], db_chats[c], db_messages[c])
          BY <3>3, <4>3 DEF DiskInv, DiskConvo
        <5>2. Agrees(chat, chat.row, db_messages[c])
          <6>1. CASE chats[c] = None
            <7>1. db_messages[c] = << >>
              BY <4>3, <5>1, <6>1 DEF Agrees, DiskInv, DiskConvo
            <7>2. session_for(c) = Fresh(fallback_row) /\ fallback_row \in Row
              BY <6>1, RowTypes DEF session_for
            <7>3. Agrees(session_for(c), fallback_row, db_messages[c])
              BY <7>1, <7>2, AgreesFresh
            <7> QED
              BY <2>a, <2>b, <4>1, <7>2, <7>3, AgreesWithPeer
          <6>2. CASE chats[c] # None
            <7>1. session_for(c) = chats[c] /\ db_chats[c] = chats[c].row
              BY <5>1, <6>2 DEF session_for, Agrees
            <7>2. db_chats[c] \in Row
              BY <2>a, <7>1, SessionTypes
            <7> QED
              BY <2>a, <2>b, <4>1, <5>1, <7>1, <7>2, AgreesWithPeer
          <6> QED
            BY <6>1, <6>2
        <5>3. db_chats'[c] = chat.row
          <6>1. CASE ChatChanged(c)
            BY <4>1, <6>1
          <6>2. CASE ~ChatChanged(c)
            <7>1. chats[c] # None /\ chat = chats[c]
              BY <2>b, <6>2 DEF ChatChanged, session_for, with_peer
            <7> QED
              BY <4>1, <5>1, <6>2, <7>1 DEF Agrees
          <6> QED
            BY <6>1, <6>2
        <5> QED
          BY <2>c, <4>1, <5>2, <5>3, AgreesUpdated
      <4> QED
        BY <2>4, <4>1, <4>2, <4>3 DEF DiskConvo
    <3> QED
      BY <3>1, <3>2, <3>3
  <2> QED
    BY <2>6, <2>7 DEF DiskInv
<1> QED
  BY <1>1, <1>2

LEMMA NextDisk == Parts /\ LifeInv /\ DiskInv /\ [Next]_vars => DiskInv'
<1> SUFFICES ASSUME Parts, LifeInv, DiskInv, [Next]_vars PROVE DiskInv'
  OBVIOUS
<1>1. CASE UNCHANGED listing
  BY <1>1 DEF listing, DiskInv, DiskConvo
<1>2. ASSUME NEW p \in Callers, init_seed(p) \/ shutdown_reset(p) PROVE DiskInv'
  BY <1>2, LifecycleDisk
<1>3. ASSUME NEW p \in Callers, create_record(p) \/ send_message_record(p) PROVE DiskInv'
  <2>1. call[p].convo \in Convos
    BY <1>3 DEF Parts, CallsOK, create_record, send_message_record
  <2> QED
    BY <1>3, <2>1, CallerDisk
<1>4. ASSUME NEW p \in Callers, NEW c \in Convos,
             \/ delete_conversation(p, c)
             \/ \E n \in Nicknames \cup {None} : set_conversation_nickname(p, c, n)
      PROVE  DiskInv'
  BY <1>4, CallerDisk
<1>5. ASSUME NEW s \in Sessions, record_conversation_started(s) \/ record_message_received(s)
      PROVE  DiskInv'
  BY <1>5, ConsumerDisk
<1>6. CASE crash
  BY <1>6, DiskElsewhere DEF crash, disk, history, DiskInv
<1> QED
  BY <1>1, <1>2, <1>3, <1>4, <1>5, <1>6, ListSteps

LEMMA InitDisk == Init => DiskInv
  BY DEF Init, DiskInv, DiskConvo

\* If one thread calls init and shutdown, the open list and chat.db tell the same
\* story of every chat but those a failed write or an overlapping create left
\* behind: the same row and the same messages, of which the list shows the
\* newest, whatever several callers and the event consumers interleave
\* (persist_chat, record_message, record_message_received, load_state).
THEOREM ListMatchesDatabase == ASSUME OneController PROVE Spec => []DiskMatchesMemory
<1>1. Parts /\ LifeInv /\ DiskInv /\ [Next]_vars => DiskInv'
  BY NextDisk
<1> QED
  BY LifeInvariant, InitDisk, <1>1, DiskInvMatches, PTL DEF Spec

-----------------------------------------------------------------------------
(***************************************************************************)
(* The render log is append-only, for any callers and controllers          *)
(***************************************************************************)
\* An init that is about to seed the display is the only one and finds no state
\* installed: it holds the module lock since it looked.
SeedInv == \A p \in Callers : call[p].pc = "init_seed" =>
    /\ installed = 0 /\ session # 0
    /\ \A q \in Callers : call[q].pc = "init_seed" => q = p

LEMMA SeedElsewhere ==
    ASSUME SeedInv, installed' = installed \/ installed' = 0, session' = session,
           \A p \in Callers : call'[p].pc = "init_seed" => call[p].pc = "init_seed"
    PROVE  SeedInv'
  BY DEF SeedInv

LEMMA CallerSeed ==
    ASSUME Parts, SeedInv, NEW p \in Callers, Continue(p) \/ Call(p)
    PROVE  SeedInv'
<1> USE DEF display, disk, names, client, queues, locals, told, writes, history
<1>0. CallsOK /\ call \in [Callers -> Locals]
  BY DEF Parts, CallsOK
<1>1. CASE init_load(p)
  <2>1. \A q \in Callers \ {p} : call'[q].pc # "init_seed"
    BY <1>0, <1>1 DEF init_load, Goto, ModuleLockFree
  <2>2. installed' = 0 /\ session' # 0
    BY <1>1 DEF init_load, Parts, ClientOK, Sessions
  <2> QED
    BY <2>1, <2>2 DEF SeedInv
<1>2. CASE init_seed(p)
  <2>1. \A q \in Callers : call'[q].pc # "init_seed"
    BY <1>0, <1>2 DEF init_seed, Return, Idle, SeedInv
  <2> QED
    BY <2>1 DEF SeedInv
<1>3. CASE init_fail(p) \/ shutdown_reset(p)
  BY <1>0, <1>3, Elsewhere, SeedElsewhere DEF init_fail, shutdown_reset
<1>4. CASE shutdown_take(p)
  <2>1. \A q \in Callers : call'[q].pc = "init_seed" => call[q].pc = "init_seed"
    BY <1>0, <1>4 DEF shutdown_take, Idle
  <2> QED
    BY <1>4, <2>1, SeedElsewhere DEF shutdown_take
<1>5. CASE shutdown_drop(p)
  BY <1>0, <1>5, Elsewhere, SeedElsewhere DEF shutdown_drop, PC
<1>6. CASE create_record(p) \/ add_group_member_client(p) \/ send_message_record(p)
  BY <1>0, <1>6, Elsewhere, SeedElsewhere
  DEF create_record, add_group_member_client, send_message_record
<1>7. CASE send_message_client(p)
  <2>1. \A q \in Callers : call'[q].pc = "init_seed" => call[q].pc = "init_seed"
    <3>1. CASE Return(p)
      BY <1>0, <3>1, Elsewhere
    <3>2. CASE call' = [call EXCEPT ![p] = [@ EXCEPT !.pc = "send_record", !.msg = nextMsg]]
      BY <1>0, <3>2 DEF Locals
    <3> QED
      BY <1>7, <3>1, <3>2 DEF send_message_client
  <2> QED
    BY <1>7, <2>1, SeedElsewhere DEF send_message_client
<1>8. ASSUME NEW c \in Convos,
             \/ create_conversation(p, c) \/ create_group_conversation(p, c)
             \/ add_group_member_check(p, c) \/ send_message_check(p, c)
      PROVE  SeedInv'
  <2>1. \E label \in PC \ {"init_seed"} : Enter(p, label, c)
    BY <1>8 DEF create_conversation, create_group_conversation, create_client,
       add_group_member_check, send_message_check, PC
  <2> QED
    BY <1>0, <1>8, <2>1, Elsewhere, SeedElsewhere
    DEF create_conversation, create_group_conversation, create_client,
        add_group_member_check, send_message_check
<1>9. ASSUME NEW c \in Convos, NEW n \in Nicknames \cup {None},
             set_conversation_nickname(p, c, n)
      PROVE  SeedInv'
  BY <1>9, SeedElsewhere DEF set_conversation_nickname
<1>10. ASSUME NEW n \in Names \cup {None}, set_installation_name(p, n) PROVE SeedInv'
  BY <1>10, SeedElsewhere DEF set_installation_name
<1>11. ASSUME NEW c \in Convos, delete_conversation(p, c) PROVE SeedInv'
  BY <1>11, SeedElsewhere DEF delete_conversation
<1> QED
  BY <1>1, <1>2, <1>3, <1>4, <1>5, <1>6, <1>7, <1>8, <1>9, <1>10, <1>11
  DEF Continue, Call

LEMMA NextSeed == Parts /\ SeedInv /\ [Next]_vars => SeedInv'
<1> SUFFICES ASSUME Parts, SeedInv, [Next]_vars PROVE SeedInv'
  OBVIOUS
<1> USE DEF display, disk, names, client, queues, locals, told, writes, history
<1>1. CASE crash
  BY <1>1 DEF crash, SeedInv, Idle
<1>2. ASSUME NEW s \in Sessions, Consume(s) \/ Peer(s) PROVE SeedInv'
  <2>1. UNCHANGED <<installed, session, call>>
    BY <1>2 DEF Consume, Peer, fetch_metadata, record_conversation_started,
       record_message_received, record_members_changed, peer_invites, peer_sends,
       peer_changes_members
  <2> QED
    BY <2>1, SeedElsewhere
<1>3. CASE UNCHANGED vars
  BY <1>3, SeedElsewhere DEF vars
<1> QED
  BY <1>1, <1>2, <1>3, CallerSeed DEF Next

\* What a step may do to the messages of a listed chat.
Grows(a, b) == Len(a) <= Len(b) /\ \A i \in DOMAIN a : b[i] = a[i]

LEMMA GrowsTypes ==
    ASSUME NEW q \in Seq(Msgs)
    PROVE  Grows(q, q) /\ \A m \in Msgs : Grows(q, Append(q, m))
<1>1. Len(q) \in Nat /\ DOMAIN q = 1..Len(q)
  BY LenProperties
<1>2. ASSUME NEW m \in Msgs PROVE Grows(q, Append(q, m))
  BY <1>1, AppendProperties DEF Grows
<1> QED
  BY <1>1, <1>2 DEF Grows

LEMMA MessagesOf ==
    ASSUME NEW chat \in ChatSession
    PROVE  /\ chat.messages \in Seq(Msgs)
           /\ Revived(chat).messages = chat.messages
           /\ with_peer(chat).messages = chat.messages
           /\ with_peer(chat) \in ChatSession
           /\ \A m : Push(chat, m).messages = Append(chat.messages, m)
<1>1. /\ chat.messages \in Seq(Msgs) /\ Revived(chat).messages = chat.messages
      /\ \A m : Push(chat, m).messages = Append(chat.messages, m)
  BY DEF ChatSession, Revived, Push
<1> QED
  BY <1>1, SessionTypes DEF with_peer

LEMMA StepGrows ==
    ASSUME Parts, SeedInv, [Next]_vars, NEW c \in Convos, c \notin replaced',
           chat_db, chat_db', installed' = installed, chats[c] # None, chats'[c] # None
    PROVE  Grows(chats[c].messages, chats'[c].messages)
<1> USE DEF display, disk, names, client, queues, locals, told, writes, history
<1>0. chats[c] \in ChatSession /\ chats \in Lists /\ DOMAIN chats = Convos
  BY ListTypes DEF Parts, Lists
<1>a. /\ Grows(chats[c].messages, chats[c].messages)
      /\ \A m \in Msgs : Grows(chats[c].messages, Append(chats[c].messages, m))
  BY <1>0, MessagesOf, GrowsTypes
<1>1. CASE UNCHANGED listing
  BY <1>1, <1>a DEF listing
<1>2. CASE crash
  BY <1>2 DEF crash
<1>3. ASSUME NEW p \in Callers, init_seed(p) \/ shutdown_reset(p) PROVE FALSE
  BY <1>3 DEF init_seed, shutdown_reset, SeedInv
<1>4. ASSUME NEW p \in Callers, create_record(p)
      PROVE  Grows(chats[c].messages, chats'[c].messages)
  <2>1. c # call[p].convo
    BY <1>4 DEF create_record
  <2>2. chats'[c] = chats[c]
    BY <1>0, <1>4, <2>1 DEF create_record
  <2> QED
    BY <1>a, <2>2
<1>5. ASSUME NEW p \in Callers, send_message_record(p)
      PROVE  Grows(chats[c].messages, chats'[c].messages)
  <2>1. call[p].msg \in Msgs
    BY <1>5 DEF send_message_record, Parts, CallsOK
  <2>2. chats'[c] = chats[c] \/ chats'[c] = Push(chats[c], call[p].msg)
    BY <1>0, <1>5 DEF send_message_record
  <2>3. Push(chats[c], call[p].msg).messages = Append(chats[c].messages, call[p].msg)
    BY <1>0, MessagesOf
  <2>4. Grows(chats[c].messages, Append(chats[c].messages, call[p].msg))
    BY <1>a, <2>1
  <2> QED
    BY <1>a, <2>2, <2>3, <2>4, Zenon
<1>6. ASSUME NEW p \in Callers, NEW k \in Convos, delete_conversation(p, k)
      PROVE  Grows(chats[c].messages, chats'[c].messages)
  BY <1>0, <1>6, <1>a DEF delete_conversation
<1>7. ASSUME NEW p \in Callers, NEW k \in Convos, NEW n \in Nicknames \cup {None},
             set_conversation_nickname(p, k, n)
      PROVE  Grows(chats[c].messages, chats'[c].messages)
  <2>1. \/ chats'[c] = chats[c]
        \/ chats'[c] = [chats[c] EXCEPT !.row = [chats[c].row EXCEPT !.nickname = n]]
    BY <1>0, <1>7 DEF set_conversation_nickname
  <2>2. [chats[c] EXCEPT !.row = [chats[c].row EXCEPT !.nickname = n]].messages
          = chats[c].messages
    BY <1>0 DEF ChatSession
  <2> QED
    BY <1>a, <2>1, <2>2, Zenon
<1>8. ASSUME NEW s \in Sessions, record_conversation_started(s)
      PROVE  Grows(chats[c].messages, chats'[c].messages)
  <2>1. chats'[c] = chats[c] \/ chats'[c] = Revived(chats[c])
    BY <1>0, <1>8 DEF record_conversation_started
  <2> QED
    BY <1>0, <1>a, <2>1, MessagesOf
<1>9. ASSUME NEW s \in Sessions, record_message_received(s)
      PROVE  Grows(chats[c].messages, chats'[c].messages)
  <2>1. Head(events[s]).msg \in Msgs
    BY <1>9, HeadTypes DEF record_message_received, Handling, Parts
  <2>2. chats'[c] = chats[c] \/ chats'[c] = Push(with_peer(chats[c]), Head(events[s]).msg)
    BY <1>0, <1>9 DEF record_message_received, session_for
  <2>3. with_peer(chats[c]) \in ChatSession /\ with_peer(chats[c]).messages = chats[c].messages
    BY <1>0, MessagesOf
  <2>4. Push(with_peer(chats[c]), Head(events[s]).msg).messages
          = Append(chats[c].messages, Head(events[s]).msg)
    BY <2>3, MessagesOf
  <2>5. Grows(chats[c].messages, Append(chats[c].messages, Head(events[s]).msg))
    BY <1>a, <2>1
  <2> QED
    BY <1>a, <2>2, <2>4, <2>5, Zenon
<1> QED
  BY <1>1, <1>2, <1>3, <1>4, <1>5, <1>6, <1>7, <1>8, <1>9, ListSteps

\* The messages of a listed chat only grow at the end while the list stays open
\* and the session installed, for any number of callers and of controllers,
\* except under a create that is put over an earlier session (record_message,
\* record_message_received, record_conversation_started of a known chat).
THEOREM RenderLogGrows == Spec => AppendOnly
<1>1. Init => SeedInv
  BY DEF Init, SeedInv, Idle
<1>2. Init => Parts
  BY InitParts
<1>3. Parts /\ SeedInv /\ [Next]_vars =>
        [\A c \in Convos \ replaced' :
            (chat_db /\ chat_db' /\ installed' = installed
                /\ chats[c] # None /\ chats'[c] # None)
            => /\ Len(chats[c].messages) <= Len(chats'[c].messages)
               /\ \A i \in DOMAIN chats[c].messages :
                    chats'[c].messages[i] = chats[c].messages[i]]_vars
  BY StepGrows DEF Grows
<1> QED
  BY <1>1, <1>2, <1>3, NextParts, NextSeed, PTL DEF Spec, AppendOnly
===============================================================================
