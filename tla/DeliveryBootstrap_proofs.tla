----------------------- MODULE DeliveryBootstrap_proofs -----------------------
(***************************************************************************)
(* Proofs about DeliveryBootstrap for any presets, topics, statuses and    *)
(* bounds, and, but for AdoptionIsHonest, whether or not answers are lost. *)
(***************************************************************************)
EXTENDS DeliveryBootstrap, TLAPS

\* OnlineMeansRunning is not inductive: a success waiting in the bridge's
\* channel and the `started' that lets connectivity drive the state have to
\* mean a running node as well.
RunningInv ==
    /\ \A i \in DOMAIN startedQ : startedQ[i] => node = "running"
    /\ ds.started => node = "running"
    /\ OnlineMeansRunning
    /\ TopicsNotLost

-----------------------------------------------------------------------------
(***************************************************************************)
(* Type correctness                                                        *)
(***************************************************************************)
\* What the channels of the bridge need of sequences.
LEMMA ChannelTypes ==
    ASSUME NEW S, NEW q \in Seq(S)
    PROVE  << >> \in Seq(S) /\ \A e \in S : Append(q, e) \in Seq(S)
  OBVIOUS

LEMMA StateTypes == stopped \in DeliveryState /\ initialising \in DeliveryState
  BY DEF DeliveryState, stopped, initialising

\* Every update of the delivery state gives a delivery state.
LEMMA UpdateTypes ==
    ASSUME NEW d \in DeliveryState
    PROVE  /\ \A state \in {"initialising", "online", "error", "stopped"} :
                set_delivery_state(d, state) \in DeliveryState
           /\ waits_for_start(d) \in DeliveryState
           /\ \A a \in BOOLEAN : [d EXCEPT !.adopted = a] \in DeliveryState
           /\ [d EXCEPT !.starting = FALSE] \in DeliveryState
  BY DEF DeliveryState, set_delivery_state, waits_for_start

\* The event of a change of the delivery state is one.
LEMMA ToldTypes ==
    ASSUME TypeOK, NEW d \in DeliveryState, Tells(d)
    PROVE  told' \in DeliveryEvent
  BY DEF TypeOK, Tells, emit_delivery_state_changed, DeliveryState, DeliveryEvent

LEMMA InitTypeOK == Init => TypeOK
<1> SUFFICES ASSUME Init PROVE TypeOK
  OBVIOUS
<1>1. boot \in [Boots -> Bootstrap] /\ \A b \in Boots : boot[b].step = "none"
  BY BoundsAssumption DEF Init, Bootstrap, Sessions
<1>2. startedQ \in Seq(BOOLEAN) /\ connQ \in Seq(Statuses)
  BY DEF Init
<1>3. /\ session \in Sessions /\ boots \in 0..MaxBoots
      /\ pending \in Nat /\ foreignStarts \in 0..MaxStarts
  BY BoundsAssumption DEF Init, Sessions
<1>4. ds \in DeliveryState /\ told \in DeliveryEvent
  BY StateTypes DEF Init, DeliveryEvent
<1> QED
  BY <1>1, <1>2, <1>3, <1>4 DEF Init, TypeOK

LEMMA CallerTypeOK == TypeOK /\ Caller => TypeOK'
<1> SUFFICES ASSUME TypeOK, Caller PROVE TypeOK'
  OBVIOUS
<1> USE DEF TypeOK
<1>1. ASSUME NEW subs \in SUBSET Subscriptions, init_subscribe(subs) PROVE TypeOK'
  BY <1>1, BoundsAssumption, TopicsAssumption DEF init_subscribe, nodeVars, Sessions
<1>2. CASE init_seed
  BY <1>2, StateTypes DEF init_seed, bridgeVars, nodeVars, AnyOutstanding
<1>3. ASSUME NEW p \in Presets, start_delivery_bootstrap(p)
      PROVE  /\ boots' \in 0..MaxBoots /\ preset' \in Presets /\ overlap' \in BOOLEAN
             /\ boot' \in [Boots -> Bootstrap]
             /\ \A b \in Boots : boot'[b].step # "none" => boot'[b].preset \in Presets
  BY <1>3, BoundsAssumption DEF start_delivery_bootstrap, Bootstrap, AnyOutstanding, Boots
<1>4. ASSUME NEW p \in Presets, init_bootstrap(p) PROVE TypeOK'
  BY <1>3, <1>4 DEF init_bootstrap, bridgeVars, nodeVars
<1>5. ASSUME NEW p \in Presets, init_retry(p) PROVE TypeOK'
  BY <1>3, <1>5, UpdateTypes, ToldTypes DEF init_retry, bridgeVars, nodeVars
<1>6. CASE shutdown_stop
  BY <1>6 DEF shutdown_stop, bridgeVars, nodeVars
<1>7. CASE shutdown_reset
  BY <1>7, StateTypes DEF shutdown_reset, bridge_joined, bridgeVars, nodeVars, AnyOutstanding
<1>8. ASSUME NEW t \in Topics, subscribe(t) PROVE TypeOK'
  BY <1>8 DEF subscribe, moduleVars, nodeVars
<1> QED
  BY <1>1, <1>2, <1>4, <1>5, <1>6, <1>7, <1>8 DEF Caller

\* A bootstrap that goes on to its next call, or gets an answer, stays one.
LEMMA BootTypeOK ==
    ASSUME TypeOK, NEW b \in Boots, boot[b].step # "none",
           \/ \E step \in {"createNode", "getNodeInfo", "start_node", "start", "done"} : Waits(b, step)
           \/ \E answer \in {"ok", "err"} : Answer(b, answer)
    PROVE  /\ boot' \in [Boots -> Bootstrap]
           /\ \A c \in Boots : boot'[c].step # "none" => boot'[c].preset \in Presets
<1>1. /\ boot \in [Boots -> Bootstrap] /\ boot[b] \in Bootstrap
      /\ \A c \in Boots : boot[c].step # "none" => boot[c].preset \in Presets
  BY DEF TypeOK
<1>2. PICK next \in Bootstrap : /\ boot' = [boot EXCEPT ![b] = next]
                               /\ next.preset = boot[b].preset
  <2>1. ASSUME NEW step \in {"createNode", "getNodeInfo", "start_node", "start", "done"}, Waits(b, step)
        PROVE  \E next \in Bootstrap : /\ boot' = [boot EXCEPT ![b] = next]
                                       /\ next.preset = boot[b].preset
    <3> DEFINE next == [boot[b] EXCEPT !.step = step, !.answer = "none"]
    <3>1. next \in Bootstrap /\ next.preset = boot[b].preset
      BY <1>1 DEF Bootstrap
    <3> QED
      BY <2>1, <3>1 DEF Waits
  <2>2. ASSUME NEW answer \in {"ok", "err"}, Answer(b, answer)
        PROVE  \E next \in Bootstrap : /\ boot' = [boot EXCEPT ![b] = next]
                                       /\ next.preset = boot[b].preset
    <3> DEFINE next == [boot[b] EXCEPT !.answer = answer]
    <3>1. next \in Bootstrap /\ next.preset = boot[b].preset
      BY <1>1 DEF Bootstrap
    <3> QED
      BY <2>2, <3>1 DEF Answer
  <2> QED
    BY <2>1, <2>2
<1> QED
  BY <1>1, <1>2

LEMMA CallbackTypeOK ==
    ASSUME TypeOK, NEW b \in Boots, Callback(b)
    PROVE  TypeOK'
<1> USE DEF TypeOK, Answered, bridgeVars, nodeVars
<1>1. CASE create_node_ok(b)
  <2>1. boot[b].preset \in Presets /\ Waits(b, "start_node")
    BY <1>1 DEF create_node_ok
  <2> QED
    BY <1>1, <2>1, BootTypeOK DEF create_node_ok
<1>2. CASE create_node_err(b)
  BY <1>2, BootTypeOK DEF create_node_err
<1>3. CASE join_existing_node_ok(b)
  <2>1. adopts(boot[b].preset) \in BOOLEAN
    BY DEF adopts
  <2>2. [ds EXCEPT !.adopted = adopts(boot[b].preset)] \in DeliveryState
    BY <2>1, UpdateTypes
  <2> QED
    BY <1>3, <2>2, BootTypeOK DEF join_existing_node_ok
<1>4. CASE join_existing_node_err(b)
  <2>1. ds' \in DeliveryState /\ told' \in DeliveryEvent
    BY <1>4, UpdateTypes, ToldTypes DEF join_existing_node_err
  <2> QED
    BY <1>4, <2>1, BootTypeOK DEF join_existing_node_err
<1>5. CASE start_node_ok(b)
  BY <1>5, BootTypeOK DEF start_node_ok
<1>6. CASE start_node_err(b)
  <2>1. ds' \in DeliveryState
    BY <1>6, UpdateTypes DEF start_node_err
  <2>2. told' \in DeliveryEvent
    BY <1>6, <2>1, ToldTypes DEF start_node_err
  <2> QED
    BY <1>6, <2>1, <2>2, BootTypeOK DEF start_node_err
<1>7. CASE start_node(b)
  <2>1. ds' \in DeliveryState
    BY <1>7, UpdateTypes DEF start_node
  <2> QED
    BY <1>7, <2>1, BootTypeOK DEF start_node
<1> QED
  BY <1>1, <1>2, <1>3, <1>4, <1>5, <1>6, <1>7 DEF Callback

LEMMA BridgeTypeOK == TypeOK /\ Bridge => TypeOK'
<1> SUFFICES ASSUME TypeOK, Bridge PROVE TypeOK'
  OBVIOUS
<1> USE DEF TypeOK, moduleVars, nodeVars, StepTo
<1>1. CASE bridge_recv
  <2>0. << >> \in Seq(BOOLEAN) /\ << >> \in Seq(Statuses)
    OBVIOUS
  <2>1. startedQ' \in Seq(BOOLEAN) /\ connQ' \in Seq(Statuses)
    <3>1. CASE leaves
      <4>1. startedQ' = << >> /\ connQ' = << >>
        BY <1>1, <3>1 DEF bridge_recv
      <4> QED
        BY <2>0, <4>1
    <3>2. CASE ~leaves
      BY <1>1, <3>2 DEF bridge_recv
    <3> QED
      BY <3>1, <3>2
  <2>2. bridge' \in {"off", "started"} /\ subscribeQ' \subseteq subscribeQ
    BY <1>1 DEF bridge_recv
  <2> QED
    BY <1>1, <2>1, <2>2 DEF bridge_recv
<1>2. CASE bridge_node_started
  <2>1. Head(startedQ) \in BOOLEAN /\ Tail(startedQ) \in Seq(BOOLEAN)
    BY <1>2 DEF bridge_node_started
  <2>2. record_node_started(ds, Head(startedQ)) \in DeliveryState
    BY <2>1 DEF record_node_started, DeliveryState
  <2>3. told' \in DeliveryEvent
    BY <1>2, <2>2, ToldTypes DEF bridge_node_started
  <2> QED
    BY <1>2, <2>1, <2>2, <2>3 DEF bridge_node_started
<1>3. CASE bridge_started_drained
  BY <1>3 DEF bridge_started_drained
<1>4. CASE bridge_connection
  <2>1. Head(connQ) \in Statuses /\ Tail(connQ) \in Seq(Statuses)
    BY <1>4 DEF bridge_connection
  <2>2. handle_connection_state(ds, Head(connQ)) \in DeliveryState
    BY DEF handle_connection_state, set_delivery_state, map_connection_status, DeliveryState
  <2>3. told' \in DeliveryEvent
    BY <1>4, <2>2, ToldTypes DEF bridge_connection
  <2> QED
    BY <1>4, <2>1, <2>2, <2>3 DEF bridge_connection
<1>5. CASE bridge_conn_drained
  BY <1>5 DEF bridge_conn_drained
<1>6. CASE forward_subscriptions
  BY <1>6 DEF forward_subscriptions
<1> QED
  BY <1>1, <1>2, <1>3, <1>4, <1>5, <1>6 DEF Bridge

\* A channel one event longer is still a channel.
LEMMA AppendTypeOK ==
    ASSUME NEW S, NEW q \in Seq(S), NEW e \in S
    PROVE  Append(q, e) \in Seq(S)
  OBVIOUS

\* delivery's report of a start keeps the channel well formed.
LEMMA ReportTypeOK ==
    ASSUME TypeOK, NEW success \in BOOLEAN, ReportsStart(success)
    PROVE  startedQ' \in Seq(BOOLEAN)
<1>1. startedQ \in Seq(BOOLEAN)
  BY DEF TypeOK
<1>2. Append(startedQ, success) \in Seq(BOOLEAN)
  BY <1>1, AppendTypeOK, Zenon
<1> QED
  BY <1>1, <1>2, Zenon DEF ReportsStart

LEMMA StartsTypeOK ==
    ASSUME TypeOK, StartsNode
    PROVE  startedQ' \in Seq(BOOLEAN) /\ pending' \in Nat
<1>1. CASE node = "created"
  BY <1>1 DEF TypeOK, StartsNode
<1>2. CASE node # "created"
  BY <1>2, ReportTypeOK DEF TypeOK, StartsNode
<1> QED
  BY <1>1, <1>2

LEMMA DeliveryTypeOK ==
    ASSUME TypeOK, NEW b \in Boots, Serves(b)
    PROVE  TypeOK'
<1> USE DEF TypeOK, Asked, bridgeVars, nodeVars
<1>1. CarriedOut(b) => \E answer \in {"ok", "err"} : Answer(b, answer)
  BY DEF CarriedOut
<1>2. CASE delivery_creates(b)
  BY <1>1, <1>2, BootTypeOK DEF delivery_creates
<1>3. CASE delivery_starts(b)
  BY <1>1, <1>3, BootTypeOK, StartsTypeOK DEF delivery_starts
<1>4. CASE delivery_refuses(b)
  BY <1>4, BootTypeOK DEF delivery_refuses
<1>5. CASE delivery_informs(b)
  BY <1>1, <1>5, BootTypeOK DEF delivery_informs
<1> QED
  BY <1>2, <1>3, <1>4, <1>5 DEF Serves

LEMMA NodeTypeOK == TypeOK /\ (Starting \/ World) => TypeOK'
<1> SUFFICES ASSUME TypeOK, Starting \/ World PROVE TypeOK'
  OBVIOUS
<1> USE DEF TypeOK, moduleVars, bridgeVars
<1>1. ASSUME NEW success \in BOOLEAN, node_started(success) PROVE TypeOK'
  BY <1>1, ReportTypeOK DEF node_started
<1>2. ASSUME NEW status \in Statuses, connection_changes(status) PROVE TypeOK'
  <2>0. connQ \in Seq(Statuses) /\ Append(connQ, status) \in Seq(Statuses)
    BY ChannelTypes
  <2>1. connQ' \in Seq(Statuses)
    <3>1. connQ' = connQ \/ connQ' = Append(connQ, status)
      BY <1>2 DEF connection_changes
    <3> QED
      BY <2>0, <3>1
  <2>2. link' \in Statuses \cup {"unknown"}
    BY <1>2 DEF connection_changes
  <2> QED
    BY <1>2, <2>1, <2>2 DEF connection_changes
<1>3. CASE other_creates
  BY <1>3 DEF other_creates
<1>4. CASE other_starts
  BY <1>4, StartsTypeOK, BoundsAssumption DEF other_starts
<1>5. ASSUME NEW sub \in Cuttable, disconnects(sub) PROVE TypeOK'
  BY <1>5 DEF disconnects, nodeVars
<1> QED
  BY <1>1, <1>2, <1>3, <1>4, <1>5 DEF Starting, World

LEMMA NextTypeOK == TypeOK /\ [Next]_vars => TypeOK'
<1>1. TypeOK /\ UNCHANGED vars => TypeOK'
  BY DEF TypeOK, vars
<1> QED
  BY <1>1, CallerTypeOK, CallbackTypeOK, BridgeTypeOK, DeliveryTypeOK, NodeTypeOK DEF Next

\* Every reachable state is well formed.
THEOREM TypeCorrect == Spec => []TypeOK
  BY InitTypeOK, NextTypeOK, PTL DEF Spec

-----------------------------------------------------------------------------
(***************************************************************************)
(* "online" means a running node                                           *)
(***************************************************************************)

\* A step that touches neither the channel, the node nor the lost topics, and
\* that neither makes the state online nor `started' true, is harmless.
LEMMA HarmlessStep ==
    ASSUME RunningInv, UNCHANGED <<startedQ, node, lost>>,
           ds'.started => ds.started,
           ds'.state = "online" => ds.state = "online"
    PROVE  RunningInv'
  BY DEF RunningInv, OnlineMeansRunning, TopicsNotLost

LEMMA CallerRunning == TypeOK /\ RunningInv /\ Caller => RunningInv'
<1> SUFFICES ASSUME TypeOK, RunningInv, Caller PROVE RunningInv'
  OBVIOUS
<1>1. ASSUME NEW subs \in SUBSET Subscriptions, init_subscribe(subs) PROVE RunningInv'
  BY <1>1 DEF init_subscribe, nodeVars, RunningInv, OnlineMeansRunning, TopicsNotLost
<1>2. CASE init_seed
  BY <1>2, HarmlessStep DEF init_seed, bridgeVars, nodeVars, initialising, stopped
<1>3. ASSUME NEW p \in Presets, init_bootstrap(p) PROVE RunningInv'
  BY <1>3, HarmlessStep DEF init_bootstrap, bridgeVars, nodeVars
<1>4. ASSUME NEW p \in Presets, init_retry(p) PROVE RunningInv'
  BY <1>4, HarmlessStep DEF init_retry, bridgeVars, nodeVars, set_delivery_state, TypeOK,
     DeliveryState
<1>5. CASE shutdown_stop
  BY <1>5, HarmlessStep DEF shutdown_stop, bridgeVars, nodeVars
<1>6. CASE shutdown_reset
  BY <1>6, HarmlessStep DEF shutdown_reset, bridgeVars, nodeVars, stopped
<1>7. ASSUME NEW t \in Topics, subscribe(t) PROVE RunningInv'
  BY <1>7, HarmlessStep DEF subscribe, moduleVars, nodeVars
<1> QED
  BY <1>1, <1>2, <1>3, <1>4, <1>5, <1>6, <1>7 DEF Caller

LEMMA CallbackRunning ==
    ASSUME TypeOK, RunningInv, NEW b \in Boots, Callback(b)
    PROVE  RunningInv'
<1> USE DEF bridgeVars, nodeVars
<1>0. ds \in DeliveryState
  BY DEF TypeOK
<1>1. CASE create_node_ok(b)
  BY <1>1, HarmlessStep DEF create_node_ok
<1>2. CASE create_node_err(b)
  BY <1>2, HarmlessStep DEF create_node_err
<1>3. CASE join_existing_node_ok(b)
  BY <1>0, <1>3, HarmlessStep DEF join_existing_node_ok, DeliveryState
<1>4. CASE join_existing_node_err(b)
  BY <1>0, <1>4, HarmlessStep DEF join_existing_node_err, set_delivery_state, DeliveryState
<1>5. CASE start_node_ok(b)
  BY <1>5, HarmlessStep DEF start_node_ok
<1>6. CASE start_node_err(b)
  BY <1>0, <1>6, HarmlessStep DEF start_node_err, set_delivery_state, DeliveryState
<1>7. CASE start_node(b)
  BY <1>0, <1>7, HarmlessStep DEF start_node, waits_for_start, DeliveryState
<1> QED
  BY <1>1, <1>2, <1>3, <1>4, <1>5, <1>6, <1>7 DEF Callback

\* The channel after its head is read still promises only what it promised.
LEMMA TailPromise ==
    ASSUME NEW q \in Seq(BOOLEAN), q # << >>, NEW P, \A i \in DOMAIN q : q[i] => P
    PROVE  /\ Head(q) => P
           /\ \A i \in DOMAIN Tail(q) : Tail(q)[i] => P
<1>1. /\ Len(q) \in Nat \ {0} /\ DOMAIN q = 1..Len(q) /\ Head(q) = q[1]
      /\ DOMAIN Tail(q) = 1..(Len(q) - 1)
      /\ \A i \in 1..(Len(q) - 1) : Tail(q)[i] = q[i + 1]
  OBVIOUS
<1>2. \A i \in 1..(Len(q) - 1) : i + 1 \in DOMAIN q
  BY <1>1
<1>3. 1 \in DOMAIN q
  BY <1>1
<1> QED
  BY <1>1, <1>2, <1>3

LEMMA BridgeRunning == TypeOK /\ RunningInv /\ Bridge => RunningInv'
<1> SUFFICES ASSUME TypeOK, RunningInv, Bridge PROVE RunningInv'
  OBVIOUS
<1> USE DEF moduleVars, nodeVars
<1>0. ds \in DeliveryState /\ startedQ \in Seq(BOOLEAN)
  BY DEF TypeOK
<1>1. CASE bridge_recv
  <2>1. startedQ' = startedQ \/ startedQ' = << >>
    BY <1>1 DEF bridge_recv
  <2> QED
    BY <1>1, <2>1 DEF bridge_recv, RunningInv, OnlineMeansRunning, TopicsNotLost
<1>2. CASE bridge_node_started
  <2>1. /\ Head(startedQ) => node = "running"
        /\ \A i \in DOMAIN Tail(startedQ) : Tail(startedQ)[i] => node = "running"
    BY <1>0, <1>2, TailPromise DEF bridge_node_started, RunningInv
  <2>2. /\ ds'.started => ds.started \/ Head(startedQ)
        /\ ds'.state = "online" => ds.state = "online" \/ Head(startedQ)
    BY <1>0, <1>2 DEF bridge_node_started, record_node_started, DeliveryState
  <2> QED
    BY <1>2, <2>1, <2>2 DEF bridge_node_started, RunningInv, OnlineMeansRunning, TopicsNotLost
<1>3. CASE bridge_started_drained
  BY <1>3, HarmlessStep DEF bridge_started_drained
<1>4. CASE bridge_connection
  <2>1. /\ ds'.started = ds.started
        /\ ds'.state = "online" => ds.state = "online" \/ ds.started
    BY <1>0, <1>4 DEF bridge_connection, handle_connection_state, connection_applies,
       set_delivery_state, DeliveryState
  <2> QED
    BY <1>4, <2>1 DEF bridge_connection, RunningInv, OnlineMeansRunning, TopicsNotLost
<1>5. CASE bridge_conn_drained
  BY <1>5, HarmlessStep DEF bridge_conn_drained
<1>6. CASE forward_subscriptions
  <2>1. forwards(ds) => node = "running"
    BY DEF forwards, RunningInv, OnlineMeansRunning
  <2>2. lost' = lost
    BY <1>6, <2>1 DEF forward_subscriptions
  <2> QED
    BY <1>6, <2>2, HarmlessStep DEF forward_subscriptions
<1> QED
  BY <1>1, <1>2, <1>3, <1>4, <1>5, <1>6 DEF Bridge

\* A report of a start promises no more than the node then is.
LEMMA ReportPromise ==
    ASSUME NEW q \in Seq(BOOLEAN), NEW e \in BOOLEAN, NEW P,
           \A i \in DOMAIN q : q[i] => P, e => P
    PROVE  \A i \in DOMAIN Append(q, e) : Append(q, e)[i] => P
<1>1. /\ Len(q) \in Nat /\ DOMAIN q = 1..Len(q)
      /\ DOMAIN Append(q, e) = 1..(Len(q) + 1)
      /\ \A i \in 1..Len(q) : Append(q, e)[i] = q[i]
      /\ Append(q, e)[Len(q) + 1] = e
  OBVIOUS
<1>2. \A i \in 1..(Len(q) + 1) : i \in 1..Len(q) \/ i = Len(q) + 1
  BY <1>1
<1> QED
  BY <1>1, <1>2

\* What a start leaves in the channel: only a node that runs reports at once.
LEMMA StartsRunning ==
    ASSUME TypeOK, RunningInv, StartsNode
    PROVE  \A i \in DOMAIN startedQ' : startedQ'[i] => node = "running"
<1>1. startedQ \in Seq(BOOLEAN) /\ \A i \in DOMAIN startedQ : startedQ[i] => node = "running"
  BY DEF TypeOK, RunningInv
<1>2. CASE startedQ' = startedQ
  BY <1>1, <1>2
<1>3. CASE startedQ' # startedQ
  <2>1. node = "running" /\ startedQ' = Append(startedQ, TRUE)
    BY <1>3 DEF StartsNode, ReportsStart, TypeOK
  <2> QED
    BY <2>1
<1> QED
  BY <1>2, <1>3

LEMMA DeliveryRunning ==
    ASSUME TypeOK, RunningInv, NEW b \in Boots, Serves(b)
    PROVE  RunningInv'
<1> USE DEF bridgeVars, nodeVars
<1>1. CASE delivery_creates(b)
  BY <1>1 DEF delivery_creates, RunningInv, OnlineMeansRunning, TopicsNotLost
<1>2. CASE delivery_starts(b)
  BY <1>2, StartsRunning DEF delivery_starts, RunningInv, OnlineMeansRunning, TopicsNotLost
<1>3. CASE delivery_refuses(b)
  BY <1>3, HarmlessStep DEF delivery_refuses
<1>4. CASE delivery_informs(b)
  BY <1>4, HarmlessStep DEF delivery_informs
<1> QED
  BY <1>1, <1>2, <1>3, <1>4 DEF Serves

LEMMA NodeRunning == TypeOK /\ RunningInv /\ (Starting \/ World) => RunningInv'
<1> SUFFICES ASSUME TypeOK, RunningInv, Starting \/ World PROVE RunningInv'
  OBVIOUS
<1> USE DEF moduleVars, bridgeVars
<1>1. ASSUME NEW success \in BOOLEAN, node_started(success) PROVE RunningInv'
  <2>1. /\ startedQ \in Seq(BOOLEAN)
        /\ \A i \in DOMAIN startedQ : startedQ[i] => node' = "running"
        /\ success => node' = "running"
    BY <1>1 DEF node_started, TypeOK, RunningInv
  <2>2. startedQ' = startedQ \/ startedQ' = Append(startedQ, success)
    BY <1>1 DEF node_started, ReportsStart
  <2>3. \A i \in DOMAIN startedQ' : startedQ'[i] => node' = "running"
    BY <2>1, <2>2, ReportPromise
  <2> QED
    BY <1>1, <2>3 DEF node_started, RunningInv, OnlineMeansRunning, TopicsNotLost
<1>2. ASSUME NEW status \in Statuses, connection_changes(status) PROVE RunningInv'
  BY <1>2, HarmlessStep DEF connection_changes
<1>3. CASE other_creates
  BY <1>3 DEF other_creates, RunningInv, OnlineMeansRunning, TopicsNotLost
<1>4. CASE other_starts
  BY <1>4, StartsRunning DEF other_starts, RunningInv, OnlineMeansRunning, TopicsNotLost
<1>5. ASSUME NEW sub \in Cuttable, disconnects(sub) PROVE RunningInv'
  BY <1>5, HarmlessStep DEF disconnects, nodeVars
<1> QED
  BY <1>1, <1>2, <1>3, <1>4, <1>5 DEF Starting, World

LEMMA NextRunning == TypeOK /\ RunningInv /\ [Next]_vars => RunningInv'
<1>1. RunningInv /\ UNCHANGED vars => RunningInv'
  BY DEF RunningInv, OnlineMeansRunning, TopicsNotLost, vars
<1> QED
  BY <1>1, CallerRunning, CallbackRunning, BridgeRunning, DeliveryRunning, NodeRunning DEF Next

LEMMA InitRunning == Init => RunningInv
  BY DEF Init, RunningInv, OnlineMeansRunning, TopicsNotLost, stopped

LEMMA RunningInvariant == Spec => []RunningInv
  BY InitRunning, NextRunning, TypeCorrect, PTL DEF Spec

\* The module never reports online for a node that does not run, whatever other
\* consumers, retries, re-inits and lost answers do.
THEOREM OnlineImpliesRunning == Spec => []OnlineMeansRunning
<1>1. RunningInv => OnlineMeansRunning
  BY DEF RunningInv
<1> QED
  BY RunningInvariant, <1>1, PTL

\* No topic of the client is ever handed to a node that would refuse it.
THEOREM NoTopicLost == Spec => []TopicsNotLost
<1>1. RunningInv => TopicsNotLost
  BY DEF RunningInv
<1> QED
  BY RunningInvariant, <1>1, PTL
-----------------------------------------------------------------------------
(***************************************************************************)
(* The events, and what is left after shutdown                             *)
(***************************************************************************)
\* From the moment the state is installed, what it has settled on was told:
\* callbacks of an old bootstrap may run before this init begins its own.
Announced ==
    phase \in {"installed", "up"} /\ ds.state # "initialising" => told.state = ds.state

\* NotUpWhenDown rests on the join: no worker is left that could still drain an
\* event.
SessionInv ==
    /\ phase = "down" => bridge = "off"
    /\ NotUpWhenDown
    /\ Announced

\* A step that leaves the state, the event, the phase and the worker alone.
LEMMA QuietStep ==
    ASSUME SessionInv, UNCHANGED <<ds, told, phase, bridge>>
    PROVE  SessionInv'
  BY DEF SessionInv, NotUpWhenDown, Announced

\* A change of state that is told, and that makes nothing look up.
LEMMA ToldStep ==
    ASSUME TypeOK, SessionInv, UNCHANGED <<phase, bridge>>,
           ds' \in DeliveryState, Tells(ds'),
           phase = "down" => ~ds'.started /\ ds'.state \notin {"online", "initialising"}
    PROVE  SessionInv'
<1>1. Announced'
  BY DEF SessionInv, Announced, Tells, emit_delivery_state_changed, TypeOK, DeliveryState
<1> QED
  BY <1>1 DEF SessionInv, NotUpWhenDown

LEMMA CallerSession == TypeOK /\ SessionInv /\ Caller => SessionInv'
<1> SUFFICES ASSUME TypeOK, SessionInv, Caller PROVE SessionInv'
  OBVIOUS
<1> USE DEF bridgeVars, nodeVars
<1>1. ASSUME NEW subs \in SUBSET Subscriptions, init_subscribe(subs) PROVE SessionInv'
  BY <1>1 DEF init_subscribe, SessionInv, NotUpWhenDown, Announced
<1>2. CASE init_seed
  BY <1>2 DEF init_seed, initialising, stopped, SessionInv, NotUpWhenDown,
     Announced
<1>3. ASSUME NEW p \in Presets, init_bootstrap(p) PROVE SessionInv'
  BY <1>3 DEF init_bootstrap, SessionInv, NotUpWhenDown, Announced
<1>4. ASSUME NEW p \in Presets, init_retry(p) PROVE SessionInv'
  <2>1. ds' \in DeliveryState
    BY <1>4, UpdateTypes DEF init_retry, TypeOK
  <2> QED
    BY <1>4, <2>1, ToldStep DEF init_retry
<1>5. CASE shutdown_stop
  BY <1>5 DEF shutdown_stop, SessionInv, NotUpWhenDown, Announced
<1>6. CASE shutdown_reset
  BY <1>6 DEF shutdown_reset, bridge_joined, stopped, SessionInv, NotUpWhenDown,
     Announced
<1>7. ASSUME NEW t \in Topics, subscribe(t) PROVE SessionInv'
  BY <1>7, QuietStep DEF subscribe, moduleVars
<1> QED
  BY <1>1, <1>2, <1>3, <1>4, <1>5, <1>6, <1>7 DEF Caller

\* Callbacks outlive their session, so each is looked at in every phase.
LEMMA CallbackSession ==
    ASSUME TypeOK, SessionInv, NEW b \in Boots, Callback(b)
    PROVE  SessionInv'
<1> USE DEF bridgeVars, nodeVars
<1>0. ds \in DeliveryState
  BY DEF TypeOK
<1>1. ASSUME UNCHANGED <<told, phase, bridgeVars>>,
             ds'.state = ds.state, ds'.started = ds.started
      PROVE  SessionInv'
  BY <1>1 DEF SessionInv, NotUpWhenDown, Announced
<1>2. CASE create_node_ok(b)
  BY <1>1, <1>2 DEF create_node_ok
<1>3. CASE create_node_err(b)
  BY <1>1, <1>3 DEF create_node_err
<1>4. CASE join_existing_node_ok(b)
  BY <1>0, <1>1, <1>4 DEF join_existing_node_ok, DeliveryState
<1>5. CASE join_existing_node_err(b)
  <2>1. ds' \in DeliveryState /\ ds'.state = "error" /\ ds'.started = ds.started
    BY <1>0, <1>5 DEF join_existing_node_err, set_delivery_state, DeliveryState
  <2> QED
    BY <1>5, <2>1, ToldStep DEF join_existing_node_err, SessionInv, NotUpWhenDown
<1>6. CASE start_node_ok(b)
  BY <1>1, <1>6 DEF start_node_ok
<1>7. CASE start_node_err(b)
  <2>1. ds' \in DeliveryState /\ ds'.state = "error" /\ ds'.started = ds.started
    BY <1>0, <1>7 DEF start_node_err, set_delivery_state, DeliveryState
  <2> QED
    BY <1>7, <2>1, ToldStep DEF start_node_err, SessionInv, NotUpWhenDown
<1>8. CASE start_node(b)
  BY <1>0, <1>1, <1>8 DEF start_node, waits_for_start, DeliveryState
<1> QED
  BY <1>2, <1>3, <1>4, <1>5, <1>6, <1>7, <1>8 DEF Callback

LEMMA BridgeSession == TypeOK /\ SessionInv /\ Bridge => SessionInv'
<1> SUFFICES ASSUME TypeOK, SessionInv, Bridge PROVE SessionInv'
  OBVIOUS
<1> USE DEF moduleVars, nodeVars, StepTo
<1>0. phase # "down" /\ ds \in DeliveryState
  BY DEF Bridge, bridge_recv, bridge_node_started, bridge_started_drained, bridge_connection,
     bridge_conn_drained, forward_subscriptions, SessionInv, TypeOK
<1>1. ASSUME UNCHANGED <<ds, told, phase>>, bridge' # "off" PROVE SessionInv'
  BY <1>0, <1>1 DEF SessionInv, NotUpWhenDown, Announced
<1>2. CASE bridge_recv
  BY <1>0, <1>2 DEF bridge_recv, SessionInv, NotUpWhenDown, Announced
<1>3. CASE bridge_node_started
  <2>1. CASE ds.starting
    <3>1. Head(startedQ) \in BOOLEAN
      BY <1>3 DEF bridge_node_started, TypeOK
    <3>2. ds' \in DeliveryState
      BY <1>0, <1>3, <3>1 DEF bridge_node_started, record_node_started, DeliveryState
    <3> QED
      BY <1>0, <1>3, <2>1, <3>2, ToldStep DEF bridge_node_started
  <2>2. CASE ~ds.starting
    BY <1>3, <2>2, QuietStep DEF bridge_node_started, record_node_started
  <2> QED
    BY <2>1, <2>2
<1>4. CASE bridge_started_drained
  BY <1>1, <1>4 DEF bridge_started_drained
<1>5. CASE bridge_connection
  <2>1. CASE connection_applies(ds)
    <3>1. ds' \in DeliveryState
      BY <1>0, <1>5 DEF bridge_connection, handle_connection_state, set_delivery_state,
         map_connection_status, DeliveryState
    <3> QED
      BY <1>0, <1>5, <2>1, <3>1, ToldStep DEF bridge_connection
  <2>2. CASE ~connection_applies(ds)
    BY <1>5, <2>2, QuietStep DEF bridge_connection, handle_connection_state
  <2> QED
    BY <2>1, <2>2
<1>6. CASE bridge_conn_drained
  BY <1>1, <1>6 DEF bridge_conn_drained
<1>7. CASE forward_subscriptions
  BY <1>1, <1>7 DEF forward_subscriptions
<1> QED
  BY <1>2, <1>3, <1>4, <1>5, <1>6, <1>7 DEF Bridge

LEMMA DeliverySession ==
    ASSUME SessionInv, NEW b \in Boots, Serves(b)
    PROVE  SessionInv'
<1> USE DEF bridgeVars
<1> QED
  BY QuietStep DEF Serves, delivery_creates, delivery_starts, delivery_refuses, delivery_informs

LEMMA NodeSession == SessionInv /\ (Starting \/ World) => SessionInv'
<1> SUFFICES ASSUME SessionInv, Starting \/ World PROVE SessionInv'
  OBVIOUS
<1> USE DEF moduleVars, bridgeVars
<1>1. ASSUME NEW sub \in Cuttable, disconnects(sub) PROVE SessionInv'
  BY <1>1, QuietStep DEF disconnects
<1> QED
  BY <1>1, QuietStep DEF Starting, World, node_started, connection_changes, other_creates,
     other_starts

LEMMA NextSession == TypeOK /\ SessionInv /\ [Next]_vars => SessionInv'
<1>1. SessionInv /\ UNCHANGED vars => SessionInv'
  BY QuietStep DEF vars
<1> QED
  BY <1>1, CallerSession, CallbackSession, BridgeSession, DeliverySession, NodeSession DEF Next

LEMMA InitSession == Init => SessionInv
  BY DEF Init, SessionInv, NotUpWhenDown, Announced, stopped

LEMMA SessionInvariant == Spec => []SessionInv
  BY InitSession, NextSession, TypeCorrect, PTL DEF Spec

\* No callback that outlives its session, and no event the bridge still held,
\* makes a module that was shut down look up.
THEOREM DownStaysDown == Spec => []NotUpWhenDown
<1>1. SessionInv => NotUpWhenDown
  BY DEF SessionInv
<1> QED
  BY SessionInvariant, <1>1, PTL

\* Every outcome an initialised module shows was announced by its last event.
THEOREM OutcomeIsTold == Spec => []OutcomeTold
<1>1. SessionInv => OutcomeTold
  BY DEF SessionInv, Announced, OutcomeTold
<1> QED
  BY SessionInvariant, <1>1, PTL
-----------------------------------------------------------------------------
(***************************************************************************)
(* delivery_adopted tells the truth                                        *)
(***************************************************************************)
\* What OWN_NODE_PRESET says of the node, if no answer of delivery is lost: the
\* preset it was created with, once the callback that learns of it has run.
Creates(b) == boot[b].step = "createNode" /\ boot[b].answer = "ok"
Finds(b) == boot[b].step = "getNodeInfo" /\ boot[b].answer = "ok"
Joins(b) == boot[b].step = "start_node"
OwnInv ==
    /\ \A b \in Boots : b > boots => boot[b].step = "none"
    /\ node = "absent" => nodePreset = NoPreset
    /\ own # NoPreset => nodePreset = own
    /\ nodePreset \in Presets => own = nodePreset \/ \E b \in Boots : Creates(b)
    /\ \A b \in Boots : Creates(b) => nodePreset = boot[b].preset /\ own = NoPreset
    /\ \A b, c \in Boots : Creates(b) /\ Creates(c) => b = c
    /\ \A b \in Boots : Finds(b) \/ Joins(b) => node # "absent"

\* The flag of the delivery state, as long as bootstraps do not overlap: one
\* bootstrap at most is not done, it is the last one, and from the moment it has
\* joined the node the flag is the one of that bootstrap.
Honest == ds.adopted = (nodePreset # preset)
Early(b) == boot[b].step \in {"createNode", "getNodeInfo", "start_node"}
AloneInv ==
    /\ \A b, c \in Boots : Outstanding(b) /\ Outstanding(c) => b = c
    /\ \A b \in Boots : Outstanding(b) => boot[b].preset = preset
    /\ \A b \in Boots : Early(b) => ~ds.starting /\ ~ds.started
    /\ \A b \in Boots : Creates(b) => ~ds.adopted
    /\ ds.starting => ~ds.started
    /\ phase = "installed" => ds = initialising /\ ~AnyOutstanding
    /\ phase = "up" => \A b \in Boots : Early(b) => ds.state = "initialising"
    /\ phase = "up" /\ ds.starting => ds.state = "initialising"
    /\ \A b \in Boots : Joins(b) => Honest
    /\ ds.starting \/ ds.started => Honest
    /\ ds.state = "online" => told.adopted = ds.adopted

AdoptInv ==
    /\ OwnInv
    /\ ds.adopted \/ ds.starting \/ ds.started => node # "absent"
    /\ ds.state = "online" => ds.started
    /\ ~overlap => AloneInv

\* The records of the bootstraps after a callback or an answer.
LEMMA BootAfter ==
    ASSUME TypeOK, NEW b \in Boots
    PROVE  /\ \A step \in {"createNode", "getNodeInfo", "start_node", "start", "done"} : Waits(b, step) =>
                /\ boot'[b].step = step /\ boot'[b].answer = "none"
                /\ boot'[b].preset = boot[b].preset
                /\ \A c \in Boots \ {b} : boot'[c] = boot[c]
           /\ \A answer \in {"ok", "err"} : Answer(b, answer) =>
                /\ boot'[b].step = boot[b].step /\ boot'[b].answer = answer
                /\ boot'[b].preset = boot[b].preset
                /\ \A c \in Boots \ {b} : boot'[c] = boot[c]
<1>1. boot \in [Boots -> Bootstrap] /\ boot[b] \in Bootstrap
  BY DEF TypeOK
<1>2. ASSUME NEW step \in {"createNode", "getNodeInfo", "start_node", "start", "done"}, Waits(b, step)
      PROVE  /\ boot'[b].step = step /\ boot'[b].answer = "none"
             /\ boot'[b].preset = boot[b].preset
             /\ \A c \in Boots \ {b} : boot'[c] = boot[c]
  BY <1>1, <1>2 DEF Waits, Bootstrap
<1>3. ASSUME NEW answer \in {"ok", "err"}, Answer(b, answer)
      PROVE  /\ boot'[b].step = boot[b].step /\ boot'[b].answer = answer
             /\ boot'[b].preset = boot[b].preset
             /\ \A c \in Boots \ {b} : boot'[c] = boot[c]
  BY <1>1, <1>3 DEF Answer, Bootstrap
<1> QED
  BY <1>2, <1>3

\* With no lost answers, a call that was carried out is answered with ok.
LEMMA CarriedOutOk ==
    ASSUME ~AnswersLost, NEW b \in Boots, CarriedOut(b)
    PROVE  Answer(b, "ok")
<1>1. (IF AnswersLost THEN {"ok", "err"} ELSE {"ok"}) = {"ok"}
  BY Zenon
<1> QED
  BY <1>1, Zenon DEF CarriedOut

\* A step that leaves the bootstraps and the node alone keeps OwnInv.
LEMMA OwnQuiet ==
    ASSUME OwnInv, UNCHANGED <<boot, boots, own, node, nodePreset>>
    PROVE  OwnInv'
  BY DEF OwnInv, Creates, Finds, Joins

\* Steps of other threads than the bootstrap's that keep the state, or change it
\* to one that starts nothing.
LEMMA AdoptQuiet ==
    ASSUME TypeOK, AdoptInv, UNCHANGED <<boot, boots, own, preset, node, nodePreset, overlap, ds, told>>,
           phase' = phase \/ phase' \notin {"installed", "up"}
    PROVE  AdoptInv'
<1>1. OwnInv'
  BY OwnQuiet DEF AdoptInv
<1>2. ~overlap' => AloneInv'
  BY DEF AdoptInv, AloneInv, Outstanding, AnyOutstanding, Early, Creates, Joins, Honest
<1> QED
  BY <1>1, <1>2 DEF AdoptInv

LEMMA InitAdopt == Init => AdoptInv
<1> SUFFICES ASSUME Init PROVE AdoptInv
  OBVIOUS
<1>1. \A b \in Boots : boot[b].step = "none"
  BY DEF Init
<1>2. OwnInv
  BY <1>1, PresetsAssumption DEF Init, OwnInv, Creates, Finds, Joins
<1>3. AloneInv
  BY <1>1 DEF Init, AloneInv, Outstanding, AnyOutstanding, Early, Creates, Joins, Honest, stopped
<1> QED
  BY <1>2, <1>3 DEF Init, AdoptInv, stopped

\* A bootstrap begins: with nothing else unanswered it is the only one.
LEMMA BeginsAdopt ==
    ASSUME TypeOK, AdoptInv, NEW p \in Presets, start_delivery_bootstrap(p),
           UNCHANGED <<own, node, nodePreset>>,
           ds' \in DeliveryState, ~overlap => ds'.state = "initialising",
           ds'.state = "online" => ds.state = "online",
           ds'.adopted = ds.adopted, ds'.starting = ds.starting, ds'.started = ds.started,
           phase' = "up",
           ~overlap => ~ds.starting /\ ~ds.started
    PROVE  AdoptInv'
<1>0. PICK n \in Boots : n = boots + 1
  BY BoundsAssumption DEF TypeOK, start_delivery_bootstrap, Boots
<1>1. n \in Boots /\ boot \in [Boots -> Bootstrap]
  BY DEF TypeOK
<1>2. /\ boot'[n].step = "createNode" /\ boot'[n].answer = "none" /\ boot'[n].preset = p
      /\ \A c \in Boots \ {n} : boot'[c] = boot[c]
  BY <1>0, <1>1 DEF start_delivery_bootstrap
<1>3. preset' = p
  BY DEF start_delivery_bootstrap
<1>4. boot[n].step = "none" /\ boots' = n
  BY <1>0, <1>1 DEF AdoptInv, OwnInv, TypeOK, Boots, start_delivery_bootstrap
<1>5. OwnInv'
  <2>1. \A b \in Boots : b > boots' => boot'[b].step = "none"
    BY <1>0, <1>1, <1>2, <1>4 DEF AdoptInv, OwnInv, TypeOK, Boots
  <2>2. \A b \in Boots : (Creates(b)' <=> Creates(b)) /\ (Finds(b)' <=> Finds(b))
                        /\ (Joins(b)' <=> Joins(b))
    BY <1>1, <1>2, <1>4 DEF Creates, Finds, Joins
  <2>3. \A b \in Boots : Creates(b) => boot'[b] = boot[b]
    BY <1>2, <1>4 DEF Creates
  <2> QED
    BY <2>1, <2>2, <2>3 DEF AdoptInv, OwnInv
<1>6. ASSUME ~overlap' PROVE AloneInv'
  <2>1. ~overlap /\ ~AnyOutstanding
    <3>1. (overlap \/ AnyOutstanding) => overlap'
      BY Zenon DEF start_delivery_bootstrap
    <3> QED
      BY <3>1, <1>6, Zenon
  <2>2. \A c \in Boots : ~Outstanding(c)
    BY <2>1 DEF AnyOutstanding
  <2>3. \A c \in Boots \ {n} : ~Outstanding(c)' /\ ~Early(c)' /\ ~Creates(c)' /\ ~Joins(c)'
    BY <1>2, <2>2 DEF Outstanding, Early, Creates, Joins
  <2>4. ~Creates(n)' /\ ~Joins(n)' /\ boot'[n].preset = preset'
    BY <1>2, <1>3 DEF Creates, Joins
  <2>5. ~ds'.starting /\ ~ds'.started /\ ds'.state = "initialising"
    BY <2>1
  <2>6. \A b, c \in Boots : Outstanding(b)' /\ Outstanding(c)' => b = c
    BY <2>3
  <2>7. \A b \in Boots : ~Creates(b)' /\ ~Joins(b)' /\ (Outstanding(b)' => boot'[b].preset = preset')
    BY <2>3, <2>4
  <2> QED
    BY <2>5, <2>6, <2>7 DEF AloneInv
<1> QED
  BY <1>5, <1>6 DEF AdoptInv

\* A step that changes the display only, to one that is honest if it starts or
\* has started.
LEMMA ShowsAdopt ==
    ASSUME TypeOK, AdoptInv, UNCHANGED <<boot, boots, own, preset, node, nodePreset, phase, overlap>>,
           ds' \in DeliveryState, ds'.adopted = ds.adopted,
           ds'.starting => ds.starting,
           ds'.started => ds.started \/ ds.starting,
           ds'.state = "online" => ds'.started,
           ~overlap => /\ ds.starting \/ ds.started
                       /\ ~ds'.starting
                       /\ ds'.state = "online" => told'.adopted = ds'.adopted
    PROVE  AdoptInv'
<1>1. OwnInv'
  BY OwnQuiet DEF AdoptInv
<1>2. ASSUME ~overlap' PROVE AloneInv'
  <2>1. ~overlap /\ AloneInv
    BY <1>2 DEF AdoptInv
  <2>2. phase # "installed" /\ \A b \in Boots : ~Early(b)
    BY <2>1 DEF AloneInv, initialising, stopped
  <2>3. \A b \in Boots : ~Early(b)' /\ ~Creates(b)' /\ ~Joins(b)' /\ (Outstanding(b)' <=> Outstanding(b))
    BY <2>2 DEF Early, Creates, Joins, Outstanding
  <2>4. Honest'
    BY <2>1 DEF AloneInv, Honest
  <2> QED
    BY <2>1, <2>2, <2>3, <2>4 DEF AloneInv
<1> QED
  BY <1>1, <1>2 DEF AdoptInv

LEMMA CallerAdopt == TypeOK /\ AdoptInv /\ Caller => AdoptInv'
<1> SUFFICES ASSUME TypeOK, AdoptInv, Caller PROVE AdoptInv'
  OBVIOUS
<1> USE DEF bridgeVars, nodeVars
<1>1. ASSUME NEW subs \in SUBSET Subscriptions, init_subscribe(subs) PROVE AdoptInv'
  BY <1>1, AdoptQuiet DEF init_subscribe
<1>2. CASE init_seed
  <2>1. OwnInv'
    BY <1>2, OwnQuiet DEF init_seed, AdoptInv
  <2>2. ASSUME ~overlap' PROVE AloneInv'
    <3>1. ~AnyOutstanding
      BY <1>2, <2>2, Zenon DEF init_seed
    <3>2. \A b \in Boots : ~Outstanding(b)'
      BY <1>2, <3>1 DEF init_seed, AnyOutstanding, Outstanding
    <3>3. \A b \in Boots : ~Early(b)' /\ ~Creates(b)' /\ ~Joins(b)'
      BY <3>2 DEF Outstanding, Early, Creates, Joins
    <3>4. ~AnyOutstanding'
      BY <3>2 DEF AnyOutstanding
    <3> QED
      BY <1>2, <3>2, <3>3, <3>4 DEF init_seed, AloneInv, initialising, stopped
  <2> QED
    BY <1>2, <2>1, <2>2 DEF init_seed, AdoptInv, initialising, stopped
<1>3. ASSUME NEW p \in Presets, init_bootstrap(p) PROVE AdoptInv'
  <2>1. ~overlap => ds = initialising
    BY <1>3 DEF init_bootstrap, AdoptInv, AloneInv
  <2> QED
    BY <1>3, <2>1, BeginsAdopt DEF init_bootstrap, TypeOK, initialising, stopped
<1>4. ASSUME NEW p \in Presets, init_retry(p) PROVE AdoptInv'
  <2>1. ds.state = "error" /\ ~ds.started /\ phase = "up"
    BY <1>4 DEF init_retry, may_retry
  <2>2. ~overlap => ~ds.starting
    BY <2>1 DEF AdoptInv, AloneInv
  <2>3. /\ ds' \in DeliveryState /\ ds'.state = "initialising"
        /\ ds'.adopted = ds.adopted /\ ds'.starting = ds.starting /\ ds'.started = ds.started
    BY <1>4 DEF init_retry, set_delivery_state, TypeOK, DeliveryState
  <2> QED
    BY <1>4, <2>1, <2>2, <2>3, BeginsAdopt DEF init_retry
<1>5. CASE shutdown_stop
  BY <1>5, AdoptQuiet DEF shutdown_stop
<1>6. CASE shutdown_reset
  <2>1. OwnInv'
    BY <1>6, OwnQuiet DEF shutdown_reset, AdoptInv
  <2>2. ASSUME ~overlap' PROVE AloneInv'
    <3>1. ~AnyOutstanding
      BY <1>6, <2>2, Zenon DEF shutdown_reset
    <3>2. \A b \in Boots : ~Outstanding(b)'
      BY <1>6, <3>1 DEF shutdown_reset, AnyOutstanding, Outstanding
    <3>3. \A b \in Boots : ~Early(b)' /\ ~Creates(b)' /\ ~Joins(b)'
      BY <3>2 DEF Outstanding, Early, Creates, Joins
    <3> QED
      BY <1>6, <3>2, <3>3 DEF shutdown_reset, AloneInv, stopped
  <2> QED
    BY <1>6, <2>1, <2>2 DEF shutdown_reset, AdoptInv, stopped
<1>7. ASSUME NEW t \in Topics, subscribe(t) PROVE AdoptInv'
  BY <1>7, AdoptQuiet DEF subscribe, moduleVars
<1> QED
  BY <1>1, <1>2, <1>3, <1>4, <1>5, <1>6, <1>7 DEF Caller

\* A callback on anything but the creation of the node: the bootstrap leaves the
\* call it was answered, OWN_NODE_PRESET stands.
LEMMA OwnAfterCallback ==
    ASSUME TypeOK, OwnInv, NEW b \in Boots,
           NEW step \in {"getNodeInfo", "start_node", "start", "done"}, Waits(b, step),
           step = "start_node" => node # "absent", boot[b].step # "none", ~Creates(b), UNCHANGED <<boots, own, node, nodePreset>>
    PROVE  OwnInv'
<1>1. /\ boot'[b].step = step /\ boot'[b].answer = "none"
      /\ \A c \in Boots \ {b} : boot'[c] = boot[c]
  BY BootAfter
<1>2. \A c \in Boots : Creates(c)' <=> Creates(c)
  BY <1>1 DEF Creates
<1>3. \A c \in Boots : Finds(c)' \/ Joins(c)' => node # "absent"
  BY <1>1 DEF Finds, Joins, OwnInv
<1>4. \A c \in Boots : Creates(c) => boot'[c].preset = boot[c].preset
  BY <1>1
<1>5. \A c \in Boots : c > boots' => boot'[c].step = "none"
  BY <1>1 DEF OwnInv
<1> QED
  BY <1>2, <1>3, <1>4, <1>5 DEF OwnInv

\* The only unanswered bootstrap is answered, or goes on: it stays the only one,
\* and the module is not between seeding its display and beginning a bootstrap.
LEMMA AloneAfterCall ==
    ASSUME TypeOK, AloneInv, NEW b \in Boots, Outstanding(b), UNCHANGED preset,
           \/ \E step \in {"getNodeInfo", "start_node", "start", "done"} : Waits(b, step)
           \/ \E answer \in {"ok", "err"} : Answer(b, answer)
    PROVE  /\ phase # "installed"
           /\ \A c \in Boots \ {b} : ~Outstanding(c)' /\ ~Early(c)' /\ ~Creates(c)' /\ ~Joins(c)'
           /\ \A c, d \in Boots : Outstanding(c)' /\ Outstanding(d)' => c = d
           /\ \A c \in Boots : Outstanding(c)' => boot'[c].preset = preset'
<1>1. phase # "installed"
  BY DEF AloneInv, AnyOutstanding
<1>2. boot'[b].preset = boot[b].preset /\ \A c \in Boots \ {b} : boot'[c] = boot[c]
  BY BootAfter
<1>3. \A c \in Boots \ {b} : ~Outstanding(c)
  BY DEF AloneInv
<1>4. \A c \in Boots \ {b} : ~Outstanding(c)' /\ ~Early(c)' /\ ~Creates(c)' /\ ~Joins(c)'
  BY <1>2, <1>3 DEF Outstanding, Early, Creates, Joins
<1>5. boot'[b].preset = preset'
  BY <1>2 DEF AloneInv
<1> QED
  BY <1>1, <1>4, <1>5

LEMMA CallbackAdopt ==
    ASSUME TypeOK, AdoptInv, NEW b \in Boots, Callback(b)
    PROVE  AdoptInv'
<1> USE DEF bridgeVars, nodeVars
<1>0. OwnInv /\ ds \in DeliveryState
  BY DEF AdoptInv, TypeOK
<1>1. CASE create_node_ok(b)
  <2>1. /\ boot'[b].step = "start_node" /\ boot'[b].answer = "none"
        /\ \A c \in Boots \ {b} : boot'[c] = boot[c]
    BY <1>1, BootAfter DEF create_node_ok
  <2>2. Creates(b) /\ Outstanding(b) /\ Early(b)
    BY <1>1 DEF create_node_ok, Answered, Creates, Outstanding, Early
  <2>3. /\ own' = boot[b].preset /\ own' \in Presets /\ nodePreset = own' /\ node # "absent"
        /\ UNCHANGED <<node, nodePreset, preset, overlap, phase, boots, ds, told>>
    BY <1>0, <1>1, <2>2, PresetsAssumption DEF create_node_ok, OwnInv, Creates, TypeOK
  <2>4. OwnInv'
    <3>1. \A c \in Boots : ~Creates(c)'
      BY <1>0, <2>1, <2>2 DEF OwnInv, Creates
    <3>2. \A c \in Boots : c > boots' => boot'[c].step = "none"
      BY <1>0, <2>1, <2>2, <2>3 DEF OwnInv, Creates
    <3> QED
      BY <1>0, <2>3, <3>1, <3>2 DEF OwnInv
  <2>5. ASSUME ~overlap' PROVE AloneInv'
    <3>1. AloneInv
      BY <2>3, <2>5 DEF AdoptInv
    <3>2. /\ phase # "installed"
          /\ \A c \in Boots \ {b} : ~Outstanding(c)' /\ ~Early(c)' /\ ~Creates(c)' /\ ~Joins(c)'
          /\ \A c, d \in Boots : Outstanding(c)' /\ Outstanding(d)' => c = d
          /\ \A c \in Boots : Outstanding(c)' => boot'[c].preset = preset'
      BY <1>1, <2>2, <2>3, <3>1, AloneAfterCall DEF create_node_ok
    <3>3. ~Creates(b)'
      BY <2>1 DEF Creates
    <3>4. /\ ~ds.adopted /\ ~ds.starting /\ ~ds.started
          /\ phase = "up" => ds.state = "initialising"
          /\ ds.state = "online" => told.adopted = ds.adopted
      BY <2>2, <3>1 DEF AloneInv
    <3>5. Honest'
      <4>1. ds'.adopted = FALSE
        BY <1>0, <2>3, <3>4 DEF DeliveryState
      <4>2. (nodePreset' # preset') = FALSE
        BY <2>2, <2>3, <3>1 DEF AloneInv
      <4> QED
        BY <4>1, <4>2 DEF Honest
    <3> QED
      BY <2>3, <3>2, <3>3, <3>4, <3>5 DEF AloneInv
  <2> QED
    BY <2>3, <2>4, <2>5 DEF AdoptInv
<1>2. CASE create_node_err(b)
  <2>1. /\ boot'[b].step = "getNodeInfo" /\ boot'[b].answer = "none"
        /\ \A c \in Boots \ {b} : boot'[c] = boot[c]
    BY <1>2, BootAfter DEF create_node_err
  <2>2. Outstanding(b) /\ Early(b) /\ ~Creates(b) /\ boot[b].step # "none"
    BY <1>2 DEF create_node_err, Answered, Creates, Outstanding, Early
  <2>3. OwnInv'
    BY <1>0, <1>2, <2>2, OwnAfterCallback DEF create_node_err
  <2>4. ASSUME ~overlap' PROVE AloneInv'
    <3>1. AloneInv
      BY <1>2, <2>4 DEF AdoptInv, create_node_err
    <3>2. /\ phase # "installed"
          /\ \A c \in Boots \ {b} : ~Outstanding(c)' /\ ~Early(c)' /\ ~Creates(c)' /\ ~Joins(c)'
          /\ \A c, d \in Boots : Outstanding(c)' /\ Outstanding(d)' => c = d
          /\ \A c \in Boots : Outstanding(c)' => boot'[c].preset = preset'
      BY <1>2, <2>2, <3>1, AloneAfterCall DEF create_node_err
    <3>3. ~Creates(b)' /\ ~Joins(b)'
      BY <2>1 DEF Creates, Joins
    <3>4. /\ ~ds.starting /\ ~ds.started /\ (phase = "up" => ds.state = "initialising")
          /\ ds.state = "online" => told.adopted = ds.adopted
      BY <2>2, <3>1 DEF AloneInv
    <3> QED
      BY <1>2, <3>2, <3>3, <3>4 DEF AloneInv, create_node_err
  <2> QED
    BY <1>2, <2>3, <2>4 DEF AdoptInv, create_node_err
<1>3. CASE join_existing_node_ok(b)
  <2>1. /\ boot'[b].step = "start_node" /\ boot'[b].answer = "none"
        /\ \A c \in Boots \ {b} : boot'[c] = boot[c]
    BY <1>3, BootAfter DEF join_existing_node_ok
  <2>2. Outstanding(b) /\ Early(b) /\ ~Creates(b) /\ Finds(b) /\ boot[b].step # "none"
    BY <1>3 DEF join_existing_node_ok, Answered, Creates, Finds, Outstanding, Early
  <2>3. node # "absent"
    BY <1>0, <2>2 DEF OwnInv
  <2>4. OwnInv'
    BY <1>0, <1>3, <2>2, <2>3, OwnAfterCallback DEF join_existing_node_ok
  <2>5. /\ ds'.starting = ds.starting /\ ds'.started = ds.started /\ ds'.state = ds.state
        /\ ds'.adopted = (own # boot[b].preset)
    BY <1>0, <1>3 DEF join_existing_node_ok, adopts, DeliveryState
  <2>6. ASSUME ~overlap' PROVE AloneInv'
    <3>1. AloneInv
      BY <1>3, <2>6 DEF AdoptInv, join_existing_node_ok
    <3>2. /\ phase # "installed"
          /\ \A c \in Boots \ {b} : ~Outstanding(c)' /\ ~Early(c)' /\ ~Creates(c)' /\ ~Joins(c)'
          /\ \A c, d \in Boots : Outstanding(c)' /\ Outstanding(d)' => c = d
          /\ \A c \in Boots : Outstanding(c)' => boot'[c].preset = preset'
      BY <1>3, <2>2, <3>1, AloneAfterCall DEF join_existing_node_ok
    <3>3. ~Creates(b)'
      BY <2>1 DEF Creates
    <3>4. ~ds.starting /\ ~ds.started /\ (phase = "up" => ds.state = "initialising")
      BY <2>2, <3>1 DEF AloneInv
    <3>5. ds'.state # "online"
      BY <2>5, <3>4 DEF AdoptInv
    <3>6. boot[b].preset = preset /\ boot[b].preset \in Presets
      BY <2>2, <3>1 DEF AloneInv, TypeOK
    <3>7. \A c \in Boots : ~Creates(c)
      BY <2>2, <3>1 DEF AloneInv, Creates, Outstanding
    <3>8. own = preset <=> nodePreset = preset
      BY <1>0, <3>6, <3>7, PresetsAssumption DEF OwnInv
    <3>9. Honest'
      BY <1>3, <2>5, <3>6, <3>8 DEF Honest, join_existing_node_ok
    <3> QED
      BY <1>3, <2>5, <3>2, <3>3, <3>4, <3>5, <3>9 DEF AloneInv, join_existing_node_ok
  <2> QED
    BY <1>3, <2>3, <2>4, <2>5, <2>6 DEF AdoptInv, join_existing_node_ok
\* The callbacks that end the bootstrap.
<1>4. ASSUME Waits(b, "done"), boot[b].step \in {"getNodeInfo", "start"},
             UNCHANGED <<phase, preset, own, boots, overlap, node, nodePreset>>,
             ds' \in DeliveryState, ds'.adopted = ds.adopted, ds'.started = ds.started,
             \/ UNCHANGED <<ds, told>>
             \/ /\ ds'.state = "error"
                /\ ds'.starting => boot[b].step = "getNodeInfo" /\ ds'.starting = ds.starting
      PROVE  AdoptInv'
  <2>1. /\ boot'[b].step = "done" /\ boot'[b].answer = "none"
        /\ \A c \in Boots \ {b} : boot'[c] = boot[c]
    BY <1>4, BootAfter
  <2>2. Outstanding(b) /\ ~Creates(b) /\ boot[b].step # "none"
    BY <1>4 DEF Creates, Outstanding
  <2>3. OwnInv'
    BY <1>0, <1>4, <2>2, OwnAfterCallback
  <2>4. ASSUME ~overlap' PROVE AloneInv'
    <3>1. AloneInv
      BY <1>4, <2>4 DEF AdoptInv
    <3>2. /\ phase # "installed"
          /\ \A c \in Boots \ {b} : ~Outstanding(c)' /\ ~Early(c)' /\ ~Creates(c)' /\ ~Joins(c)'
          /\ \A c, d \in Boots : Outstanding(c)' /\ Outstanding(d)' => c = d
          /\ \A c \in Boots : Outstanding(c)' => boot'[c].preset = preset'
      BY <1>4, <2>2, <3>1, AloneAfterCall
    <3>3. ~Early(b)' /\ ~Creates(b)' /\ ~Joins(b)'
      BY <2>1 DEF Early, Creates, Joins
    <3>4. boot[b].step = "getNodeInfo" => ~ds.starting
      BY <3>1 DEF AloneInv, Early
    <3>5. UNCHANGED <<ds, told>> \/ (ds'.state = "error" /\ ~ds'.starting)
      BY <1>4, <3>4
    <3>6. Honest' <=> Honest
      BY <1>4 DEF Honest
    <3> QED
      BY <1>4, <3>1, <3>2, <3>3, <3>5, <3>6 DEF AloneInv
  <2> QED
    BY <1>4, <2>3, <2>4 DEF AdoptInv
<1>5. CASE join_existing_node_err(b)
  BY <1>0, <1>4, <1>5 DEF join_existing_node_err, Answered, set_delivery_state, DeliveryState
<1>6. CASE start_node_ok(b)
  BY <1>0, <1>4, <1>6 DEF start_node_ok, Answered
<1>7. CASE start_node_err(b)
  BY <1>0, <1>4, <1>7 DEF start_node_err, Answered, set_delivery_state, DeliveryState
<1>8. CASE start_node(b)
  <2>1. /\ boot'[b].step = "start" /\ boot'[b].answer = "none"
        /\ \A c \in Boots \ {b} : boot'[c] = boot[c]
    BY <1>8, BootAfter DEF start_node
  <2>2. Outstanding(b) /\ Early(b) /\ Joins(b) /\ ~Creates(b) /\ boot[b].step # "none"
    BY <1>8 DEF start_node, Creates, Joins, Outstanding, Early
  <2>3. OwnInv'
    BY <1>0, <1>8, <2>2, OwnAfterCallback DEF start_node
  <2>4. /\ ds'.starting /\ ds'.started = ds.started /\ ds'.state = ds.state
        /\ ds'.adopted = ds.adopted
    BY <1>0, <1>8 DEF start_node, waits_for_start, DeliveryState
  <2>5. node' # "absent"
    BY <1>0, <1>8, <2>2 DEF OwnInv, start_node
  <2>6. ASSUME ~overlap' PROVE AloneInv'
    <3>1. AloneInv
      BY <1>8, <2>6 DEF AdoptInv, start_node
    <3>2. /\ phase # "installed"
          /\ \A c \in Boots \ {b} : ~Outstanding(c)' /\ ~Early(c)' /\ ~Creates(c)' /\ ~Joins(c)'
          /\ \A c, d \in Boots : Outstanding(c)' /\ Outstanding(d)' => c = d
          /\ \A c \in Boots : Outstanding(c)' => boot'[c].preset = preset'
      BY <1>8, <2>2, <3>1, AloneAfterCall DEF start_node
    <3>3. ~Early(b)' /\ ~Creates(b)' /\ ~Joins(b)'
      BY <2>1 DEF Early, Creates, Joins
    <3>4. ~ds.started /\ (phase = "up" => ds.state = "initialising")
      BY <2>2, <3>1 DEF AloneInv
    <3>5. ds'.state # "online"
      BY <2>4, <3>4 DEF AdoptInv
    <3>6. Honest'
      BY <1>8, <2>2, <2>4, <3>1 DEF AloneInv, Honest, start_node
    <3> QED
      BY <1>8, <2>4, <3>2, <3>3, <3>4, <3>5, <3>6 DEF AloneInv, start_node
  <2> QED
    BY <2>3, <2>4, <2>5, <2>6 DEF AdoptInv
<1> QED
  BY <1>1, <1>2, <1>3, <1>5, <1>6, <1>7, <1>8 DEF Callback

LEMMA BridgeAdopt == TypeOK /\ AdoptInv /\ Bridge => AdoptInv'
<1> SUFFICES ASSUME TypeOK, AdoptInv, Bridge PROVE AdoptInv'
  OBVIOUS
<1> USE DEF moduleVars, nodeVars
<1>0. ds \in DeliveryState /\ (~overlap => AloneInv)
  BY DEF TypeOK, AdoptInv
<1>1. CASE bridge_recv
  BY <1>1, AdoptQuiet DEF bridge_recv
<1>2. CASE bridge_node_started
  <2>1. CASE ~ds.starting
    BY <1>2, <2>1, AdoptQuiet DEF bridge_node_started, record_node_started
  <2>2. CASE ds.starting
    <3>1. Head(startedQ) \in BOOLEAN
      BY <1>2 DEF bridge_node_started, TypeOK
    <3>2. /\ ds' \in DeliveryState /\ ds'.adopted = ds.adopted /\ ~ds'.starting
          /\ ds'.state = "online" => ds'.started
      BY <1>0, <1>2, <2>2, <3>1 DEF bridge_node_started, record_node_started, DeliveryState
    <3>3. ~overlap => ds.state # "online"
      BY <1>0, <2>2 DEF AloneInv, AdoptInv
    <3>4. ~overlap => (ds'.state = "online" => told'.adopted = ds'.adopted)
      BY <1>2, <2>2, <3>3 DEF bridge_node_started, Tells, emit_delivery_state_changed
    <3> QED
      BY <1>2, <2>2, <3>2, <3>4, ShowsAdopt DEF bridge_node_started
  <2> QED
    BY <2>1, <2>2
<1>3. CASE bridge_started_drained
  BY <1>3, AdoptQuiet DEF bridge_started_drained
<1>4. CASE bridge_connection
  <2>1. CASE ~connection_applies(ds)
    BY <1>4, <2>1, AdoptQuiet DEF bridge_connection, handle_connection_state
  <2>2. CASE connection_applies(ds)
    <3>1. /\ ds' \in DeliveryState /\ ds'.adopted = ds.adopted /\ ds.started
          /\ ds'.started = ds.started /\ ds'.starting = ds.starting
      BY <1>0, <1>4, <2>2 DEF bridge_connection, handle_connection_state, set_delivery_state,
         map_connection_status, connection_applies, DeliveryState
    <3>2. ~overlap => (ds'.state = "online" => told'.adopted = ds'.adopted)
      BY <1>0, <1>4, <2>2, <3>1 DEF bridge_connection, Tells, emit_delivery_state_changed, AloneInv
    <3>3. ~overlap => ~ds.starting
      BY <1>0, <3>1 DEF AloneInv
    <3> QED
      BY <1>4, <3>1, <3>2, <3>3, ShowsAdopt DEF bridge_connection
  <2> QED
    BY <2>1, <2>2
<1>5. CASE bridge_conn_drained
  BY <1>5, AdoptQuiet DEF bridge_conn_drained
<1>6. CASE forward_subscriptions
  BY <1>6, AdoptQuiet DEF forward_subscriptions
<1> QED
  BY <1>1, <1>2, <1>3, <1>4, <1>5, <1>6 DEF Bridge

\* An answer that is no creation of the node.
LEMMA AnswerAdopt ==
    ASSUME TypeOK, AdoptInv, NEW b \in Boots, Outstanding(b), NEW answer \in {"ok", "err"},
           Answer(b, answer), boot[b].answer = "none",
           boot[b].step = "createNode" => answer = "err",
           boot[b].step = "getNodeInfo" /\ answer = "ok" => node # "absent",
           UNCHANGED <<ds, told, phase, preset, own, boots, overlap, node, nodePreset>>
    PROVE  AdoptInv'
<1>1. /\ boot'[b].step = boot[b].step /\ boot'[b].answer = answer
      /\ boot'[b].preset = boot[b].preset
      /\ \A c \in Boots \ {b} : boot'[c] = boot[c]
  BY BootAfter
<1>2. \A c \in Boots : (Creates(c)' <=> Creates(c)) /\ (Finds(c)' \/ Joins(c)' => node # "absent")
  BY <1>1 DEF Creates, Finds, Joins, AdoptInv, OwnInv
<1>3. \A c \in Boots : /\ boot'[c].step = boot[c].step /\ boot'[c].preset = boot[c].preset
                        /\ (Early(c)' <=> Early(c)) /\ (Outstanding(c)' <=> Outstanding(c))
                        /\ (Joins(c)' <=> Joins(c))
  BY <1>1 DEF Early, Joins, Outstanding
<1>4. OwnInv'
  BY <1>2, <1>3 DEF AdoptInv, OwnInv
<1>5. (AnyOutstanding' <=> AnyOutstanding) /\ (Honest' <=> Honest)
  BY <1>3 DEF AnyOutstanding, Honest
<1>6. ASSUME ~overlap' PROVE AloneInv'
  <2>1. AloneInv
    BY <1>6 DEF AdoptInv
  <2> QED
    BY <1>2, <1>3, <1>5, <2>1 DEF AloneInv
<1> QED
  BY <1>4, <1>6 DEF AdoptInv

LEMMA DeliveryAdopt ==
    ASSUME ~AnswersLost, TypeOK, AdoptInv, NEW b \in Boots, Serves(b)
    PROVE  AdoptInv'
<1> USE DEF bridgeVars, nodeVars
<1>1. CASE delivery_creates(b)
  <2>1. Asked(b, "createNode") /\ node = "absent" /\ Answer(b, "ok")
    BY <1>1, CarriedOutOk DEF delivery_creates
  <2>2. /\ boot'[b].step = "createNode" /\ boot'[b].answer = "ok"
        /\ boot'[b].preset = boot[b].preset /\ boot[b].preset \in Presets
        /\ \A c \in Boots \ {b} : boot'[c] = boot[c]
    BY <2>1, BootAfter DEF Asked, TypeOK
  <2>3. /\ nodePreset' = boot[b].preset /\ node' = "created"
        /\ UNCHANGED <<ds, told, phase, preset, own, boots, overlap>>
    BY <1>1 DEF delivery_creates
  <2>4. own = NoPreset /\ \A c \in Boots : ~Creates(c)
    BY <2>1, PresetsAssumption DEF AdoptInv, OwnInv, TypeOK, Creates
  <2>5. \A c \in Boots : Creates(c)' <=> c = b
    BY <2>2, <2>4 DEF Creates
  <2>6. \A c \in Boots : c > boots' => boot'[c].step = "none"
    BY <2>1, <2>2, <2>3 DEF AdoptInv, OwnInv, Asked
  <2>7. OwnInv'
    BY <2>2, <2>3, <2>4, <2>5, <2>6 DEF OwnInv
  <2>8. ~ds.adopted /\ ~ds.starting /\ ~ds.started
    BY <2>1 DEF AdoptInv
  <2>9. ASSUME ~overlap' PROVE AloneInv'
    <3>1. AloneInv
      BY <2>3, <2>9 DEF AdoptInv
    <3>2. Outstanding(b) /\ Early(b)
      BY <2>1 DEF Asked, Outstanding, Early
    <3>3. /\ phase # "installed"
          /\ \A c \in Boots \ {b} : ~Outstanding(c)' /\ ~Early(c)' /\ ~Creates(c)' /\ ~Joins(c)'
          /\ \A c, d \in Boots : Outstanding(c)' /\ Outstanding(d)' => c = d
          /\ \A c \in Boots : Outstanding(c)' => boot'[c].preset = preset'
      BY <2>1, <2>3, <3>1, <3>2, AloneAfterCall
    <3>4. (phase = "up" => ds.state = "initialising") /\ ~Joins(b)'
      BY <2>2, <3>1, <3>2 DEF AloneInv, Joins
    <3> QED
      BY <2>3, <2>8, <3>1, <3>3, <3>4 DEF AloneInv
  <2> QED
    BY <2>3, <2>7, <2>8, <2>9 DEF AdoptInv
<1>2. CASE delivery_starts(b)
  <2>1. Answer(b, "ok")
    BY <1>2, CarriedOutOk DEF delivery_starts
  <2> QED
    BY <1>2, <2>1, AnswerAdopt DEF delivery_starts, Asked, Outstanding
<1>3. CASE delivery_refuses(b)
  BY <1>3, AnswerAdopt DEF delivery_refuses, Asked, Outstanding
<1>4. CASE delivery_informs(b)
  <2>1. Answer(b, "err") \/ (node # "absent" /\ Answer(b, "ok"))
    BY <1>4, CarriedOutOk DEF delivery_informs
  <2> QED
    BY <1>4, <2>1, AnswerAdopt DEF delivery_informs, Asked, Outstanding
<1> QED
  BY <1>1, <1>2, <1>3, <1>4 DEF Serves

LEMMA NodeAdopt == TypeOK /\ AdoptInv /\ (Starting \/ World) => AdoptInv'
<1> SUFFICES ASSUME TypeOK, AdoptInv, Starting \/ World PROVE AdoptInv'
  OBVIOUS
<1> USE DEF moduleVars, bridgeVars
<1>1. ASSUME NEW success \in BOOLEAN, node_started(success) PROVE AdoptInv'
  <2>1. /\ UNCHANGED <<boot, boots, own, preset, nodePreset, overlap, ds, told, phase>>
        /\ node' = node \/ node' = "running"
    BY <1>1 DEF node_started
  <2>2. OwnInv'
    BY <2>1 DEF AdoptInv, OwnInv, Creates, Finds, Joins
  <2>3. ~overlap' => AloneInv'
    BY <2>1 DEF AdoptInv, AloneInv, Outstanding, AnyOutstanding, Early, Creates, Joins, Honest
  <2> QED
    BY <2>1, <2>2, <2>3 DEF AdoptInv
<1>2. ASSUME NEW status \in Statuses, connection_changes(status) PROVE AdoptInv'
  BY <1>2, AdoptQuiet DEF connection_changes
<1>3. ASSUME NEW sub \in Cuttable, disconnects(sub) PROVE AdoptInv'
  BY <1>3, AdoptQuiet DEF disconnects, nodeVars
<1>4. CASE other_creates
  <2>1. /\ UNCHANGED <<boot, boots, own, preset, overlap, ds, told, phase>>
        /\ node = "absent" /\ node' = "created" /\ nodePreset' = Foreign
    BY <1>4 DEF other_creates
  <2>2. own = NoPreset /\ \A c \in Boots : ~Creates(c) /\ ~Joins(c)
    BY <2>1, PresetsAssumption DEF AdoptInv, OwnInv, TypeOK, Creates
  <2>3. OwnInv'
    BY <2>1, <2>2, PresetsAssumption DEF AdoptInv, OwnInv, Creates, Finds, Joins
  <2>4. ~ds.adopted /\ ~ds.starting /\ ~ds.started
    BY <2>1 DEF AdoptInv
  <2>5. ~overlap' => AloneInv'
    BY <2>1, <2>2, <2>4 DEF AdoptInv, AloneInv, Outstanding, AnyOutstanding, Early, Creates, Joins
  <2> QED
    BY <2>1, <2>3, <2>4, <2>5 DEF AdoptInv
<1>5. CASE other_starts
  BY <1>5, AdoptQuiet DEF other_starts
<1> QED
  BY <1>1, <1>2, <1>3, <1>4, <1>5 DEF Starting, World

LEMMA NextAdopt == ~AnswersLost /\ TypeOK /\ AdoptInv /\ [Next]_vars => AdoptInv'
<1>1. TypeOK /\ AdoptInv /\ UNCHANGED vars => AdoptInv'
  BY AdoptQuiet DEF vars
<1> QED
  BY <1>1, CallerAdopt, CallbackAdopt, BridgeAdopt, DeliveryAdopt, NodeAdopt DEF Next

\* If no answer of delivery is lost, delivery_adopted is true to the node and to
\* the last event whenever the state shown is online and bootstraps do not
\* overlap, for any number of sessions, retries and other consumers.  (With a
\* lost answer to createNode the module cannot know that the node is its own.)
THEOREM AdoptionIsHonest == ASSUME ~AnswersLost PROVE Spec => []AdoptedHonest
<1>1. AdoptInv => AdoptedHonest
  BY DEF AdoptInv, AloneInv, Honest, AdoptedHonest
<1>2. TypeOK /\ AdoptInv /\ [Next]_vars => AdoptInv'
  BY NextAdopt
<1> QED
  BY InitAdopt, <1>1, <1>2, TypeCorrect, PTL DEF Spec
-----------------------------------------------------------------------------
(***************************************************************************)
(* No init waits for nothing                                               *)
(***************************************************************************)
\* NeverStranded is not inductive.  While the state is initialising either a
\* bootstrap has not yet come to start, or the module notes that it waits; and
\* what it then waits for is a start that delivery has not taken on, or whose
\* answer will end the wait as an error, or one under way, or a report in the
\* channel.  A start answered with "ok" is none of these: its report may have
\* been read before its answer.
Undecided(b) == boot[b].step = "start" /\ boot[b].answer # "ok"
Awaited == pending > 0 \/ startedQ # << >> \/ Deaf
WaitInv ==
    /\ \A b \in Boots : b > boots => boot[b].step = "none"
    /\ phase \in {"installed", "up"} /\ ds.starting =>
           (\E b \in Boots : Undecided(b)) \/ Awaited
    /\ phase = "up" /\ ds.state = "initialising" =>
           ds.starting \/ \E b \in Boots : Early(b)

\* A step that leaves the bootstraps, the state and the phase alone and loses no
\* start that is awaited.
LEMMA WaitQuiet ==
    ASSUME WaitInv, UNCHANGED <<boot, boots, ds, phase>>, Awaited => Awaited'
    PROVE  WaitInv'
  BY DEF WaitInv, Undecided, Early

\* A bootstrap begins, on a state that is initialising.
LEMMA BeginsWait ==
    ASSUME TypeOK, WaitInv, NEW p \in Presets, start_delivery_bootstrap(p),
           phase \in {"installed", "up"}, ds'.starting = ds.starting,
           UNCHANGED <<pending, startedQ, bridge, listens>>
    PROVE  WaitInv'
<1>0. PICK n \in Boots : n = boots + 1
  BY BoundsAssumption DEF TypeOK, start_delivery_bootstrap, Boots
<1>1. /\ boot'[n].step = "createNode" /\ \A c \in Boots \ {n} : boot'[c] = boot[c]
      /\ boot[n].step = "none" /\ boots' = n
  BY <1>0 DEF TypeOK, Boots, start_delivery_bootstrap, WaitInv
<1>2. \A b \in Boots : b > boots' => boot'[b].step = "none"
  BY <1>0, <1>1 DEF TypeOK, Boots, WaitInv
<1>3. Early(n)' /\ \A b \in Boots : Undecided(b) => Undecided(b)'
  BY <1>1 DEF Early, Undecided
<1>4. Awaited => Awaited'
  BY DEF Awaited, Deaf
<1> QED
  BY <1>2, <1>3, <1>4 DEF WaitInv

LEMMA CallerWait == TypeOK /\ WaitInv /\ Caller => WaitInv'
<1> SUFFICES ASSUME TypeOK, WaitInv, Caller PROVE WaitInv'
  OBVIOUS
<1> USE DEF bridgeVars, nodeVars
<1>1. ASSUME NEW subs \in SUBSET Subscriptions, init_subscribe(subs) PROVE WaitInv'
  BY <1>1 DEF init_subscribe, WaitInv
<1>2. CASE init_seed
  BY <1>2 DEF init_seed, initialising, stopped, WaitInv
<1>3. ASSUME NEW p \in Presets, init_bootstrap(p) PROVE WaitInv'
  BY <1>3, BeginsWait DEF init_bootstrap
<1>4. ASSUME NEW p \in Presets, init_retry(p) PROVE WaitInv'
  <2>1. ds'.starting = ds.starting
    BY <1>4 DEF init_retry, set_delivery_state, TypeOK, DeliveryState
  <2> QED
    BY <1>4, <2>1, BeginsWait DEF init_retry
<1>5. CASE shutdown_stop
  BY <1>5 DEF shutdown_stop, WaitInv
<1>6. CASE shutdown_reset
  BY <1>6 DEF shutdown_reset, WaitInv
<1>7. ASSUME NEW t \in Topics, subscribe(t) PROVE WaitInv'
  BY <1>7, WaitQuiet DEF subscribe, moduleVars, Awaited, Deaf
<1> QED
  BY <1>1, <1>2, <1>3, <1>4, <1>5, <1>6, <1>7 DEF Caller

LEMMA CallbackWait ==
    ASSUME TypeOK, WaitInv, NEW b \in Boots, Callback(b)
    PROVE  WaitInv'
<1> USE DEF bridgeVars, nodeVars
<1>0. /\ ds \in DeliveryState /\ (Awaited => Awaited')
      /\ UNCHANGED <<phase, boots>>
  BY DEF TypeOK, Awaited, Deaf, Callback, create_node_ok, create_node_err,
     join_existing_node_ok, join_existing_node_err, start_node, start_node_ok, start_node_err
\* A bootstrap that has not come to start goes on to another call before it.
<1>1. ASSUME NEW step \in {"getNodeInfo", "start_node"}, Waits(b, step), Early(b),
             ds'.starting = ds.starting, ds'.state = ds.state
      PROVE  WaitInv'
  <2>1. /\ boot'[b].step = step /\ boot[b].step # "none"
        /\ \A c \in Boots \ {b} : boot'[c] = boot[c]
    BY <1>1, BootAfter DEF Early
  <2>2. Early(b)' /\ \A c \in Boots : Undecided(c) => Undecided(c)'
    BY <1>1, <2>1 DEF Early, Undecided
  <2>3. \A c \in Boots : c > boots' => boot'[c].step = "none"
    BY <1>0, <2>1 DEF WaitInv
  <2> QED
    BY <1>0, <1>1, <2>2, <2>3 DEF WaitInv
\* A bootstrap ends: with an error, or with an answer that decides nothing.
<1>2. ASSUME Waits(b, "done"), boot[b].step # "none",
             \/ ds'.state = "error" /\ (Early(b) \/ ~ds'.starting)
             \/ UNCHANGED ds /\ ~Early(b) /\ ~Undecided(b),
             ds'.starting => ds.starting
      PROVE  WaitInv'
  <2>1. boot'[b].step = "done" /\ \A c \in Boots \ {b} : boot'[c] = boot[c]
    BY <1>2, BootAfter
  <2>2. \A c \in Boots \ {b} : (Undecided(c) => Undecided(c)') /\ (Early(c) => Early(c)')
    BY <2>1 DEF Early, Undecided
  <2>3. Early(b) => ~Undecided(b)
    BY DEF Early, Undecided
  <2>4. \A c \in Boots : c > boots' => boot'[c].step = "none"
    BY <1>0, <1>2, <2>1 DEF WaitInv
  <2> QED
    BY <1>0, <1>2, <2>2, <2>3, <2>4 DEF WaitInv
<1>3. CASE create_node_ok(b)
  BY <1>1, <1>3 DEF create_node_ok, Answered, Early
<1>4. CASE create_node_err(b)
  BY <1>1, <1>4 DEF create_node_err, Answered, Early
<1>5. CASE join_existing_node_ok(b)
  <2>1. ds'.starting = ds.starting /\ ds'.state = ds.state
    BY <1>0, <1>5 DEF join_existing_node_ok, DeliveryState
  <2> QED
    BY <1>1, <1>5, <2>1 DEF join_existing_node_ok, Answered, Early
<1>6. CASE join_existing_node_err(b)
  <2>1. ds'.starting = ds.starting /\ ds'.state = "error"
    BY <1>0, <1>6 DEF join_existing_node_err, set_delivery_state, DeliveryState
  <2> QED
    BY <1>2, <1>6, <2>1 DEF join_existing_node_err, Answered, Early
<1>7. CASE start_node_ok(b)
  BY <1>2, <1>7 DEF start_node_ok, Answered, Early, Undecided
<1>8. CASE start_node_err(b)
  <2>1. ds'.starting = FALSE /\ ds'.state = "error"
    BY <1>0, <1>8 DEF start_node_err, set_delivery_state, DeliveryState
  <2> QED
    BY <1>2, <1>8, <2>1 DEF start_node_err, Answered
<1>9. CASE start_node(b)
  <2>1. /\ boot'[b].step = "start" /\ boot'[b].answer = "none" /\ boot[b].step # "none"
        /\ \A c \in Boots \ {b} : boot'[c] = boot[c]
    BY <1>9, BootAfter DEF start_node
  <2>2. Undecided(b)' /\ ds'.starting
    BY <1>0, <1>9, <2>1 DEF Undecided, start_node, waits_for_start, DeliveryState
  <2>3. \A c \in Boots : c > boots' => boot'[c].step = "none"
    BY <1>0, <2>1 DEF WaitInv
  <2> QED
    BY <2>2, <2>3 DEF WaitInv
<1> QED
  BY <1>3, <1>4, <1>5, <1>6, <1>7, <1>8, <1>9 DEF Callback

LEMMA BridgeWait == TypeOK /\ WaitInv /\ Bridge => WaitInv'
<1> SUFFICES ASSUME TypeOK, WaitInv, Bridge PROVE WaitInv'
  OBVIOUS
<1> USE DEF moduleVars, nodeVars, StepTo
<1>0. ds \in DeliveryState
  BY DEF TypeOK
<1>1. CASE bridge_recv
  BY <1>1, WaitQuiet DEF bridge_recv, Awaited, Deaf
<1>2. CASE bridge_node_started
  \* The report that is read ends the wait.
  <2>1. CASE ds.starting
    <3>1. ~ds'.starting /\ ds'.state # "initialising"
      BY <1>0, <1>2, <2>1 DEF bridge_node_started, record_node_started, DeliveryState
    <3> QED
      BY <1>2, <3>1 DEF bridge_node_started, WaitInv
  <2>2. CASE ~ds.starting
    BY <1>2, <2>2 DEF bridge_node_started, record_node_started, WaitInv, Early
  <2> QED
    BY <2>1, <2>2
<1>3. CASE bridge_started_drained
  BY <1>3, WaitQuiet DEF bridge_started_drained, Awaited, Deaf
<1>4. CASE bridge_connection
  <2>1. /\ ds'.starting = ds.starting
        /\ ds'.state = ds.state \/ ds'.state # "initialising"
    BY <1>0, <1>4 DEF bridge_connection, handle_connection_state, set_delivery_state,
       map_connection_status, DeliveryState
  <2>2. Awaited => Awaited'
    BY <1>4 DEF bridge_connection, Awaited, Deaf
  <2> QED
    BY <1>4, <2>1, <2>2 DEF bridge_connection, WaitInv, Undecided, Early
<1>5. CASE bridge_conn_drained
  BY <1>5, WaitQuiet DEF bridge_conn_drained, Awaited, Deaf
<1>6. CASE forward_subscriptions
  BY <1>6, WaitQuiet DEF forward_subscriptions, Awaited, Deaf
<1> QED
  BY <1>1, <1>2, <1>3, <1>4, <1>5, <1>6 DEF Bridge

\* A report goes into the channel, unless the bridge is deaf.
LEMMA ReportAwaited ==
    ASSUME TypeOK, NEW success \in BOOLEAN, ReportsStart(success), UNCHANGED <<bridge, listens>>
    PROVE  Awaited'
<1>1. CASE Deaf
  BY <1>1 DEF Deaf, Awaited
<1>2. CASE ~Deaf
  <2>1. startedQ' = Append(startedQ, success) /\ startedQ \in Seq(BOOLEAN)
    BY <1>2 DEF Deaf, ReportsStart, TypeOK
  <2>2. startedQ' # << >>
    BY <2>1
  <2> QED
    BY <2>2 DEF Awaited
<1> QED
  BY <1>1, <1>2

\* A start that delivery takes on is awaited.
LEMMA StartsAwaited ==
    ASSUME TypeOK, StartsNode, UNCHANGED <<bridge, listens>>
    PROVE  Awaited'
<1>1. CASE node = "created"
  BY <1>1 DEF StartsNode, TypeOK, Awaited
<1>2. CASE node # "created"
  BY <1>2, ReportAwaited DEF StartsNode
<1> QED
  BY <1>1, <1>2

LEMMA DeliveryWait ==
    ASSUME TypeOK, WaitInv, NEW b \in Boots, Serves(b)
    PROVE  WaitInv'
<1> USE DEF bridgeVars, nodeVars
<1>0. UNCHANGED <<boots, ds, phase>> /\ boot[b].step # "none"
  BY DEF Serves, delivery_creates, delivery_starts, delivery_refuses, delivery_informs, Asked
<1>1. ASSUME NEW answer \in {"ok", "err"}, Answer(b, answer), Awaited => Awaited',
             answer = "ok" /\ boot[b].step = "start" => Awaited'
      PROVE  WaitInv'
  <2>1. /\ boot'[b].step = boot[b].step /\ boot'[b].answer = answer
        /\ \A c \in Boots \ {b} : boot'[c] = boot[c]
    BY <1>1, BootAfter
  <2>2. \A c \in Boots : /\ Early(c) => Early(c)'
                         /\ Undecided(c) => Undecided(c)' \/ Awaited'
    BY <1>1, <2>1 DEF Early, Undecided
  <2>3. \A c \in Boots : c > boots' => boot'[c].step = "none"
    BY <1>0, <2>1 DEF WaitInv
  <2> QED
    BY <1>0, <1>1, <2>2, <2>3 DEF WaitInv
<1>2. CarriedOut(b) => \E answer \in {"ok", "err"} : Answer(b, answer)
  BY DEF CarriedOut
<1>3. CASE delivery_creates(b)
  BY <1>1, <1>2, <1>3 DEF delivery_creates, Asked, Awaited, Deaf
<1>4. CASE delivery_starts(b)
  BY <1>1, <1>2, <1>4, StartsAwaited DEF delivery_starts
<1>5. CASE delivery_refuses(b)
  BY <1>1, <1>5 DEF delivery_refuses, Awaited, Deaf
<1>6. CASE delivery_informs(b)
  BY <1>1, <1>2, <1>6 DEF delivery_informs, Asked, Awaited, Deaf
<1> QED
  BY <1>3, <1>4, <1>5, <1>6 DEF Serves

LEMMA NodeWait == TypeOK /\ WaitInv /\ (Starting \/ World) => WaitInv'
<1> SUFFICES ASSUME TypeOK, WaitInv, Starting \/ World PROVE WaitInv'
  OBVIOUS
<1> USE DEF moduleVars, bridgeVars
<1>1. ASSUME NEW success \in BOOLEAN, node_started(success) PROVE WaitInv'
  BY <1>1, ReportAwaited, WaitQuiet DEF node_started
<1>2. ASSUME NEW status \in Statuses, connection_changes(status) PROVE WaitInv'
  BY <1>2, WaitQuiet DEF connection_changes, Awaited, Deaf
<1>3. ASSUME NEW sub \in Cuttable, disconnects(sub) PROVE WaitInv'
  BY <1>3, WaitQuiet DEF disconnects, nodeVars, Awaited, Deaf
<1>4. CASE other_creates
  BY <1>4, WaitQuiet DEF other_creates, Awaited, Deaf
<1>5. CASE other_starts
  BY <1>5, StartsAwaited, WaitQuiet DEF other_starts
<1> QED
  BY <1>1, <1>2, <1>3, <1>4, <1>5 DEF Starting, World

LEMMA NextWait == TypeOK /\ WaitInv /\ [Next]_vars => WaitInv'
<1>1. WaitInv /\ UNCHANGED vars => WaitInv'
  BY WaitQuiet DEF vars, Awaited, Deaf
<1> QED
  BY <1>1, CallerWait, CallbackWait, BridgeWait, DeliveryWait, NodeWait DEF Next

LEMMA InitWait == Init => WaitInv
  BY DEF Init, WaitInv, stopped

\* An init or a retry that has not settled always has something to come: a call
\* or an answer of a bootstrap, a start under way, or a report the bridge has not
\* read, whatever other consumers, failed starts, lost answers and the callbacks
\* of older bootstraps do, unless the bridge has gone deaf.
THEOREM InitIsNeverStranded == Spec => []NeverStranded
<1>1. WaitInv => NeverStranded
  BY DEF WaitInv, NeverStranded, Awaited, Undecided, Early, AnyOutstanding, Outstanding
<1> QED
  BY InitWait, NextWait, <1>1, TypeCorrect, PTL DEF Spec
=============================================================================
