-------------------------- MODULE DeliveryBootstrap --------------------------
(***************************************************************************)
(* How the chat module joins delivery_module's node: the asynchronous      *)
(* bootstrap createNode -> (getNodeInfo) -> start, the delivery state it   *)
(* reports, the bridge worker that turns delivery's events into that state *)
(* and forwards the client's subscriptions, and init, retry and shutdown   *)
(* around them.                                                            *)
(*                                                                         *)
(* delivery_module is external.  It is one process-wide node that nobody   *)
(* stops, that other consumers may create and start too, that refuses a    *)
(* second createNode, and that reports every start to every subscriber.    *)
(*                                                                         *)
(* The host may disconnect a subscription of the bridge while the module   *)
(* is up.  The wording that accompanies a state (`detail') is left out.    *)
(* There is one thread that calls init and shutdown.                       *)
(***************************************************************************)
EXTENDS Naturals, Sequences

CONSTANTS
    Presets,        \* delivery presets init may be given
    Foreign,        \* the preset of a node another consumer created
    Statuses,       \* connectivity statuses delivery reports
    Topics,         \* content topics the client subscribes
    OwnTopics,      \* those it subscribes while it is built
    NoPreset,       \* OWN_NODE_PRESET is unset, or there is no node
    Cuttable,       \* subscriptions of the bridge the host may refuse or disconnect
    AnswersLost,    \* whether a call may fail after delivery has done it
    MaxSessions,    \* bound: inits
    MaxBoots,       \* bound: bootstraps, retries included
    MaxEvents,      \* bound: events waiting in a channel of the bridge
    MaxStarts       \* bound: starts of other consumers

Sessions == 0..MaxSessions
Boots == 1..MaxBoots

\* The event subscriptions the bridge reads.
Subscriptions == {"messageReceived", "nodeStarted", "connectionStateChanged"}

\* What a delivery_state_changed event carries.
DeliveryEvent == [state : {"initialising", "online", "error", "stopped"}, adopted : BOOLEAN]

\* module.rs, DeliveryState.
DeliveryState == [state : {"initialising", "online", "error", "stopped"},
                  starting : BOOLEAN, started : BOOLEAN, adopted : BOOLEAN]

\* One run of start_delivery_bootstrap: the call it waits for ("start_node" when a
\* callback is about to make the next one), delivery's answer, the preset and the
\* session it belongs to.
Bootstrap == [step : {"none", "createNode", "getNodeInfo", "start_node", "start", "done"},
              answer : {"none", "ok", "err"},
              preset : Presets \cup {NoPreset}, session : Sessions]

ASSUME PresetsAssumption == NoPreset \notin Presets /\ Foreign \notin Presets \cup {NoPreset}
ASSUME TopicsAssumption == OwnTopics \subseteq Topics
ASSUME CuttableAssumption == Cuttable \subseteq Subscriptions
ASSUME BoundsAssumption ==
    /\ MaxSessions \in Nat /\ MaxBoots \in Nat /\ MaxEvents \in Nat /\ MaxStarts \in Nat
    /\ AnswersLost \in BOOLEAN

VARIABLES
    \* the module
    ds,             \* Display.delivery_state
    told,           \* the last delivery_state_changed event
    phase,          \* init and shutdown: where the module is
    session,        \* number of the last init
    preset,         \* the preset that init, or its last retry, was given
    own,            \* OWN_NODE_PRESET
    boot, boots,    \* the bootstraps, and how many have begun
    \* the bridge worker
    bridge,         \* the next step of run_bridge's loop
    startedQ,       \* its nodeStarted subscription
    connQ,          \* its connectionStateChanged subscription
    listens,        \* its subscriptions that are connected
    subscribeQ,     \* topics the client queued
    subscribed, lost,   \* topics delivery accepted, topics it refused
    \* delivery_module
    node,           \* "absent", "created" or "running"
    nodePreset,     \* what the node was created with
    pending,        \* starts whose nodeStarted has not been reported
    foreignStarts,  \* starts other consumers have made
    link,           \* connectivity last reported since the node runs
    \* history, read by properties only
    overlap         \* since the display was seeded or reset, a bootstrap began beside
                    \* one that was not done, or such a one was left over then

moduleVars == <<ds, told, phase, session, preset, own, boot, boots, overlap>>
bridgeVars == <<bridge, startedQ, connQ, listens, subscribeQ, subscribed, lost>>
nodeVars   == <<node, nodePreset, pending, foreignStarts, link>>
vars       == <<ds, told, phase, session, preset, own, boot, boots, overlap,
                bridge, startedQ, connQ, listens, subscribeQ, subscribed, lost,
                node, nodePreset, pending, foreignStarts, link>>

stopped == [state |-> "stopped", starting |-> FALSE, started |-> FALSE, adopted |-> FALSE]
initialising == [stopped EXCEPT !.state = "initialising"]

Init ==
    /\ ds = stopped /\ told = [state |-> "stopped", adopted |-> FALSE] /\ phase = "down" /\ session = 0 /\ preset = NoPreset
    /\ own = NoPreset /\ boots = 0 /\ overlap = FALSE
    /\ boot = [b \in Boots |-> [step |-> "none", answer |-> "none",
                                preset |-> NoPreset, session |-> 0]]
    /\ bridge = "off" /\ startedQ = << >> /\ connQ = << >> /\ listens = {}
    /\ subscribeQ = {} /\ subscribed = {} /\ lost = {}
    /\ node = "absent" /\ nodePreset = NoPreset /\ pending = 0
    /\ foreignStarts = 0 /\ link = "unknown"

-----------------------------------------------------------------------------
(***************************************************************************)
(* init and shutdown                                                       *)
(***************************************************************************)

\* A bootstrap that has a call to make or waits for an answer.
Outstanding(b) == boot[b].step \notin {"none", "done"}
AnyOutstanding == \E b \in Boots : Outstanding(b)

\* initialize: the client is built, which queues its own topics, and delivery's
\* events are subscribed before any node is started; the bridge worker runs.
\* A failed subscription to connectionStateChanged is not fatal.
init_subscribe(subs) ==
    /\ phase = "down" /\ session < MaxSessions /\ boots < MaxBoots
    /\ session' = session + 1
    /\ phase' = "booting"
    /\ bridge' = "recv" /\ startedQ' = << >> /\ connQ' = << >>
    /\ Subscriptions \ subs \subseteq Cuttable \cap {"connectionStateChanged"}
    /\ listens' = subs
    /\ subscribeQ' = OwnTopics /\ subscribed' = {}
    /\ UNCHANGED <<ds, told, preset, own, boot, boots, overlap, lost, nodeVars>>

\* The end of initialize seeds the display and installs the state; no event.
init_seed ==
    /\ phase = "booting"
    /\ ds' = initialising
    /\ phase' = "installed"
    /\ overlap' = AnyOutstanding
    /\ UNCHANGED <<told, session, preset, own, boot, boots, bridgeVars, nodeVars>>

\* start_delivery_bootstrap dispatches createNode.
start_delivery_bootstrap(p) ==
    /\ boots < MaxBoots
    /\ boots' = boots + 1
    /\ boot' = [boot EXCEPT ![boots + 1] = [step |-> "createNode", answer |-> "none",
                                            preset |-> p, session |-> session]]
    /\ preset' = p
    /\ overlap' = (overlap \/ AnyOutstanding)

\* init, once the state is installed and the module lock released.
init_bootstrap(p) ==
    /\ phase = "installed"
    /\ phase' = "up"
    /\ start_delivery_bootstrap(p)
    /\ UNCHANGED <<ds, told, session, own, bridgeVars, nodeVars>>

\* set_delivery_state, and the event it emits unless state and detail stand.  An
\* error may follow an error with another detail.
set_delivery_state(d, state) == [d EXCEPT !.state = state]
EmittedBefore(d) == [state |-> ds.state, adopted |-> d.adopted] \* mutant: too early
emit_delivery_state_changed(d) == [state |-> d.state, adopted |-> d.adopted]
Tells(d) ==
    \/ /\ d.state # ds.state \/ d.state = "error"
       /\ told' = emit_delivery_state_changed(d)
    \/ /\ d.state = ds.state
       /\ UNCHANGED told

\* claim_delivery_retry: only a bootstrap that failed before the node started.
may_retry(d) == d.state = "error" /\ ~d.started

\* init on an installed module: bootstrap again, or ignore the call.
init_retry(p) ==
    /\ phase = "up" /\ may_retry(ds)
    /\ ds' = set_delivery_state(ds, "initialising")
    /\ Tells(ds')
    /\ start_delivery_bootstrap(p)
    /\ UNCHANGED <<phase, session, own, bridgeVars, nodeVars>>

\* shutdown takes the state and raises the bridge's stop flag ...
shutdown_stop ==
    /\ phase = "up"
    /\ phase' = "stopping"
    /\ UNCHANGED <<ds, told, session, preset, own, boot, boots, overlap, bridgeVars, nodeVars>>

\* ... and resets the display when the bridge has ended, without an event.  Calls
\* that delivery has not answered stay outstanding.
BridgeNotJoined == TRUE             \* mutant: the reset does not wait
bridge_joined == bridge = "off"

shutdown_reset ==
    /\ phase = "stopping" /\ bridge_joined
    /\ ds' = stopped
    /\ phase' = "down"
    /\ overlap' = AnyOutstanding
    /\ UNCHANGED <<told, session, preset, own, boot, boots, bridgeVars, nodeVars>>

-----------------------------------------------------------------------------
(***************************************************************************)
(* The bootstrap's callbacks, each on the answer of one call.              *)
(***************************************************************************)
Answered(b, step, answer) == boot[b].step = step /\ boot[b].answer = answer
Waits(b, step) == boot' = [boot EXCEPT ![b] = [@ EXCEPT !.step = step, !.answer = "none"]]

create_node_ok(b) ==
    /\ Answered(b, "createNode", "ok")
    /\ own' = boot[b].preset
    /\ Waits(b, "start_node")
    /\ UNCHANGED <<ds, told, phase, session, preset, boots, overlap, bridgeVars, nodeVars>>

\* A refusal asks whether there is a node.
create_node_err(b) ==
    /\ Answered(b, "createNode", "err")
    /\ Waits(b, "getNodeInfo")
    /\ UNCHANGED <<ds, told, phase, session, preset, own, boots, overlap, bridgeVars, nodeVars>>

\* Adopted unless this process created the node with the preset asked for.
AdoptedIfNotOurs(p) == own = NoPreset       \* mutant: the preset is not compared
adopts(p) == own # p

join_existing_node_ok(b) ==
    /\ Answered(b, "getNodeInfo", "ok")
    /\ ds' = [ds EXCEPT !.adopted = adopts(boot[b].preset)]
    /\ Waits(b, "start_node")
    /\ UNCHANGED <<told, phase, session, preset, own, boots, overlap, bridgeVars, nodeVars>>

join_existing_node_err(b) ==
    /\ Answered(b, "getNodeInfo", "err")
    /\ ds' = set_delivery_state(ds, "error")
    /\ Tells(ds')
    /\ Waits(b, "done")
    /\ UNCHANGED <<phase, session, preset, own, boots, overlap, bridgeVars, nodeVars>>

\* start_node, under a display lock of its own, notes that it waits before it
\* dispatches start, because a running node can report nodeStarted before start's
\* answer.
NotesNothing(d) == d                        \* mutant: the wait is never noted
waits_for_start(d) == [d EXCEPT !.starting = TRUE]

start_node(b) ==
    /\ boot[b].step = "start_node"
    /\ ds' = waits_for_start(ds)
    /\ Waits(b, "start")
    /\ UNCHANGED <<told, phase, session, preset, own, boots, overlap, bridgeVars, nodeVars>>

\* A start that was accepted is settled by nodeStarted, not by its answer.
start_node_ok(b) ==
    /\ Answered(b, "start", "ok")
    /\ Waits(b, "done")
    /\ UNCHANGED <<ds, told, phase, session, preset, own, boots, overlap, bridgeVars, nodeVars>>

start_node_err(b) ==
    /\ Answered(b, "start", "err")
    /\ ds' = set_delivery_state([ds EXCEPT !.starting = FALSE], "error")
    /\ Tells(ds')
    /\ Waits(b, "done")
    /\ UNCHANGED <<phase, session, preset, own, boots, overlap, bridgeVars, nodeVars>>

-----------------------------------------------------------------------------
(***************************************************************************)
(* run_bridge: one turn of its loop is recv, started, conn, topics.        *)
(***************************************************************************)
StepTo(label) == bridge' = label

\* The loop ends when the stop flag is up, and also when messageReceived is
\* disconnected and read to its end; drain only drops the other two.
NeverLeaves == FALSE                \* mutant: the stop flag is not looked at
leaves == phase = "stopping" \/ "messageReceived" \notin listens

\* The top of the loop: a received message (see SeenMessages) or the poll's
\* timeout goes on to the drains.  A worker that returns drops its channels.
bridge_recv ==
    /\ bridge = "recv"
    /\ IF leaves
       THEN StepTo("off") /\ startedQ' = << >> /\ connQ' = << >> /\ subscribeQ' = {}
       ELSE StepTo("started") /\ UNCHANGED <<startedQ, connQ, subscribeQ>>
    /\ UNCHANGED <<moduleVars, listens, subscribed, lost, nodeVars>>

\* record_node_started: ignored unless this module waits for a start.
FailureDropped(d, success) ==       \* mutant: a failed start is not recorded
    IF ~d.starting THEN d
    ELSE [d EXCEPT !.state = IF success THEN "online" ELSE @,
                   !.starting = FALSE, !.started = d.started \/ success]
record_node_started(d, success) ==
    IF ~d.starting THEN d
    ELSE [d EXCEPT !.state = IF success THEN "online" ELSE "error",
                   !.starting = FALSE, !.started = d.started \/ success]

bridge_node_started ==
    /\ bridge = "started" /\ startedQ # << >>
    /\ ds' = record_node_started(ds, Head(startedQ))
    /\ IF ds.starting THEN Tells(ds') ELSE UNCHANGED told
    /\ startedQ' = Tail(startedQ)
    /\ UNCHANGED <<phase, session, preset, own, boot, boots, overlap, bridge, connQ,
                   listens, subscribeQ, subscribed, lost, nodeVars>>

bridge_started_drained ==
    /\ bridge = "started" /\ startedQ = << >>
    /\ StepTo("conn")
    /\ UNCHANGED <<moduleVars, startedQ, connQ, listens, subscribeQ, subscribed,
                   lost, nodeVars>>

\* connection_transition and map_connection_status.
AlwaysApplies(d) == TRUE                    \* mutant: the `started' gate is gone
connection_applies(d) == d.started
map_connection_status(status) ==
    IF status \in {"Connected", "PartiallyConnected"} THEN "online" ELSE "error"
handle_connection_state(d, status) ==
    IF connection_applies(d) THEN set_delivery_state(d, map_connection_status(status)) ELSE d

bridge_connection ==
    /\ bridge = "conn" /\ connQ # << >>
    /\ ds' = handle_connection_state(ds, Head(connQ))
    /\ IF connection_applies(ds) THEN Tells(ds') ELSE UNCHANGED told
    /\ connQ' = Tail(connQ)
    /\ UNCHANGED <<phase, session, preset, own, boot, boots, overlap, bridge, startedQ,
                   listens, subscribeQ, subscribed, lost, nodeVars>>

bridge_conn_drained ==
    /\ bridge = "conn" /\ connQ = << >>
    /\ StepTo("topics")
    /\ UNCHANGED <<moduleVars, startedQ, connQ, listens, subscribeQ, subscribed,
                   lost, nodeVars>>

\* forward_subscriptions: every queued topic once delivery is online.  Delivery
\* refuses subscribe until its node is started, and a refusal is only logged.
GateOpen(d) == d.state # "stopped"          \* mutant: any initialised state will do
WhileStarting(d) == d.starting              \* mutant: the gate reads another flag
forwards(d) == d.state = "online"

forward_subscriptions ==
    /\ bridge = "topics"
    /\ StepTo("recv")
    /\ IF forwards(ds)
       THEN /\ subscribeQ' = {}
            /\ subscribed' = IF node = "running" THEN subscribed \cup subscribeQ ELSE subscribed
            /\ lost' = IF node = "running" THEN lost ELSE lost \cup subscribeQ
       ELSE UNCHANGED <<subscribeQ, subscribed, lost>>
    /\ UNCHANGED <<moduleVars, startedQ, connQ, listens, nodeVars>>

\* SdkPublisher::subscribe queues a topic the core asks for later on; it is an
\* error once the bridge has dropped the other end.
subscribe(t) ==
    /\ bridge # "off" /\ t \notin subscribed \cup subscribeQ
    /\ subscribeQ' = subscribeQ \cup {t}
    /\ UNCHANGED <<moduleVars, bridge, startedQ, connQ, listens, subscribed, lost, nodeVars>>

-----------------------------------------------------------------------------
(***************************************************************************)
(* delivery_module and its other consumers (external)                      *)
(***************************************************************************)
Asked(b, step) == boot[b].step = step /\ boot[b].answer = "none"
Answer(b, answer) == boot' = [boot EXCEPT ![b] = [@ EXCEPT !.answer = answer]]

\* The answer to a call delivery carried out: it may be lost on its way.
CarriedOut(b) == \E answer \in IF AnswersLost THEN {"ok", "err"} ELSE {"ok"} : Answer(b, answer)

\* nodeStarted goes to every subscriber there is.
ReportsStart(success) ==
    IF bridge = "off" \/ "nodeStarted" \notin listens THEN UNCHANGED startedQ
    ELSE Len(startedQ) < MaxEvents /\ startedQ' = Append(startedQ, success)

\* A start of a created node is accepted and reported later; one of a node that
\* already runs is reported at once.
StartsNode ==
    /\ node # "absent"
    /\ IF node = "created" THEN pending' = pending + 1 /\ UNCHANGED startedQ
       ELSE ReportsStart(TRUE) /\ UNCHANGED pending

delivery_creates(b) ==
    /\ Asked(b, "createNode") /\ node = "absent"
    /\ node' = "created" /\ nodePreset' = boot[b].preset
    /\ CarriedOut(b)
    /\ UNCHANGED <<ds, told, phase, session, preset, own, boots, overlap, bridgeVars,
                   pending, foreignStarts, link>>

delivery_starts(b) ==
    /\ Asked(b, "start")
    /\ StartsNode
    /\ CarriedOut(b)
    /\ UNCHANGED <<ds, told, phase, session, preset, own, boots, overlap, bridge, connQ,
                   listens, subscribeQ, subscribed, lost, node, nodePreset,
                   foreignStarts, link>>

\* A node that exists refuses createNode; any createNode or start may fail.
delivery_refuses(b) ==
    /\ Asked(b, "createNode") \/ Asked(b, "start")
    /\ Answer(b, "err")
    /\ UNCHANGED <<ds, told, phase, session, preset, own, boots, overlap, bridgeVars, nodeVars>>

\* getNodeInfo is answered only while a node exists.
delivery_informs(b) ==
    /\ Asked(b, "getNodeInfo")
    /\ \/ node # "absent" /\ CarriedOut(b)
       \/ node = "absent" /\ Answer(b, "err")
    /\ UNCHANGED <<ds, told, phase, session, preset, own, boots, overlap, bridgeVars, nodeVars>>

\* An accepted start ends: the node runs, or it does not.
node_started(success) ==
    /\ pending > 0
    /\ pending' = pending - 1
    /\ node' = IF success THEN "running" ELSE node
    /\ ReportsStart(success)
    /\ UNCHANGED <<moduleVars, bridge, connQ, listens, subscribeQ, subscribed, lost,
                   nodePreset, foreignStarts, link>>

\* Connectivity changes while the node is starting or running.
connection_changes(status) ==
    /\ pending > 0 \/ node = "running"
    /\ status # link
    /\ link' = IF node = "running" THEN status ELSE link
    /\ IF bridge # "off" /\ "connectionStateChanged" \in listens
       THEN Len(connQ) < MaxEvents /\ connQ' = Append(connQ, status)
       ELSE UNCHANGED connQ
    /\ UNCHANGED <<moduleVars, bridge, startedQ, listens, subscribeQ, subscribed, lost,
                   node, nodePreset, pending, foreignStarts>>

\* The host tears down a subscription: nothing more is put on its channel.
disconnects(sub) ==
    /\ bridge # "off" /\ sub \in listens
    /\ listens' = listens \ {sub}
    /\ UNCHANGED <<moduleVars, bridge, startedQ, connQ, subscribeQ, subscribed, lost, nodeVars>>

other_creates ==
    /\ node = "absent" /\ MaxStarts > 0
    /\ node' = "created" /\ nodePreset' = Foreign
    /\ UNCHANGED <<moduleVars, bridgeVars, pending, foreignStarts, link>>

other_starts ==
    /\ foreignStarts < MaxStarts
    /\ foreignStarts' = foreignStarts + 1
    /\ StartsNode
    /\ UNCHANGED <<moduleVars, bridge, connQ, listens, subscribeQ, subscribed, lost,
                   node, nodePreset, link>>

-----------------------------------------------------------------------------
Caller ==
    \/ \E subs \in SUBSET Subscriptions : init_subscribe(subs)
    \/ init_seed
    \/ \E p \in Presets : init_bootstrap(p) \/ init_retry(p)
    \/ shutdown_stop \/ shutdown_reset
    \/ \E t \in Topics : subscribe(t)

Callback(b) ==
    \/ create_node_ok(b) \/ create_node_err(b)
    \/ join_existing_node_ok(b) \/ join_existing_node_err(b)
    \/ start_node(b) \/ start_node_ok(b) \/ start_node_err(b)

Bridge ==
    \/ bridge_recv
    \/ bridge_node_started \/ bridge_started_drained
    \/ bridge_connection \/ bridge_conn_drained
    \/ forward_subscriptions

Serves(b) ==
    \/ delivery_creates(b) \/ delivery_starts(b)
    \/ delivery_refuses(b) \/ delivery_informs(b)

Starting == \E success \in BOOLEAN : node_started(success)

World ==
    \/ \E status \in Statuses : connection_changes(status)
    \/ \E sub \in Cuttable : disconnects(sub)
    \/ other_creates \/ other_starts

Next ==
    \/ Caller
    \/ \E b \in Boots : Callback(b) \/ Serves(b)
    \/ Bridge
    \/ Starting
    \/ World

Spec == Init /\ [][Next]_vars

\* The bridge and the callbacks are threads that run; delivery answers every
\* call (the SDK's timeout does at the latest) and reports every start it has
\* accepted.  A drain that finds its channel empty again and again sees it empty
\* in the end: delivery's events are rarer than the turns of a loop.  Nobody has
\* to call init, retry or shutdown; a shutdown under way goes on.
Fairness ==
    /\ WF_vars(Bridge)
    /\ SF_vars(bridge_started_drained) /\ SF_vars(bridge_conn_drained)
    /\ \A b \in Boots : WF_vars(Callback(b)) /\ WF_vars(Serves(b))
    /\ WF_vars(Starting)
    /\ WF_vars(init_seed) /\ WF_vars(\E p \in Presets : init_bootstrap(p))
    /\ WF_vars(shutdown_reset)

LiveSpec == Spec /\ Fairness

-----------------------------------------------------------------------------
(***************************************************************************)
(* Properties                                                              *)
(***************************************************************************)

\* The delivery state, the bootstraps, the bridge's channels and the node are
\* well formed (module.rs DeliveryState and DeliveryStateKind), and a module that
\* is down has no bridge worker.
TypeOK ==
    /\ ds \in DeliveryState /\ told \in DeliveryEvent
    /\ phase \in {"down", "booting", "installed", "up", "stopping"}
    /\ session \in Sessions /\ preset \in Presets \cup {NoPreset}
    /\ own \in Presets \cup {NoPreset}
    /\ boot \in [Boots -> Bootstrap] /\ boots \in 0..MaxBoots /\ overlap \in BOOLEAN
    /\ \A b \in Boots : boot[b].step # "none" => boot[b].preset \in Presets
    /\ bridge \in {"off", "recv", "started", "conn", "topics"}
    /\ phase = "down" => bridge = "off"
    /\ startedQ \in Seq(BOOLEAN) /\ connQ \in Seq(Statuses) /\ listens \subseteq Subscriptions
    /\ subscribeQ \subseteq Topics /\ subscribed \subseteq Topics /\ lost \subseteq Topics
    /\ node \in {"absent", "created", "running"}
    /\ nodePreset \in Presets \cup {NoPreset, Foreign}
    /\ pending \in Nat /\ foreignStarts \in 0..MaxStarts /\ link \in Statuses \cup {"unknown"}

\* "online" is reported only for a node that runs: connectivity reported in
\* mid-bootstrap, another consumer's failed start, a retry or a re-init never
\* make the module claim a transport that cannot service a call.
OnlineMeansRunning == ds.state = "online" => node = "running"

\* No subscription is handed to delivery while it would refuse it: the topic
\* has left the queue by then and is not asked for again.
TopicsNotLost == lost = {}

\* delivery_adopted tells the truth once delivery is online, in the status and
\* in the last event ("settled by the time the state reaches online"): FALSE
\* exactly for a node this process created with the preset of this init (or of
\* its retry), if no older bootstrap was still at work when the display was reset
\* or seeded or a bootstrap begun.
AdoptedHonest ==
    ds.state = "online" /\ ~overlap =>
        ds.adopted = (nodePreset # preset) /\ told.adopted = ds.adopted

\* Reaching "online" or "error" is learnt from an event: what an initialised
\* module has settled on is what its last delivery_state_changed said.
OutcomeTold == phase = "up" /\ ds.state # "initialising" => told.state = ds.state

\* After shutdown nothing looks up: no callback of an old bootstrap and no event
\* the bridge still held turns the reset state into a started, initialising or
\* online one.  (A late callback may leave `starting' or the state "error".)
NotUpWhenDown ==
    phase = "down" => ~ds.started /\ ds.state \notin {"online", "initialising"}

\* The bridge can no longer learn how a start ended.
Deaf == bridge = "off" \/ "nodeStarted" \notin listens

\* No init or retry waits for nothing: while the state is "initialising" a
\* bootstrap has a call to make or an answer to come, or it waits for nodeStarted
\* and a start is under way or its report is in the bridge's channel.  Failed
\* starts, other consumers' starts, lost answers and the callbacks of an older
\* bootstrap do not take the last of these away.  Excepted is a bridge that has
\* gone deaf.
NeverStranded ==
    phase = "up" /\ ds.state = "initialising" =>
        \/ AnyOutstanding
        \/ ds.starting /\ (pending > 0 \/ startedQ # << >> \/ Deaf)

\* "Once started, connectivity drives online/offline": when the bridge has
\* nothing left to read, the state shown is that of the last report since the
\* node runs.
ConnectivityTracked ==
    ds.started /\ phase = "up" /\ "connectionStateChanged" \in listens /\ link # "unknown" /\ bridge = "recv"
        /\ startedQ = << >> /\ connQ = << >>
    => ds.state = map_connection_status(link)

\* init's outcome is always reported: a module that is initialising becomes
\* online or reports an error, unless it is shut down or goes deaf first.
Settles ==
    (phase = "up" /\ ds.state = "initialising")
        ~> (phase # "up" \/ ds.state # "initialising" \/ Deaf)

\* A topic the client queued is subscribed while delivery stays online and the
\* bridge runs, whichever other subscription is lost.
TopicsForwarded ==
    \A t \in Topics :
        (phase = "up" /\ ds.state = "online" /\ t \in subscribeQ)
            ~> (t \in subscribed \/ phase # "up" \/ ds.state # "online" \/ bridge = "off")

\* shutdown's join of the bridge ends, wherever in its loop the worker is and
\* whether or not it has returned by itself.
ShutdownEnds == phase = "stopping" ~> phase = "down"
=============================================================================
