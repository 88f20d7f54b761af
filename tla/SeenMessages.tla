---------------------------- MODULE SeenMessages ----------------------------
(***************************************************************************)
(* The bridge's way from delivery_module's messageReceived to the client:  *)
(* the topic filter and the memory of recently forwarded hashes, a set for *)
(* the lookup and a queue of the same hashes for the eviction.  One thread *)
(* (run_bridge) runs it, so a message is one step.                         *)
(*                                                                         *)
(* A message is its hash; its payload is opaque.  The topic is the fact    *)
(* whether it starts with TOPIC_PREFIX.  delivery_module may deliver any   *)
(* message any number of times, in any order.                              *)
(***************************************************************************)
EXTENDS Naturals, Sequences

CONSTANTS
    Hashes,         \* message hashes
    ChatHashes,     \* those of messages under chat's topic prefix
    Capacity,       \* SEEN_CAPACITY
    MaxForwarded    \* bound: messages handed to the client

ASSUME HashesAssumption == ChatHashes \subseteq Hashes
ASSUME CapacityAssumption == Capacity \in Nat \ {0}
ASSUME BoundAssumption == MaxForwarded \in Nat

VARIABLES
    hashes, order,  \* SeenMessages
    forwarded,      \* the hashes of the payloads sent to the client, in order
    arrived         \* history: hashes of the chat messages delivered so far

vars == <<hashes, order, forwarded, arrived>>

Init == hashes = {} /\ order = << >> /\ forwarded = << >> /\ arrived = {}

\* forward_message's filter: other traffic of the shard is dropped.
AnyTopic(h) == TRUE                         \* mutant: the filter is missing
is_chat_topic(h) == h \in ChatHashes

\* The bound after which the oldest hash makes room.
FullTooEarly == Len(order) + 1 = Capacity   \* mutant: off by one
full == Len(order) = Capacity

\* The hashes kept when room is made.
ForgetsNothing == hashes                    \* mutant: `hashes' keeps the oldest
kept == IF full THEN hashes \ {Head(order)} ELSE hashes

\* SeenMessages::first_sighting: whether the hash is new, and what is kept.
RefusedWhenFull(h) == h \notin hashes /\ ~full  \* mutant: no eviction, no entry
first_sighting(h) == h \notin hashes

remember(h) ==
    /\ hashes' = kept \cup {h}
    /\ order' = Append(IF full THEN Tail(order) ELSE order, h)

\* forward_message: a message of another topic is ignored, a repeat dropped, the
\* payload of a new one sent to the client's inbound channel.
forward_message(h) ==
    /\ Len(forwarded) < MaxForwarded
    /\ is_chat_topic(h)
    /\ arrived' = arrived \cup {h}
    /\ IF first_sighting(h)
       THEN remember(h) /\ forwarded' = Append(forwarded, h)
       ELSE UNCHANGED <<hashes, order, forwarded>>

Next == \E h \in Hashes : forward_message(h)

Spec == Init /\ [][Next]_vars

-----------------------------------------------------------------------------
(***************************************************************************)
(* Properties                                                              *)
(***************************************************************************)
Elements(s) == {s[i] : i \in DOMAIN s}

\* The fields of SeenMessages and the client's channel hold hashes of chat
\* messages: no other traffic takes a place in the memory or reaches the client.
TypeOK ==
    /\ hashes \subseteq ChatHashes /\ order \in Seq(ChatHashes)
    /\ forwarded \in Seq(ChatHashes) /\ arrived \subseteq ChatHashes

\* The set and the queue of SeenMessages never drift apart: the same hashes, no
\* hash twice, at most SEEN_CAPACITY of them.
HashesAreOrder ==
    /\ hashes = Elements(order)
    /\ Len(order) <= Capacity
    /\ \A i, j \in DOMAIN order : order[i] = order[j] => i = j

\* A message delivery repeats reaches the client again only after SEEN_CAPACITY
\* others, or more, have been forwarded in between.
ForwardWindow ==
    \A i, j \in DOMAIN forwarded :
        i < j /\ forwarded[i] = forwarded[j] => j - i > Capacity

\* Remembering hashes never costs a message: every chat message delivered so
\* far has been forwarded, also at the moment an old hash is evicted.
NothingLost == arrived = Elements(forwarded)
=============================================================================
