------------------------ MODULE ConversationArchive ------------------------
(***************************************************************************)
(* What the conversation list promises, without threads, locks, clients    *)
(* or queues: an archive on disk and a view of it while it is open.        *)
(*                                                                         *)
(* A message enters the view and the archive of its conversation once, at  *)
(* the end; a write to the archive may fail and is then not made up for,   *)
(* except for the row of a conversation; nothing but a delete removes      *)
(* anything from the archive, for good and all at once; closing, in order  *)
(* or by a crash, loses the view only, and opening shows the newest part   *)
(* of what the archive holds at that moment.                               *)
(*                                                                         *)
(* While the archive is open a view only grows, until the conversation is  *)
(* deleted, with one exception (Supersede): a conversation that is being   *)
(* created is shown empty when its create comes to its end, although       *)
(* messages may have been shown of it since the create began.  Those stay  *)
(* in the archive, and are shown again when it is next opened.             *)
(***************************************************************************)
EXTENDS Naturals, Sequences

CONSTANTS
    Convos,     \* conversations
    Msgs,       \* messages
    None,       \* a conversation the view does not list
    Loaded      \* how many messages of a conversation are shown on opening

VARIABLES
    kept,       \* conversations the archive has a row of
    log,        \* the messages it has of each, oldest first
    gone,       \* conversations deleted for good
    open,       \* whether the archive is open
    claimed,    \* conversations being created
    view        \* the messages listed of each conversation, or None

archive == <<kept, log, gone>>
vars == <<kept, log, gone, open, claimed, view>>

Init ==
    /\ kept = {} /\ log = [c \in Convos |-> << >>] /\ gone = {}
    /\ open = FALSE /\ claimed = {} /\ view = [c \in Convos |-> None]

Holds(q, m) == \E i \in DOMAIN q : q[i] = m
Fresh(m) == \A c \in Convos : ~Holds(log[c], m) /\ (view[c] = None \/ ~Holds(view[c], m))

Newest(q) == SubSeq(q, IF Len(q) > Loaded THEN Len(q) - Loaded + 1 ELSE 1, Len(q))

Open ==
    /\ ~open /\ open' = TRUE
    /\ view' = [c \in Convos |-> IF c \in kept THEN Newest(log[c]) ELSE None]
    /\ UNCHANGED <<archive, claimed>>

Close ==
    /\ open /\ open' = FALSE /\ claimed' = {}
    /\ view' = [c \in Convos |-> None]
    /\ UNCHANGED archive

\* A create has its conversation, which nobody has seen yet.
Claim(c) ==
    /\ open /\ c \notin kept \cup gone \cup claimed /\ view[c] = None
    /\ claimed' = claimed \cup {c}
    /\ UNCHANGED <<archive, open, view>>

\* A conversation is listed, empty, by its create or by an invitation.
Start(c) ==
    /\ open /\ c \notin gone /\ view[c] = None
    /\ view' = [view EXCEPT ![c] = << >>]
    /\ kept' \in {kept, kept \cup {c}}
    /\ claimed' \in {claimed, claimed \ {c}}
    /\ UNCHANGED <<log, gone, open>>

\* The exception: the create comes to its end after a message has listed its
\* conversation, and takes what has been shown of it out of the view.
Supersede(c) ==
    /\ open /\ c \in claimed \ gone /\ view[c] # None
    /\ view' = [view EXCEPT ![c] = << >>]
    /\ kept' \in {kept, kept \cup {c}}
    /\ claimed' = claimed \ {c}
    /\ UNCHANGED <<log, gone, open>>

\* A message is shown, and written with the row of a conversation it begins.
Record(c, m) ==
    /\ open /\ c \notin gone /\ Fresh(m)
    /\ view' = [view EXCEPT ![c] = Append(IF @ = None THEN << >> ELSE @, m)]
    /\ \/ UNCHANGED <<kept, log>>
       \/ /\ log' = [log EXCEPT ![c] = Append(@, m)]
          /\ kept' \in {kept, kept \cup {c}}
          /\ view[c] = None => c \in kept'
    /\ UNCHANGED <<gone, open, claimed>>

\* The row of a listed conversation is written again.
Save(c) ==
    /\ open /\ view[c] # None
    /\ kept' = kept \cup {c}
    /\ UNCHANGED <<log, gone, open, claimed, view>>

Delete(c) ==
    /\ open /\ view[c] # None
    /\ kept' = kept \ {c}
    /\ log' = [log EXCEPT ![c] = << >>]
    /\ gone' = gone \cup {c}
    /\ view' = [view EXCEPT ![c] = None]
    /\ UNCHANGED <<open, claimed>>

Next ==
    \/ Open \/ Close
    \/ \E c \in Convos :
        \/ Claim(c) \/ Start(c) \/ Supersede(c) \/ Save(c) \/ Delete(c)
        \/ \E m \in Msgs : Record(c, m)

Spec == Init /\ [][Next]_vars
=============================================================================
