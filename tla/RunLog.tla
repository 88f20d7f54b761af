------------------------------- MODULE RunLog -------------------------------
(***************************************************************************)
(* The log files of the module's runs in the instance directory: opening   *)
(* a run's file and pruning old runs at the first init of a process, the   *)
(* lines its threads append, rotation, the line the panic hook adds, and   *)
(* the processes that follow one another in the same directory.            *)
(*                                                                         *)
(* A file is named by its run's stamp and an ordinal: 0 is the announced   *)
(* `<stem>_<stamp>.log', k > 0 its rotation `<stem>_<stamp>.<k>.log'.  It  *)
(* holds the numbers of the records written to it, one entry for each line *)
(* of the record.  The lock of RunLog is held from the append to the end   *)
(* of a rotation; the process may die at any step in between.              *)
(*                                                                         *)
(* What a record says and whether its level is logged are left out, and so *)
(* is a subscriber that was already installed: its process logs panics     *)
(* only, which is one of the behaviours here.                              *)
(***************************************************************************)
EXTENDS Naturals, Sequences, FiniteSets

CONSTANTS
    Threads,        \* threads that raise tracing events or panic
    None,           \* no thread
    Absent,         \* no file of that name
    RotateAfter,    \* ROTATE_AFTER_LINES
    KeepRuns,       \* KEEP_RUNS
    ThreeDigits,    \* the last ordinal is_run_suffix recognises: 999
    MaxWeight,      \* bound: lines of one record
    ClockBack,      \* whether local time may go back between two runs
    MaxStamp,       \* bound: seconds in which a process may start
    MaxRuns,        \* bound: processes
    MaxRecords,     \* bound: records written
    MaxFaults       \* bound: failed file operations

Stamps == 1..MaxStamp
Records == 1..MaxRecords
Ordinals == 0..MaxRecords           \* one record rotates once at most
Content == Seq(Records) \cup {Absent}

ASSUME ThreadsAssumption == None \notin Threads
ASSUME AbsentAssumption == Absent \notin Seq(Records)
ASSUME BoundsAssumption ==
    /\ RotateAfter \in Nat \ {0} /\ KeepRuns \in Nat \ {0} /\ MaxWeight \in Nat \ {0}
    /\ ThreeDigits \in Nat /\ MaxStamp \in Nat /\ MaxRuns \in Nat
    /\ MaxRecords \in Nat /\ MaxFaults \in Nat /\ ClockBack \in BOOLEAN

VARIABLES
    files,              \* the instance directory
    \* the process and its OpenLog
    proc,               \* "down", "opening" (install_once runs) or "up"
    stamp,              \* its stamp
    file,               \* its file: "inert" for none, "unlinked" when it has no
                        \* name any more, else "named"
    handle,             \* the ordinal of the name a "named" file has now
    lines, rotations,   \* as in OpenLog
    lock,               \* the thread that holds RunLog's mutex
    pc,                 \* where each thread is
    dying,              \* threads that run the panic hook
    \* counters of the bounds
    next, faults, runs,
    \* history, read by properties only
    opened,             \* per stamp, the process that opened it last, 0 for none
    written,            \* per stamp, the records its writes accepted
    shared,             \* stamps a second process opened
    reused,             \* those of them that had rotations by then
    hampered,           \* stamps a rotation of which failed
    missed              \* runs of which the process's prune left a file unread or
                        \* could not remove it

openLog == <<stamp, file, handle, lines, rotations>>
threads == <<lock, pc, dying>>
counters == <<next, faults, runs>>
history == <<opened, written, shared, reused, hampered, missed>>
vars == <<files, proc, stamp, file, handle, lines, rotations, lock, pc, dying,
          next, faults, runs, opened, written, shared, reused, hampered, missed>>

Init ==
    /\ files = [s \in Stamps |-> [o \in Ordinals |-> Absent]]
    /\ proc = "down" /\ stamp = 0 /\ file = "inert" /\ handle = 0
    /\ lines = 0 /\ rotations = 0
    /\ lock = None /\ pc = [t \in Threads |-> "idle"] /\ dying = {}
    /\ next = 1 /\ faults = 0 /\ runs = 0
    /\ opened = [s \in Stamps |-> 0] /\ written = [s \in Stamps |-> {}]
    /\ shared = {} /\ reused = {} /\ hampered = {} /\ missed = {}

\* A file operation that fails.
Fails == faults < MaxFaults /\ faults' = faults + 1
Works == UNCHANGED faults

Exists(s, o) == files[s][o] # Absent
Elements(q) == {q[i] : i \in DOMAIN q}

-----------------------------------------------------------------------------
(***************************************************************************)
(* install_once, at the first init of a process                            *)
(***************************************************************************)

\* The stamp is local time to the second.
now(s) == ClockBack \/ \A r \in Stamps : opened[r] # 0 => r <= s

\* RunLog::open up to the prune: the file is opened for appending, and created
\* if it is not there.
open_file(s) ==
    /\ proc = "down" /\ runs < MaxRuns
    /\ now(s)
    /\ runs' = runs + 1
    /\ proc' = "opening"
    /\ stamp' = s /\ file' = "named" /\ handle' = 0 /\ lines' = 0 /\ rotations' = 0
    /\ files' = IF Exists(s, 0) THEN files ELSE [files EXCEPT ![s][0] = << >>]
    /\ opened' = [opened EXCEPT ![s] = runs + 1]
    /\ shared' = IF opened[s] # 0 THEN shared \cup {s} ELSE shared
    /\ reused' = IF \E o \in Ordinals \ {0} : Exists(s, o) THEN reused \cup {s} ELSE reused
    /\ missed' = {}
    /\ UNCHANGED <<threads, next, faults, written, hampered>>

\* There is no directory, or the file cannot be opened: the log is inert for
\* the rest of the process.
open_fails ==
    /\ proc = "down" /\ runs < MaxRuns
    /\ Fails
    /\ runs' = runs + 1
    /\ proc' = "up"
    /\ stamp' = 0 /\ file' = "inert" /\ handle' = 0 /\ lines' = 0 /\ rotations' = 0
    /\ UNCHANGED <<files, threads, next, history>>

\* stamp_of and is_run_suffix: the announced name, or three digits before `.log'.
OnlyAnnounced(o) == o = 0           \* mutant: rotations carry no stamp
is_run_suffix(o) == o <= ThreeDigits

RunFiles == {f \in Stamps \X Ordinals : is_run_suffix(f[2]) /\ Exists(f[1], f[2])}
StampsOf(fs) == {s \in Stamps : \E o \in Ordinals : <<s, o>> \in fs}

\* The front of the sorted map of the runs seen: all but the newest KEEP_RUNS.
excess(s, seen) == Cardinality({r \in seen : r > s}) >= KeepRuns

\* prune_runs, after the open.  The directory is listed once: read_dir may fail,
\* and an error while it is read ends the listing, so that one fault hides any of
\* the files.  Each removal may fail on its own and is not retried.
prune_runs ==
    /\ proc = "opening"
    /\ \E listed \in SUBSET RunFiles :
        \E stuck \in SUBSET {f \in listed : excess(f[1], StampsOf(listed))} :
            /\ faults' = faults + Cardinality(stuck) + (IF listed = RunFiles THEN 0 ELSE 1)
            /\ faults' <= MaxFaults
            /\ files' = [s \in Stamps |-> [o \in Ordinals |->
                    IF <<s, o>> \in listed \ stuck /\ excess(s, StampsOf(listed))
                    THEN Absent ELSE files[s][o]]]
            /\ missed' = StampsOf((RunFiles \ listed) \cup stuck)
    /\ file' = IF files'[stamp][0] = Absent THEN "unlinked" ELSE "named"
    /\ proc' = "up"
    /\ UNCHANGED <<stamp, handle, lines, rotations, threads, next, runs,
                   opened, written, shared, reused, hampered>>

-----------------------------------------------------------------------------
(***************************************************************************)
(* OpenLog::append and OpenLog::rotate, under the lock of RunLog           *)
(***************************************************************************)
At(t, label) == proc = "up" /\ pc[t] = label
Goto(t, label) == pc' = [pc EXCEPT ![t] = label]

\* The write is over: the lock is released, and a dying thread goes on to abort.
Done(t) == lock' = None /\ Goto(t, IF t \in dying THEN "abort" ELSE "idle")

\* Whether the bound leaves room for a record.
Room == next <= MaxRecords

\* The mutex of RunLog can be taken.
NoMutex == TRUE                     \* mutant: the file is not guarded
unlocked == lock = None

\* An event reaches the subscriber: RunLog::write takes the lock.
write(t) ==
    /\ At(t, "idle") /\ file # "inert" /\ unlocked /\ Room
    /\ lock' = t
    /\ Goto(t, "append")
    /\ UNCHANGED <<files, proc, openLog, dying, counters, history>>

\* Whether the file is full, with the record's w lines counted.
CountedLater(w) == lines >= RotateAfter     \* mutant: compared before the record counts
full(w) == lines + w >= RotateAfter

\* write_all, then the count.  A full file is moved aside, which spends the
\* budget and the ordinal before it is tried.
append(t, w) ==
    /\ At(t, "append")
    /\ next' = next + 1
    /\ files' = IF file = "unlinked" THEN files
                ELSE [files EXCEPT ![stamp][handle] = @ \o [i \in 1..w |-> next]]
    /\ written' = [written EXCEPT ![stamp] = @ \cup {next}]
    /\ IF full(w)
       THEN lines' = 0 /\ rotations' = rotations + 1 /\ Goto(t, "rename") /\ UNCHANGED lock
       ELSE lines' = lines + w /\ UNCHANGED rotations /\ Done(t)
    /\ UNCHANGED <<proc, stamp, file, handle, dying, faults, runs, opened, shared, reused,
                   hampered, missed>>

append_fails(t) ==
    /\ At(t, "append")
    /\ Fails
    /\ Done(t)
    /\ UNCHANGED <<files, proc, openLog, dying, next, runs, history>>

\* fs::rename of the announced name to the next ordinal's, over whatever has
\* that name; an open file goes with its name.
OrdinalKept == 1                    \* mutant: the ordinal does not advance
aside == rotations

rename(t) ==
    /\ At(t, "rename") /\ Exists(stamp, 0)
    /\ files' = [files EXCEPT ![stamp][aside] = files[stamp][0], ![stamp][0] = Absent]
    /\ handle' = IF handle = 0 THEN aside ELSE handle
    /\ Goto(t, "create")
    /\ UNCHANGED <<proc, stamp, file, lines, rotations, lock, dying, counters, history>>

\* It fails by itself, or because the announced name is gone.
rename_fails(t) ==
    /\ At(t, "rename")
    /\ IF Exists(stamp, 0) THEN Fails ELSE Works
    /\ Done(t)
    /\ hampered' = hampered \cup {stamp}
    /\ UNCHANGED <<files, proc, openLog, dying, next, runs, opened, written, shared, reused, missed>>

\* File::create under the announced name.
create(t) ==
    /\ At(t, "create")
    /\ files' = [files EXCEPT ![stamp][0] = << >>]
    /\ handle' = 0
    /\ Done(t)
    /\ UNCHANGED <<proc, stamp, file, lines, rotations, dying, counters, history>>

\* `self.file' stays the one that was moved aside.
create_fails(t) ==
    /\ At(t, "create")
    /\ Fails
    /\ Done(t)
    /\ hampered' = hampered \cup {stamp}
    /\ UNCHANGED <<files, proc, openLog, dying, next, runs, opened, written, shared, reused, missed>>

-----------------------------------------------------------------------------
(***************************************************************************)
(* The panic hook, and the end of a process                                *)
(***************************************************************************)

\* A thread panics, also one that holds the lock: its guard is never dropped.
panics(t) ==
    /\ proc = "up" /\ t \notin dying
    /\ dying' = dying \cup {t}
    /\ Goto(t, "hook")
    /\ UNCHANGED <<files, proc, openLog, lock, counters, history>>

\* RunLog::write_stamped: try_lock, and a busy file costs the line.
WaitsForFile == unlocked            \* mutant: lock in place of try_lock
try_lock == TRUE

write_line(t) ==
    /\ At(t, "hook") /\ try_lock
    /\ IF unlocked /\ file # "inert" /\ Room
       THEN lock' = t /\ Goto(t, "append")
       ELSE UNCHANGED lock /\ Goto(t, "abort")
    /\ UNCHANGED <<files, proc, openLog, dying, counters, history>>

\* The process is gone; the directory stays.
Ends ==
    /\ proc' = "down" /\ stamp' = 0 /\ file' = "inert" /\ handle' = 0
    /\ lines' = 0 /\ rotations' = 0
    /\ lock' = None /\ pc' = [t \in Threads |-> "idle"] /\ dying' = {}
    /\ UNCHANGED <<files, counters, history>>

\* The previous hook returns: panic = "abort".
abort(t) == At(t, "abort") /\ Ends

\* The host ends the process, or it is killed.
exit == proc # "down" /\ Ends

-----------------------------------------------------------------------------
Continue(t) ==
    \/ \E w \in 1..MaxWeight : append(t, w)
    \/ append_fails(t)
    \/ rename(t) \/ rename_fails(t) \/ create(t) \/ create_fails(t)
    \/ write_line(t) \/ abort(t)

Opens == prune_runs \/ open_fails \/ \E s \in Stamps : open_file(s)

Next ==
    \/ Opens
    \/ \E t \in Threads : write(t) \/ panics(t) \/ Continue(t)
    \/ exit

Spec == Init /\ [][Next]_vars

\* A thread that is inside a call goes on; nobody has to log, panic or exit.
Fairness == \A t \in Threads : WF_vars(Continue(t))

LiveSpec == Spec /\ Fairness

-----------------------------------------------------------------------------
(***************************************************************************)
(* Properties                                                              *)
(***************************************************************************)

\* The directory, OpenLog and the threads are well formed; the lock belongs to
\* the thread inside append or rotate, or to one that panicked there.
TypeOK ==
    /\ files \in [Stamps -> [Ordinals -> Content]]
    /\ proc \in {"down", "opening", "up"} /\ stamp \in Stamps \cup {0}
    /\ file \in {"inert", "named", "unlinked"} /\ handle \in Ordinals
    /\ file # "inert" => stamp \in Stamps
    /\ file = "named" => Exists(stamp, handle)
    /\ lines \in Nat /\ rotations \in Ordinals
    /\ lock \in Threads \cup {None} /\ dying \subseteq Threads
    /\ pc \in [Threads -> {"idle", "append", "rename", "create", "hook", "abort"}]
    /\ \A t \in Threads : pc[t] \in {"append", "rename", "create"} => lock = t
    /\ \A t \in Threads : pc[t] = "append" => Room
    /\ next \in 1..(MaxRecords + 1) /\ faults \in 0..MaxFaults /\ runs \in 0..MaxRuns
    /\ opened \in [Stamps -> 0..MaxRuns] /\ written \in [Stamps -> SUBSET Records]
    /\ shared \subseteq Stamps /\ reused \subseteq shared /\ hampered \subseteq Stamps
    /\ missed \subseteq Stamps

\* The KEEP_RUNS runs opened last.
Recent(s) ==
    opened[s] # 0 /\ Cardinality({r \in Stamps : opened[r] > opened[s]}) < KeepRuns

\* The order in which the files of a run are read: its rotations by ordinal,
\* then the announced one.
Before(o, p) == o # 0 /\ (p = 0 \/ o < p)

\* "The ten most recent runs kept": the files of a recent run, read in turn,
\* give every record its writes accepted, in the order they were made, whatever
\* rotations failed and wherever the process died.  Excepted are runs whose
\* stamp, rotations and all, was taken by a second process.
RecentRunsReadBack ==
    \A s \in Stamps \ reused : Recent(s) =>
        /\ written[s] = UNION {Elements(files[s][o]) : o \in {q \in Ordinals : Exists(s, q)}}
        /\ \A o, p \in {q \in Ordinals : Exists(s, q)} :
            \A i \in DOMAIN files[s][o], j \in DOMAIN files[s][p] :
                Before(o, p) \/ (o = p /\ i < j) => files[s][o][i] <= files[s][p][j]

\* Nothing else sweeps the directory: once a process is up, announced files and
\* rotations of three digits belong to KEEP_RUNS runs at most, wherever earlier
\* processes died and whatever their prunes left.  Not counted are runs of which
\* this process's own prune missed a file, unread or not removed.
RunsBounded ==
    proc = "up" /\ file # "inert" =>
        Cardinality({s \in Stamps \ missed : \E o \in Ordinals : o <= ThreeDigits /\ Exists(s, o)})
            <= KeepRuns

\* A file ends with the record that fills it, also when that record has several
\* lines.  Excepted are runs that share their stamp or had a rotation fail.
FilesBounded ==
    \A s \in Stamps \ (shared \cup hampered), o \in Ordinals :
        Exists(s, o) => Len(files[s][o]) < RotateAfter + MaxWeight

\* The hook never hangs: a process in which a thread panicked ends, although
\* that thread may be the one holding the file.
PanicEnds == \A t \in Threads : pc[t] = "hook" ~> proc = "down"

\* "The announced path, and always the file being written" (OpenLog.path),
\* whenever nobody is in the middle of a rotation.
AnnouncedIsWritten ==
    proc = "up" /\ lock = None /\ file # "inert" => file = "named" /\ handle = 0
=============================================================================
