---------------------------- MODULE RunLog_proofs ----------------------------
(***************************************************************************)
(* Proofs about RunLog, for any number of threads, runs, records and       *)
(* failed file operations: the directory and the threads are well formed,  *)
(* the files of a run and the runs of a directory are bounded, and when    *)
(* local time does not go back the recent runs read back complete and in   *)
(* order.                                                                  *)
(***************************************************************************)
EXTENDS RunLog, FiniteSetTheorems, SequenceTheorems, WellFoundedInduction, TLAPS

\* The parts of TypeOK.
DirOK == files \in [Stamps -> [Ordinals -> Content]]
LogOK ==
    /\ proc \in {"down", "opening", "up"} /\ stamp \in Stamps \cup {0}
    /\ file \in {"inert", "named", "unlinked"} /\ handle \in Ordinals
    /\ file # "inert" => stamp \in Stamps
    /\ lines \in Nat /\ rotations \in Ordinals
NamedOK == file = "named" => Exists(stamp, handle)
ThreadsOK ==
    /\ lock \in Threads \cup {None} /\ dying \subseteq Threads
    /\ pc \in [Threads -> {"idle", "append", "rename", "create", "hook", "abort"}]
    /\ \A t \in Threads : pc[t] \in {"append", "rename", "create"} => lock = t
    /\ \A t \in Threads : pc[t] = "append" => Room
CountOK == next \in 1..(MaxRecords + 1) /\ faults \in 0..MaxFaults /\ runs \in 0..MaxRuns
HistoryOK ==
    /\ opened \in [Stamps -> 0..MaxRuns] /\ written \in [Stamps -> SUBSET Records]
    /\ shared \subseteq Stamps /\ reused \subseteq shared /\ hampered \subseteq Stamps
    /\ missed \subseteq Stamps

LEMMA TypeParts ==
    TypeOK <=> DirOK /\ LogOK /\ NamedOK /\ ThreadsOK /\ CountOK /\ HistoryOK
  BY DEF TypeOK, DirOK, LogOK, NamedOK, ThreadsOK, CountOK, HistoryOK

\* TypeOK is not inductive.  Only a process that is up has threads at work, a
\* thread inside append or rotate has a file, and a rotation has spent its
\* ordinal and the budget of lines; only opened stamps have files.
Working == {"append", "rename", "create"}
StepsInv ==
    /\ proc # "up" => \A t \in Threads : pc[t] = "idle"
    /\ proc = "opening" => file = "named" /\ handle = 0
    /\ proc = "down" => file = "inert"
    /\ \A t \in Threads : pc[t] \in Working => file # "inert"
    /\ \A t \in Threads : pc[t] \in {"rename", "create"} => rotations # 0 /\ lines = 0
    /\ rotations < next
OpenedInv ==
    /\ \A s \in Stamps : opened[s] <= runs
    /\ \A s \in Stamps : \A o \in Ordinals : Exists(s, o) => opened[s] # 0
    /\ file # "inert" => opened[stamp] # 0
    /\ \A s \in Stamps : opened[s] = 0 => written[s] = {}
BaseInv == TypeOK /\ StepsInv /\ OpenedInv

-----------------------------------------------------------------------------
(***************************************************************************)
(* Files                                                                   *)
(***************************************************************************)
LEMMA OrdinalTypes == 0 \in Ordinals /\ Ordinals \subseteq Nat
  BY BoundsAssumption DEF Ordinals

LEMMA EmptyFile == << >> \in Content /\ << >> # Absent
<1>1. << >> \in Seq(Records)
  OBVIOUS
<1> QED
  BY <1>1, AbsentAssumption DEF Content

\* A record of w lines at the end of a file.
Lines(n, w) == [i \in 1..w |-> n]
Longer(long, q, n, w) ==
    /\ long \in Seq(Records) /\ long # Absent
    /\ Len(q) \in Nat /\ Len(long) = Len(q) + w
    /\ DOMAIN q = 1..Len(q) /\ DOMAIN long = 1..(Len(q) + w)
    /\ \A i \in DOMAIN long : long[i] = IF i \in DOMAIN q THEN q[i] ELSE n
    /\ Elements(long) = Elements(q) \cup {n}

LEMMA Lengthened ==
    ASSUME NEW q \in Seq(Records), NEW w \in 1..MaxWeight, NEW n \in Records
    PROVE  Longer(q \o Lines(n, w), q, n, w)
<1> DEFINE long == q \o Lines(n, w)
<1> DEFINE r == [i \in 1..w |-> n]
<1>0. long = q \o r
  BY DEF Lines
<1>1. w \in Nat /\ w > 0
  BY BoundsAssumption
<1>2. r \in Seq(Records)
  <2>1. r \in [1..w -> Records]
    OBVIOUS
  <2> QED
    BY <1>1, <2>1, SeqDef
<1>3. Len(r) = w
  BY <1>1, <1>2, LenProperties
<1>4. \A i \in 1..w : r[i] = n
  OBVIOUS
<1>5. /\ long \in Seq(Records) /\ Len(long) = Len(q) + w
      /\ \A i \in 1..(Len(q) + w) : long[i] = IF i <= Len(q) THEN q[i] ELSE r[i - Len(q)]
  BY <1>0, <1>2, <1>3, ConcatProperties
<1>6. Len(q) \in Nat /\ DOMAIN q = 1..Len(q) /\ DOMAIN long = 1..(Len(q) + w)
  BY <1>5, LenProperties
<1> HIDE DEF r, long
<1>7. ASSUME NEW i \in DOMAIN long PROVE long[i] = IF i \in DOMAIN q THEN q[i] ELSE n
  <2>1. CASE i <= Len(q)
    BY <1>5, <1>6, <2>1
  <2>2. CASE ~(i <= Len(q))
    <3>1. i - Len(q) \in 1..w /\ i \in 1..(Len(q) + w)
      BY <1>1, <1>6, <2>2
    <3>2. i \notin DOMAIN q /\ long[i] = r[i - Len(q)]
      BY <1>5, <1>6, <2>2, <3>1
    <3> QED
      BY <1>4, <3>1, <3>2
  <2> QED
    BY <2>1, <2>2
<1>8. Elements(long) = Elements(q) \cup {n}
  <2>1. DOMAIN q \subseteq DOMAIN long /\ Len(q) + 1 \in DOMAIN long \ DOMAIN q
    BY <1>1, <1>6
  <2> QED
    BY <1>7, <2>1 DEF Elements
<1> QED
  <2>1. Longer(long, q, n, w)
    BY <1>5, <1>6, <1>7, <1>8, AbsentAssumption DEF Longer
  <2> QED
    BY <2>1 DEF long

\* The announced file of stamp s is moved to ordinal a.
LEMMA MoveFile ==
    ASSUME DirOK, NEW s \in Stamps, NEW a \in Ordinals \ {0},
           files' = [files EXCEPT ![s][a] = files[s][0], ![s][0] = Absent]
    PROVE  /\ DirOK' /\ files'[s][a] = files[s][0] /\ files'[s][0] = Absent
           /\ \A r \in Stamps : \A p \in Ordinals :
                r # s \/ p \notin {0, a} => files'[r][p] = files[r][p]
<1>1. 0 \in Ordinals /\ Absent \in Content /\ files[s][0] \in Content
  BY OrdinalTypes DEF DirOK, Content
<1> DEFINE moved == [files EXCEPT ![s][a] = files[s][0]]
<1>2. moved \in [Stamps -> [Ordinals -> Content]] /\ moved[s][a] = files[s][0]
  BY <1>1 DEF DirOK
<1>3. \A r \in Stamps : \A p \in Ordinals : r # s \/ p # a => moved[r][p] = files[r][p]
  BY <1>1 DEF DirOK
<1>4. files' = [moved EXCEPT ![s][0] = Absent]
  OBVIOUS
<1> HIDE DEF moved
<1>5. /\ files' \in [Stamps -> [Ordinals -> Content]] /\ files'[s][0] = Absent
      /\ \A r \in Stamps : \A p \in Ordinals : r # s \/ p # 0 => files'[r][p] = moved[r][p]
  BY <1>1, <1>2, <1>4
<1> QED
  BY <1>2, <1>3, <1>5 DEF DirOK

\* The steps that change the directory.
LEMMA FileSteps ==
    ASSUME [Next]_vars
    PROVE  \/ UNCHANGED files
           \/ prune_runs
           \/ \E s \in Stamps : open_file(s)
           \/ \E t \in Threads : \/ \E w \in 1..MaxWeight : append(t, w)
                                 \/ rename(t) \/ create(t)
<1> USE DEF openLog, threads, counters, history
<1>1. open_fails \/ exit => UNCHANGED files
  BY DEF open_fails, exit, Ends
<1>2. ASSUME NEW t \in Threads,
             \/ write(t) \/ panics(t) \/ append_fails(t) \/ rename_fails(t) \/ create_fails(t)
             \/ write_line(t) \/ abort(t)
      PROVE  UNCHANGED files
  BY <1>2 DEF write, panics, append_fails, rename_fails, create_fails, write_line, abort, Ends
<1>3. UNCHANGED vars => UNCHANGED files
  BY DEF vars
<1> QED
  BY <1>1, <1>2, <1>3 DEF Next, Opens, Continue
LEMMA BaseParts ==
    ASSUME BaseInv
    PROVE  /\ DirOK /\ LogOK /\ NamedOK /\ ThreadsOK /\ CountOK /\ HistoryOK
           /\ StepsInv /\ OpenedInv
  BY TypeParts DEF BaseInv

\* What each of these steps does to the directory.
LEMMA OpenEffect ==
    ASSUME DirOK, NEW s \in Stamps, open_file(s)
    PROVE  /\ DirOK'
           /\ files'[s][0] = (IF Exists(s, 0) THEN files[s][0] ELSE << >>) /\ Exists(s, 0)'
           /\ \A r \in Stamps : \A p \in Ordinals :
                r # s \/ p # 0 => files'[r][p] = files[r][p]
<1>1. << >> \in Content /\ << >> # Absent /\ 0 \in Ordinals
  BY EmptyFile, OrdinalTypes
<1>2. CASE Exists(s, 0)
  BY <1>2 DEF open_file, DirOK, Exists
<1>3. CASE ~Exists(s, 0)
  <2>1. files' = [files EXCEPT ![s][0] = << >>]
    BY <1>3 DEF open_file
  <2> QED
    BY <1>1, <1>3, <2>1 DEF DirOK, Exists
<1> QED
  BY <1>2, <1>3

LEMMA AppendEffect ==
    ASSUME BaseInv, NEW t \in Threads, NEW w \in 1..MaxWeight, append(t, w)
    PROVE  /\ next \in Records /\ stamp \in Stamps /\ DirOK' /\ lock = t
           /\ \/ file = "unlinked" /\ files' = files
              \/ /\ file = "named" /\ files[stamp][handle] \in Seq(Records)
                 /\ files'[stamp][handle] = files[stamp][handle] \o Lines(next, w)
                 /\ \A r \in Stamps : \A p \in Ordinals :
                        r # stamp \/ p # handle => files'[r][p] = files[r][p]
<1>0. DirOK /\ LogOK /\ NamedOK /\ ThreadsOK /\ CountOK /\ StepsInv
  BY BaseParts
<1>1. pc[t] = "append" /\ file # "inert"
  BY <1>0 DEF append, At, StepsInv, Working
<1>2. next \in Records /\ stamp \in Stamps /\ lock = t
  BY <1>0, <1>1, BoundsAssumption DEF ThreadsOK, Room, CountOK, LogOK, Records
<1>3. CASE file = "unlinked"
  BY <1>0, <1>2, <1>3 DEF append, DirOK
<1>4. CASE file = "named"
  <2>1. handle \in Ordinals /\ files[stamp][handle] \in Seq(Records)
    BY <1>0, <1>2, <1>4 DEF LogOK, NamedOK, Exists, DirOK, Content
  <2> DEFINE long == files[stamp][handle] \o Lines(next, w)
  <2>2. long \in Content
    BY <1>2, <2>1, Lengthened DEF Longer, Content
  <2>3. files' = [files EXCEPT ![stamp][handle] = long]
    BY <1>4 DEF append, Lines
  <2> HIDE DEF long
  <2>4. /\ DirOK' /\ files'[stamp][handle] = long
        /\ \A r \in Stamps : \A p \in Ordinals :
             r # stamp \/ p # handle => files'[r][p] = files[r][p]
    BY <1>0, <1>2, <2>1, <2>2, <2>3 DEF DirOK
  <2> QED
    BY <1>2, <1>4, <2>1, <2>4 DEF long
<1> QED
  BY <1>0, <1>1, <1>3, <1>4 DEF LogOK

LEMMA RenameEffect ==
    ASSUME BaseInv, NEW t \in Threads, rename(t)
    PROVE  /\ stamp \in Stamps /\ rotations \in Ordinals \ {0} /\ DirOK' /\ lock = t
           /\ Exists(stamp, 0) /\ files[stamp][0] \in Seq(Records)
           /\ files'[stamp][rotations] = files[stamp][0] /\ files'[stamp][0] = Absent
           /\ \A r \in Stamps : \A p \in Ordinals :
                r # stamp \/ p \notin {0, rotations} => files'[r][p] = files[r][p]
<1>0. DirOK /\ LogOK /\ ThreadsOK /\ StepsInv
  BY BaseParts
<1>1. pc[t] = "rename" /\ file # "inert" /\ Exists(stamp, 0)
  BY <1>0 DEF rename, At, StepsInv, Working
<1>2. stamp \in Stamps /\ rotations \in Ordinals \ {0} /\ lock = t
  BY <1>0, <1>1 DEF ThreadsOK, LogOK, StepsInv
<1>3. files' = [files EXCEPT ![stamp][rotations] = files[stamp][0], ![stamp][0] = Absent]
  BY DEF rename, aside
<1>4. files[stamp][0] \in Seq(Records)
  BY <1>0, <1>1, <1>2, OrdinalTypes DEF DirOK, Content, Exists
<1> QED
  BY <1>0, <1>1, <1>2, <1>3, <1>4, MoveFile

LEMMA CreateEffect ==
    ASSUME BaseInv, NEW t \in Threads, create(t)
    PROVE  /\ stamp \in Stamps /\ DirOK' /\ lock = t
           /\ files'[stamp][0] = << >> /\ << >> # Absent
           /\ \A r \in Stamps : \A p \in Ordinals :
                r # stamp \/ p # 0 => files'[r][p] = files[r][p]
<1>0. DirOK /\ LogOK /\ ThreadsOK /\ StepsInv
  BY BaseParts
<1>1. pc[t] = "create" /\ file # "inert"
  BY <1>0 DEF create, At, StepsInv, Working
<1>2. stamp \in Stamps /\ lock = t
  BY <1>0, <1>1 DEF ThreadsOK, LogOK
<1>3. << >> \in Content /\ << >> # Absent /\ 0 \in Ordinals
  BY EmptyFile, OrdinalTypes
<1>4. files' = [files EXCEPT ![stamp][0] = << >>]
  BY DEF create
<1> QED
  BY <1>0, <1>2, <1>3, <1>4 DEF DirOK

\* A prune removes the listed files of runs in excess, all but those that are stuck.
LEMMA FilesFinite ==
    ASSUME NEW fs \in SUBSET RunFiles
    PROVE  IsFiniteSet(fs) /\ Cardinality(fs) \in Nat
<1>1. IsFiniteSet(Stamps) /\ IsFiniteSet(Ordinals)
  BY BoundsAssumption, FS_Interval DEF Stamps, Ordinals
<1>2. IsFiniteSet(Stamps \X Ordinals)
  BY <1>1, FS_Product
<1>3. fs \subseteq Stamps \X Ordinals
  BY DEF RunFiles
<1>4. IsFiniteSet(fs)
  BY <1>2, <1>3, FS_Subset
<1> QED
  BY <1>4, FS_CardinalityType

Removed(s, o, listed, stuck) == <<s, o>> \in listed \ stuck /\ excess(s, StampsOf(listed))

LEMMA PruneEffect ==
    ASSUME DirOK, prune_runs
    PROVE  \E listed \in SUBSET RunFiles, stuck \in SUBSET RunFiles :
           /\ DirOK' /\ faults' <= MaxFaults
           /\ faults' = faults + Cardinality(stuck) + (IF listed = RunFiles THEN 0 ELSE 1)
           /\ missed' = StampsOf((RunFiles \ listed) \cup stuck)
           /\ \A s \in Stamps : \A o \in Ordinals :
                files'[s][o] = IF Removed(s, o, listed, stuck) THEN Absent ELSE files[s][o]
<1>1. PICK listed \in SUBSET RunFiles :
        \E stuck \in SUBSET {f \in listed : excess(f[1], StampsOf(listed))} :
            /\ faults' = faults + Cardinality(stuck) + (IF listed = RunFiles THEN 0 ELSE 1)
            /\ faults' <= MaxFaults
            /\ files' = [s \in Stamps |-> [o \in Ordinals |->
                    IF <<s, o>> \in listed \ stuck /\ excess(s, StampsOf(listed))
                    THEN Absent ELSE files[s][o]]]
            /\ missed' = StampsOf((RunFiles \ listed) \cup stuck)
  BY Zenon DEF prune_runs
<1>2. PICK stuck \in SUBSET {f \in listed : excess(f[1], StampsOf(listed))} :
            /\ faults' = faults + Cardinality(stuck) + (IF listed = RunFiles THEN 0 ELSE 1)
            /\ faults' <= MaxFaults
            /\ files' = [s \in Stamps |-> [o \in Ordinals |->
                    IF <<s, o>> \in listed \ stuck /\ excess(s, StampsOf(listed))
                    THEN Absent ELSE files[s][o]]]
            /\ missed' = StampsOf((RunFiles \ listed) \cup stuck)
  BY <1>1, Zenon
<1>3. stuck \in SUBSET RunFiles
  OBVIOUS
<1>4. \A s \in Stamps : \A o \in Ordinals :
        files'[s][o] = IF Removed(s, o, listed, stuck) THEN Absent ELSE files[s][o]
  BY <1>2 DEF Removed
<1>5. DirOK'
  <2>1. Absent \in Content /\ \A s \in Stamps : \A o \in Ordinals : files[s][o] \in Content
    BY DEF Content, DirOK
  <2> QED
    BY <1>2, <2>1 DEF DirOK
<1> QED
  BY <1>2, <1>3, <1>4, <1>5, Zenon

\* What most proofs need of it.
LEMMA PruneRemoves ==
    ASSUME DirOK, prune_runs
    PROVE  /\ DirOK' /\ missed' \subseteq Stamps
           /\ \A s \in Stamps : \A o \in Ordinals :
                files'[s][o] = files[s][o] \/ files'[s][o] = Absent
  BY PruneEffect DEF StampsOf

-----------------------------------------------------------------------------
(***************************************************************************)
(* Type correctness                                                        *)
(***************************************************************************)
Control == LogOK /\ ThreadsOK /\ CountOK /\ StepsInv

\* A thread that is not at work, or is done, may do what the others allow.
LEMMA OpensControl ==
    ASSUME BaseInv, Opens
    PROVE  Control'
<1> USE DEF openLog, threads, counters, history
<1>0. Control /\ DirOK
  BY BaseParts DEF Control
<1>1. ASSUME NEW s \in Stamps, open_file(s) PROVE Control'
  <2>1. proc = "down" /\ \A t \in Threads : pc[t] = "idle"
    BY <1>0, <1>1 DEF open_file, Control, StepsInv
  <2>2. runs' \in 0..MaxRuns /\ 0 \in Ordinals /\ 0 < next
    BY <1>0, <1>1, OrdinalTypes, BoundsAssumption DEF open_file, Control, CountOK
  <2> QED
    BY <1>0, <1>1, <2>1, <2>2
    DEF open_file, Control, LogOK, ThreadsOK, CountOK, StepsInv, Working, Room
<1>2. ASSUME open_fails PROVE Control'
  <2>1. proc = "down" /\ \A t \in Threads : pc[t] = "idle"
    BY <1>0, <1>2 DEF open_fails, Control, StepsInv
  <2>2. runs' \in 0..MaxRuns /\ faults' \in 0..MaxFaults /\ 0 \in Ordinals /\ 0 < next
    BY <1>0, <1>2, OrdinalTypes, BoundsAssumption DEF open_fails, Fails, Control, CountOK
  <2> QED
    BY <1>0, <1>2, <2>1, <2>2
    DEF open_fails, Control, LogOK, ThreadsOK, CountOK, StepsInv, Working, Room
<1>3. ASSUME prune_runs PROVE Control'
  <2>1. proc = "opening" /\ file = "named" /\ \A t \in Threads : pc[t] = "idle"
    BY <1>0, <1>3 DEF prune_runs, Control, StepsInv
  <2>2. faults' \in 0..MaxFaults
    <3>1. PICK listed \in SUBSET RunFiles, stuck \in SUBSET RunFiles :
            /\ faults' = faults + Cardinality(stuck) + (IF listed = RunFiles THEN 0 ELSE 1)
            /\ faults' <= MaxFaults
      BY <1>0, <1>3, PruneEffect
    <3>2. Cardinality(stuck) \in Nat /\ faults \in 0..MaxFaults
      BY <1>0, FilesFinite DEF Control, CountOK
    <3> QED
      BY <3>1, <3>2, BoundsAssumption
  <2>3. file' \in {"named", "unlinked"} /\ proc' = "up"
    BY <1>3 DEF prune_runs
  <2> QED
    BY <1>0, <1>3, <2>1, <2>2, <2>3
    DEF prune_runs, Control, LogOK, ThreadsOK, CountOK, StepsInv, Working, Room
<1> QED
  BY <1>1, <1>2, <1>3 DEF Opens

LEMMA ThreadControl ==
    ASSUME BaseInv, NEW t \in Threads, write(t) \/ panics(t) \/ Continue(t)
    PROVE  Control'
<1> USE DEF openLog, threads, counters, history
<1>0. Control /\ DirOK /\ t # None
  BY BaseParts, ThreadsAssumption DEF Control
<1>a. ASSUME NEW label \in {"idle", "append", "rename", "create", "hook", "abort"}, Goto(t, label)
      PROVE  /\ pc' \in [Threads -> {"idle", "append", "rename", "create", "hook", "abort"}]
             /\ pc'[t] = label /\ \A u \in Threads \ {t} : pc'[u] = pc[u]
  BY <1>0, <1>a DEF Goto, Control, ThreadsOK
<1>b. ASSUME Done(t)
      PROVE  /\ pc' \in [Threads -> {"idle", "append", "rename", "create", "hook", "abort"}]
             /\ pc'[t] \in {"idle", "abort"} /\ lock' = None
             /\ \A u \in Threads \ {t} : pc'[u] = pc[u]
  BY <1>0, <1>b DEF Done, Goto, Control, ThreadsOK
<1>1. CASE write(t)
  <2>1. lock = None /\ lock' = t /\ file # "inert" /\ Room /\ proc = "up"
    BY <1>1 DEF write, unlocked, At
  <2>2. Goto(t, "append") /\ UNCHANGED <<proc, openLog, dying, counters>>
    BY <1>1 DEF write
  <2>3. \A u \in Threads : pc[u] \notin Working
    BY <1>0, <2>1, ThreadsAssumption DEF Control, ThreadsOK, Working
  <2> QED
    BY <1>0, <1>a, <2>1, <2>2, <2>3
    DEF Control, LogOK, ThreadsOK, CountOK, StepsInv, Working, Room
<1>2. CASE panics(t)
  BY <1>0, <1>2, <1>a
  DEF panics, Control, LogOK, ThreadsOK, CountOK, StepsInv, Working, Room
<1>3. ASSUME NEW w \in 1..MaxWeight, append(t, w) PROVE Control'
  <2>1. pc[t] = "append" /\ proc = "up" /\ next \in Records /\ lock = t /\ file # "inert"
    BY <1>0, <1>3, AppendEffect DEF append, At, Control, StepsInv, Working
  <2>2. \A u \in Threads \ {t} : pc[u] \notin Working
    BY <1>0, <2>1 DEF Control, ThreadsOK, Working
  <2>3. /\ next' = next + 1 /\ next' \in 1..(MaxRecords + 1)
        /\ rotations + 1 \in Ordinals /\ rotations \in Nat
        /\ rotations + 1 < next' /\ rotations < next'
    <3>1. next \in 1..MaxRecords /\ rotations \in 0..MaxRecords /\ rotations < next
      BY <1>0, <2>1 DEF Control, LogOK, StepsInv, Ordinals, Records
    <3>2. next' = next + 1
      BY <1>3 DEF append
    <3> QED
      BY <3>1, <3>2, BoundsAssumption DEF Ordinals
  <2>4. UNCHANGED <<proc, stamp, file, handle, dying, faults, runs>>
    BY <1>3 DEF append
  <2>5. CASE full(w)
    <3>1. lines' = 0 /\ rotations' = rotations + 1 /\ Goto(t, "rename") /\ lock' = lock
      BY <1>3, <2>5 DEF append
    <3> QED
      BY <1>0, <1>a, <2>1, <2>2, <2>3, <2>4, <3>1
      DEF Control, LogOK, ThreadsOK, CountOK, StepsInv, Working, Room
  <2>6. CASE ~full(w)
    <3>1. lines' = lines + w /\ rotations' = rotations /\ Done(t)
      BY <1>3, <2>6 DEF append
    <3>2. lines' \in Nat
      BY <1>0, <3>1, BoundsAssumption DEF Control, LogOK
    <3> QED
      BY <1>0, <1>b, <2>1, <2>2, <2>3, <2>4, <3>1, <3>2
      DEF Control, LogOK, ThreadsOK, CountOK, StepsInv, Working, Room
  <2> QED
    BY <2>5, <2>6
<1>4. CASE append_fails(t) \/ rename_fails(t) \/ create_fails(t)
  <2>1. /\ pc[t] \in Working /\ proc = "up" /\ Done(t)
        /\ UNCHANGED <<proc, openLog, dying, next, runs>>
    BY <1>4 DEF append_fails, rename_fails, create_fails, At, Working
  <2>2. \A u \in Threads \ {t} : pc[u] \notin Working
    BY <1>0, <2>1 DEF Control, ThreadsOK, Working
  <2>3. faults' \in 0..MaxFaults
    BY <1>0, <1>4, BoundsAssumption
    DEF append_fails, rename_fails, create_fails, Fails, Works, Control, CountOK
  <2> QED
    BY <1>0, <1>b, <2>1, <2>2, <2>3
    DEF Control, LogOK, ThreadsOK, CountOK, StepsInv, Working, Room
<1>5. CASE rename(t)
  <2>1. /\ pc[t] = "rename" /\ proc = "up" /\ Goto(t, "create")
        /\ handle' \in {rotations, handle}
        /\ UNCHANGED <<proc, stamp, file, lines, rotations, lock, dying, counters>>
    BY <1>5 DEF rename, At, aside
  <2>2. \A u \in Threads \ {t} : pc[u] \notin Working
    BY <1>0, <2>1 DEF Control, ThreadsOK, Working
  <2> QED
    BY <1>0, <1>a, <2>1, <2>2
    DEF Control, LogOK, ThreadsOK, CountOK, StepsInv, Working, Room
<1>6. CASE create(t)
  <2>1. /\ pc[t] = "create" /\ proc = "up" /\ Done(t) /\ handle' = 0
        /\ UNCHANGED <<proc, stamp, file, lines, rotations, dying, counters>>
    BY <1>6 DEF create, At
  <2>2. \A u \in Threads \ {t} : pc[u] \notin Working
    BY <1>0, <2>1 DEF Control, ThreadsOK, Working
  <2> QED
    BY <1>0, <1>b, <2>1, <2>2, OrdinalTypes
    DEF Control, LogOK, ThreadsOK, CountOK, StepsInv, Working, Room
<1>7. CASE write_line(t)
  <2>1. pc[t] = "hook" /\ proc = "up" /\ UNCHANGED <<proc, openLog, dying, counters>>
    BY <1>7 DEF write_line, At
  <2>2. CASE unlocked /\ file # "inert" /\ Room
    <3>1. lock' = t /\ Goto(t, "append")
      BY <1>7, <2>2 DEF write_line
    <3>2. \A u \in Threads : pc[u] \notin Working
      BY <1>0, <2>2, ThreadsAssumption DEF Control, ThreadsOK, Working, unlocked
    <3> QED
      BY <1>0, <1>a, <2>1, <2>2, <3>1, <3>2
      DEF Control, LogOK, ThreadsOK, CountOK, StepsInv, Working, Room
  <2>3. CASE ~(unlocked /\ file # "inert" /\ Room)
    <3>1. lock' = lock /\ Goto(t, "abort")
      BY <1>7, <2>3 DEF write_line
    <3> QED
      BY <1>0, <1>a, <2>1, <3>1
      DEF Control, LogOK, ThreadsOK, CountOK, StepsInv, Working, Room
  <2> QED
    BY <2>2, <2>3
<1>8. CASE abort(t)
  BY <1>0, <1>8, OrdinalTypes, BoundsAssumption
  DEF abort, Ends, Control, LogOK, ThreadsOK, CountOK, StepsInv, Working, Room
<1> QED
  BY <1>1, <1>2, <1>3, <1>4, <1>5, <1>6, <1>7, <1>8 DEF Continue

LEMMA NextControl ==
    ASSUME BaseInv, [Next]_vars
    PROVE  Control'
<1>0. Control
  BY BaseParts DEF Control
<1>1. CASE exit
  BY <1>0, <1>1, OrdinalTypes, BoundsAssumption
  DEF exit, Ends, counters, Control, LogOK, ThreadsOK, CountOK, StepsInv, Working, Room
<1>2. CASE UNCHANGED vars
  BY <1>0, <1>2
  DEF vars, Control, LogOK, ThreadsOK, CountOK, StepsInv, Working, Room
<1> QED
  BY <1>1, <1>2, OpensControl, ThreadControl DEF Next
\* The steps that touch neither the directory nor what is known of its runs.
LEMMA OtherSteps ==
    ASSUME BaseInv, [Next]_vars
    PROVE  \/ /\ UNCHANGED <<files, stamp, file, handle, opened, written, shared, reused, missed, runs>>
              /\ hampered' = hampered \/ (stamp \in Stamps /\ hampered' = hampered \cup {stamp})
           \/ open_fails \/ Ends \/ prune_runs
           \/ \E s \in Stamps : open_file(s)
           \/ \E t \in Threads : \/ \E w \in 1..MaxWeight : append(t, w)
                                 \/ rename(t) \/ create(t)
<1> USE DEF openLog, threads, counters, history
<1>1. ASSUME NEW t \in Threads,
             write(t) \/ panics(t) \/ append_fails(t) \/ write_line(t) \/ UNCHANGED vars
      PROVE  UNCHANGED <<files, stamp, file, handle, opened, written, shared, reused, missed, runs, hampered>>
  BY <1>1 DEF write, panics, append_fails, write_line, vars
<1>2. ASSUME NEW t \in Threads, rename_fails(t) \/ create_fails(t)
      PROVE  /\ UNCHANGED <<files, stamp, file, handle, opened, written, shared, reused, missed, runs>>
             /\ stamp \in Stamps /\ hampered' = hampered \cup {stamp}
  <2>1. pc[t] \in Working
    BY <1>2 DEF rename_fails, create_fails, At, Working
  <2>2. stamp \in Stamps
    BY <2>1, BaseParts DEF StepsInv, LogOK
  <2> QED
    BY <1>2, <2>2 DEF rename_fails, create_fails
<1>3. UNCHANGED vars =>
        UNCHANGED <<files, stamp, file, handle, opened, written, shared, reused, missed, runs, hampered>>
  BY DEF vars
<1> QED
  BY <1>1, <1>2, <1>3 DEF Next, Opens, Continue, exit, abort

LEMMA NextFiles ==
    ASSUME BaseInv, [Next]_vars
    PROVE  DirOK' /\ NamedOK' /\ HistoryOK' /\ OpenedInv'
<1> USE DEF openLog, threads, counters, history
<1>0. DirOK /\ LogOK /\ NamedOK /\ CountOK /\ HistoryOK /\ StepsInv /\ OpenedInv /\ 0 \in Ordinals
  BY BaseParts, OrdinalTypes
<1>1. CASE /\ UNCHANGED <<files, stamp, file, handle, opened, written, shared, reused, missed, runs>>
           /\ hampered' = hampered \/ (stamp \in Stamps /\ hampered' = hampered \cup {stamp})
  BY <1>0, <1>1 DEF DirOK, NamedOK, HistoryOK, OpenedInv, Exists
<1>2. CASE open_fails \/ Ends
  <2>1. /\ UNCHANGED <<files, opened, written, shared, reused, hampered, missed>> /\ file' = "inert"
        /\ runs' \in Nat /\ runs <= runs'
    BY <1>0, <1>2, BoundsAssumption DEF open_fails, Ends, CountOK
  <2>2. \A s \in Stamps : opened[s] <= runs'
    BY <1>0, <2>1, BoundsAssumption DEF OpenedInv, HistoryOK, CountOK
  <2> QED
    BY <1>0, <2>1, <2>2 DEF DirOK, NamedOK, HistoryOK, OpenedInv, Exists
<1>3. CASE prune_runs
  <2>1. /\ DirOK' /\ missed' \subseteq Stamps
        /\ \A s \in Stamps : \A o \in Ordinals : Exists(s, o)' => Exists(s, o)
    BY <1>0, <1>3, PruneRemoves DEF Exists
  <2>2. /\ file' = (IF files'[stamp][0] = Absent THEN "unlinked" ELSE "named")
        /\ UNCHANGED <<stamp, handle, runs>> /\ handle = 0 /\ file = "named"
        /\ UNCHANGED <<opened, written, shared, reused, hampered>>
    BY <1>0, <1>3 DEF prune_runs, StepsInv
  <2>3. NamedOK'
    BY <2>2 DEF NamedOK, Exists
  <2>4. OpenedInv'
    <3>1. \A s \in Stamps : \A o \in Ordinals : Exists(s, o)' => opened'[s] # 0
      BY <1>0, <2>1, <2>2 DEF OpenedInv
    <3> QED
      BY <1>0, <2>2, <3>1 DEF OpenedInv
  <2> QED
    BY <1>0, <2>1, <2>2, <2>3, <2>4 DEF HistoryOK
<1>4. ASSUME NEW s \in Stamps, open_file(s)
      PROVE  DirOK' /\ NamedOK' /\ HistoryOK' /\ OpenedInv'
  <2>1. /\ DirOK' /\ Exists(s, 0)'
        /\ \A r \in Stamps : \A p \in Ordinals : r # s => files'[r][p] = files[r][p]
    BY <1>0, <1>4, OpenEffect
  <2>2. /\ opened' = [opened EXCEPT ![s] = runs + 1] /\ runs' = runs + 1 /\ runs < MaxRuns
        /\ stamp' = s /\ file' = "named" /\ handle' = 0 /\ UNCHANGED <<written, hampered>>
        /\ missed' = {}
    BY <1>4 DEF open_file
  <2>3. /\ opened'[s] = runs + 1 /\ \A r \in Stamps \ {s} : opened'[r] = opened[r]
        /\ opened' \in [Stamps -> 0..MaxRuns] /\ runs \in Nat /\ runs + 1 # 0
    BY <1>0, <2>2, BoundsAssumption DEF HistoryOK, CountOK
  <2>4. NamedOK'
    BY <2>1, <2>2 DEF NamedOK, Exists
  <2>5. OpenedInv'
    <3>1. \A r \in Stamps : opened'[r] <= runs'
      BY <1>0, <2>2, <2>3, BoundsAssumption DEF OpenedInv, HistoryOK
    <3>2. \A r \in Stamps : \A o \in Ordinals : Exists(r, o)' => opened'[r] # 0
      BY <1>0, <2>1, <2>3 DEF OpenedInv, Exists
    <3>3. \A r \in Stamps : opened'[r] = 0 => written'[r] = {}
      BY <1>0, <2>2, <2>3 DEF OpenedInv
    <3> QED
      BY <2>2, <2>3, <3>1, <3>2, <3>3 DEF OpenedInv
  <2>6. HistoryOK'
    <3>1. (\E o \in Ordinals \ {0} : Exists(s, o)) => opened[s] # 0
      BY <1>0 DEF OpenedInv
    <3>2. shared' \subseteq Stamps /\ reused' \subseteq shared'
      BY <1>0, <1>4, <3>1 DEF open_file, HistoryOK
    <3> QED
      BY <1>0, <2>2, <2>3, <3>2 DEF HistoryOK
  <2> QED
    BY <2>1, <2>4, <2>5, <2>6
<1>5. ASSUME NEW t \in Threads, NEW w \in 1..MaxWeight, append(t, w)
      PROVE  DirOK' /\ NamedOK' /\ HistoryOK' /\ OpenedInv'
  <2>1. /\ UNCHANGED <<stamp, file, handle, opened, runs, shared, reused, hampered, missed>>
        /\ written' = [written EXCEPT ![stamp] = written[stamp] \cup {next}]
    BY <1>5 DEF append
  <2>2. next \in Records /\ stamp \in Stamps /\ DirOK' /\ handle \in Ordinals
    BY <1>0, <1>5, AppendEffect DEF LogOK
  <2>3. \A r \in Stamps : \A p \in Ordinals : Exists(r, p)' <=> Exists(r, p)
    <3>1. CASE file = "unlinked" /\ files' = files
      BY <3>1 DEF Exists
    <3>2. CASE /\ file = "named" /\ files[stamp][handle] \in Seq(Records)
               /\ files'[stamp][handle] = files[stamp][handle] \o Lines(next, w)
               /\ \A r \in Stamps : \A p \in Ordinals :
                      r # stamp \/ p # handle => files'[r][p] = files[r][p]
      <4>1. files[stamp][handle] \o Lines(next, w) # Absent
        <5>1. PICK q \in Seq(Records), n \in Records : q = files[stamp][handle] /\ n = next
          BY <2>2, <3>2
        <5>2. q \o Lines(n, w) # Absent
          BY Lengthened DEF Longer
        <5> QED
          BY <5>1, <5>2
      <4>2. files[stamp][handle] # Absent
        BY <3>2, AbsentAssumption
      <4> QED
        BY <3>2, <4>1, <4>2 DEF Exists
    <3> QED
      BY <1>5, <3>1, <3>2, AppendEffect
  <2>4. NamedOK'
    BY <1>0, <2>1, <2>2, <2>3 DEF NamedOK, Exists
  <2>5. opened[stamp] # 0
    BY <1>0, <1>5, AppendEffect DEF OpenedInv
  <2>6. OpenedInv'
    <3>1. \A s \in Stamps : opened[s] = 0 => written'[s] = {}
      BY <1>0, <2>1, <2>5 DEF OpenedInv, HistoryOK
    <3> QED
      BY <1>0, <2>1, <2>3, <3>1 DEF OpenedInv
  <2> QED
    BY <1>0, <2>1, <2>2, <2>4, <2>6 DEF HistoryOK
<1>6. ASSUME NEW t \in Threads, rename(t)
      PROVE  DirOK' /\ NamedOK' /\ HistoryOK' /\ OpenedInv'
  <2>1. /\ UNCHANGED <<stamp, file, runs, history>>
        /\ handle' = IF handle = 0 THEN rotations ELSE handle
    BY <1>6 DEF rename, aside
  <2>2. /\ stamp \in Stamps /\ rotations \in Ordinals \ {0} /\ DirOK'
        /\ Exists(stamp, 0) /\ files'[stamp][rotations] = files[stamp][0]
        /\ files'[stamp][0] = Absent
        /\ \A r \in Stamps : \A p \in Ordinals :
             r # stamp \/ p \notin {0, rotations} => files'[r][p] = files[r][p]
    BY <1>6, RenameEffect
  <2>3. NamedOK'
    BY <1>0, <2>1, <2>2 DEF NamedOK, Exists, LogOK
  <2>4. \A r \in Stamps : \A p \in Ordinals : Exists(r, p)' => \E q \in Ordinals : Exists(r, q)
    BY <1>0, <2>2 DEF Exists
  <2>5. OpenedInv'
    <3>1. \A r \in Stamps : \A p \in Ordinals : Exists(r, p)' => opened[r] # 0
      BY <1>0, <2>4 DEF OpenedInv
    <3> QED
      BY <1>0, <2>1, <3>1 DEF OpenedInv
  <2> QED
    BY <1>0, <2>1, <2>2, <2>3, <2>5 DEF HistoryOK
<1>7. ASSUME NEW t \in Threads, create(t)
      PROVE  DirOK' /\ NamedOK' /\ HistoryOK' /\ OpenedInv'
  <2>1. UNCHANGED <<stamp, file, runs, history>> /\ handle' = 0
    BY <1>7 DEF create
  <2>2. /\ stamp \in Stamps /\ DirOK' /\ files'[stamp][0] = << >> /\ << >> # Absent
        /\ \A r \in Stamps : \A p \in Ordinals :
             r # stamp \/ p # 0 => files'[r][p] = files[r][p]
    BY <1>7, CreateEffect
  <2>3. NamedOK'
    BY <2>1, <2>2 DEF NamedOK, Exists
  <2>4. opened[stamp] # 0
    BY <1>0, <1>7 DEF create, At, StepsInv, Working, OpenedInv
  <2>5. OpenedInv'
    <3>1. \A r \in Stamps : \A p \in Ordinals : Exists(r, p)' => opened[r] # 0
      BY <1>0, <2>2, <2>4 DEF OpenedInv, Exists
    <3> QED
      BY <1>0, <2>1, <3>1 DEF OpenedInv
  <2> QED
    BY <1>0, <2>1, <2>2, <2>3, <2>5 DEF HistoryOK
<1> QED
  BY <1>1, <1>2, <1>3, <1>4, <1>5, <1>6, <1>7, OtherSteps

LEMMA InitBase == Init => BaseInv
<1> SUFFICES ASSUME Init PROVE BaseInv
  OBVIOUS
<1>1. DirOK
  BY DEF Init, DirOK, Content
<1>2. LogOK /\ NamedOK /\ ThreadsOK /\ CountOK /\ StepsInv
  BY BoundsAssumption
  DEF Init, LogOK, NamedOK, ThreadsOK, CountOK, StepsInv, Working, Ordinals
<1>3. HistoryOK /\ OpenedInv
  BY BoundsAssumption DEF Init, HistoryOK, OpenedInv, Exists
<1> QED
  BY <1>1, <1>2, <1>3, TypeParts DEF BaseInv

LEMMA NextBase == BaseInv /\ [Next]_vars => BaseInv'
<1> SUFFICES ASSUME BaseInv, [Next]_vars PROVE BaseInv'
  OBVIOUS
<1>1. Control' /\ DirOK' /\ NamedOK' /\ HistoryOK' /\ OpenedInv'
  BY NextControl, NextFiles
<1>2. TypeOK' <=> (DirOK /\ LogOK /\ NamedOK /\ ThreadsOK /\ CountOK /\ HistoryOK)'
  BY TypeParts, PTL
<1> QED
  BY <1>1, <1>2 DEF BaseInv, Control

LEMMA BaseInvariant == Spec => []BaseInv
  BY InitBase, NextBase, PTL DEF Spec

\* The directory, OpenLog and the threads stay well formed whatever fails and
\* wherever a process dies: the file being written has a name until a prune
\* takes it, the lock belongs to the thread inside append or rotate, or to one
\* that panicked there, and no ordinal is spent twice (logging.rs).
THEOREM TypeCorrect == Spec => []TypeOK
  BY BaseInvariant, PTL DEF BaseInv
-----------------------------------------------------------------------------
(***************************************************************************)
(* A file ends with the record that fills it                               *)
(***************************************************************************)
\* The file an append leaves behind.
LEMMA AppendContent ==
    ASSUME BaseInv, NEW t \in Threads, NEW w \in 1..MaxWeight, append(t, w), file = "named"
    PROVE  /\ files[stamp][handle] \in Seq(Records) /\ files'[stamp][handle] \in Seq(Records)
           /\ Len(files[stamp][handle]) \in Nat
           /\ Len(files'[stamp][handle]) = Len(files[stamp][handle]) + w
           /\ DOMAIN files[stamp][handle] = 1..Len(files[stamp][handle])
           /\ DOMAIN files'[stamp][handle] = 1..(Len(files[stamp][handle]) + w)
           /\ \A i \in DOMAIN files'[stamp][handle] : files'[stamp][handle][i] =
                IF i \in DOMAIN files[stamp][handle] THEN files[stamp][handle][i] ELSE next
           /\ Elements(files'[stamp][handle]) = Elements(files[stamp][handle]) \cup {next}
<1>1. PICK q \in Seq(Records), n \in Records :
        /\ q = files[stamp][handle] /\ n = next
        /\ files'[stamp][handle] = q \o Lines(n, w)
  BY AppendEffect
<1>2. Longer(files'[stamp][handle], q, n, w)
  BY <1>1, Lengthened
<1>3. Longer(files'[stamp][handle], files[stamp][handle], next, w)
  BY <1>1, <1>2
<1> QED
  BY <1>1, <1>3, Zenon DEF Longer

\* FilesBounded is not inductive: while nobody rotates, the file being written
\* has as many lines as are counted, and fewer than make it full.
Settled == lock = None \/ \E t \in Threads : lock = t /\ pc[t] = "append"
LinesInv ==
    file = "named" /\ Settled /\ stamp \notin shared \cup hampered =>
        handle = 0 /\ Len(files[stamp][0]) = lines /\ lines < RotateAfter
FullInv == FilesBounded /\ LinesInv

LEMMA NextFilesBounded ==
    ASSUME BaseInv, FullInv, [Next]_vars
    PROVE  FilesBounded'
<1> SUFFICES ASSUME NEW s \in Stamps, s \notin shared', s \notin hampered', NEW o \in Ordinals,
                    files'[s][o] # Absent
             PROVE  Len(files'[s][o]) < RotateAfter + MaxWeight
  BY DEF FilesBounded, Exists
<1> USE DEF openLog, threads, counters, history
<1>0. DirOK /\ HistoryOK /\ OpenedInv /\ LogOK
  BY BaseParts
<1>1. shared \subseteq shared' /\ hampered \subseteq hampered'
  BY OtherSteps DEF open_fails, Ends, prune_runs, open_file, append, rename, create
<1>2. s \notin shared \cup hampered
  BY <1>1
<1>3. \A p \in Ordinals : files[s][p] # Absent => Len(files[s][p]) < RotateAfter + MaxWeight
  BY <1>2 DEF FullInv, FilesBounded, Exists
<1>4. CASE UNCHANGED files
  BY <1>3, <1>4
<1>5. CASE prune_runs
  <2>1. files'[s][o] = files[s][o]
    BY <1>0, <1>5, PruneRemoves
  <2> QED
    BY <1>3, <2>1
<1>6. ASSUME NEW r \in Stamps, open_file(r)
      PROVE  Len(files'[s][o]) < RotateAfter + MaxWeight
  <2>1. files'[s][o] = files[s][o] \/ files'[s][o] = << >>
    BY <1>0, <1>6, OpenEffect
  <2>2. Len(<< >>) < RotateAfter + MaxWeight
    BY BoundsAssumption
  <2> QED
    BY <1>3, <2>1, <2>2
<1>7. ASSUME NEW t \in Threads, NEW w \in 1..MaxWeight, append(t, w)
      PROVE  Len(files'[s][o]) < RotateAfter + MaxWeight
  <2>1. CASE files'[s][o] = files[s][o]
    BY <1>3, <2>1
  <2>2. CASE files'[s][o] # files[s][o]
    <3>1. s = stamp /\ o = handle /\ file = "named" /\ lock = t
      BY <1>7, <2>2, AppendEffect
    <3>2. handle = 0 /\ Len(files[stamp][0]) = lines /\ lines < RotateAfter
      BY <1>2, <1>7, <3>1 DEF FullInv, LinesInv, Settled, append, At
    <3>3. Len(files'[stamp][handle]) = Len(files[stamp][handle]) + w
      BY <1>7, <3>1, AppendContent
    <3>4. Len(files'[s][o]) = lines + w
      BY <3>1, <3>2, <3>3
    <3> QED
      BY <1>0, <3>2, <3>4, BoundsAssumption DEF LogOK
  <2> QED
    BY <2>1, <2>2
<1>8. ASSUME NEW t \in Threads, rename(t)
      PROVE  Len(files'[s][o]) < RotateAfter + MaxWeight
  <2>1. files'[s][o] = files[s][o] \/ files'[s][o] = files[s][0]
    BY <1>8, RenameEffect
  <2> QED
    BY <1>3, <2>1, OrdinalTypes
<1>9. ASSUME NEW t \in Threads, create(t)
      PROVE  Len(files'[s][o]) < RotateAfter + MaxWeight
  <2>1. files'[s][o] = files[s][o] \/ files'[s][o] = << >>
    BY <1>9, CreateEffect
  <2>2. Len(<< >>) < RotateAfter + MaxWeight
    BY BoundsAssumption
  <2> QED
    BY <1>3, <2>1, <2>2
<1> QED
  BY <1>4, <1>5, <1>6, <1>7, <1>8, <1>9, FileSteps

LEMMA NextLines ==
    ASSUME BaseInv, FullInv, [Next]_vars
    PROVE  LinesInv'
<1> SUFFICES ASSUME file' = "named", Settled', stamp' \notin shared', stamp' \notin hampered'
             PROVE  handle' = 0 /\ Len(files'[stamp'][0]) = lines' /\ lines' < RotateAfter
  BY DEF LinesInv
<1> USE DEF openLog, threads, counters, history
<1>0. /\ DirOK /\ LogOK /\ ThreadsOK /\ StepsInv /\ HistoryOK /\ OpenedInv
      /\ 0 \in Ordinals /\ None \notin Threads
  BY BaseParts, OrdinalTypes, ThreadsAssumption
<1>a. 0 < RotateAfter /\ Len(<< >>) = 0
  BY BoundsAssumption
<1>b. ASSUME file = "named", Settled, stamp \notin shared, stamp \notin hampered
      PROVE  handle = 0 /\ Len(files[stamp][0]) = lines /\ lines < RotateAfter
  BY <1>b DEF FullInv, LinesInv
<1>1. ASSUME UNCHANGED <<files, stamp, file, handle, lines>>, shared \subseteq shared',
             hampered \subseteq hampered', Settled
      PROVE  handle' = 0 /\ Len(files'[stamp'][0]) = lines' /\ lines' < RotateAfter
  BY <1>1, <1>b
<1>2. CASE UNCHANGED vars
  BY <1>1, <1>2 DEF vars, Settled
<1>3. CASE open_fails \/ Ends
  BY <1>3 DEF open_fails, Ends
<1>4. ASSUME NEW s \in Stamps, open_file(s)
      PROVE  handle' = 0 /\ Len(files'[stamp'][0]) = lines' /\ lines' < RotateAfter
  <2>1. stamp' = s /\ handle' = 0 /\ lines' = 0 /\ (opened[s] # 0 => s \in shared')
    BY <1>4 DEF open_file
  <2>2. ~Exists(s, 0)
    BY <1>0, <2>1 DEF OpenedInv
  <2>3. files'[s][0] = << >>
    BY <1>0, <1>4, <2>2, OpenEffect
  <2> QED
    BY <1>a, <2>1, <2>3
<1>5. CASE prune_runs
  <2>1. /\ UNCHANGED <<stamp, handle, lines, shared, hampered, lock, pc>>
        /\ file = "named" /\ files'[stamp][0] # Absent /\ stamp \in Stamps
    BY <1>0, <1>5 DEF prune_runs, StepsInv, LogOK
  <2>2. files'[stamp][0] = files[stamp][0]
    BY <1>0, <1>5, <2>1, PruneRemoves
  <2>3. Settled
    BY <2>1 DEF Settled
  <2> QED
    BY <1>b, <2>1, <2>2, <2>3
<1>6. ASSUME NEW t \in Threads, write(t) \/ write_line(t)
      PROVE  handle' = 0 /\ Len(files'[stamp'][0]) = lines' /\ lines' < RotateAfter
  <2>1. UNCHANGED <<files, stamp, file, handle, lines, shared, hampered>>
    BY <1>6 DEF write, write_line
  <2>2. Settled
    <3>1. CASE lock = None
      BY <3>1 DEF Settled
    <3>2. CASE lock # None
      <4>1. write_line(t) /\ lock' = lock /\ Goto(t, "abort")
        BY <1>6, <3>2 DEF write, write_line, unlocked
      <4>2. PICK u \in Threads : lock' = u /\ pc'[u] = "append"
        BY <3>2, <4>1 DEF Settled
      <4>3. u # t /\ pc[u] = "append"
        BY <1>0, <4>1, <4>2 DEF Goto, ThreadsOK
      <4> QED
        BY <4>1, <4>2, <4>3 DEF Settled
    <3> QED
      BY <3>1, <3>2
  <2> QED
    BY <1>1, <2>1, <2>2
<1>7. ASSUME NEW t \in Threads, panics(t)
      PROVE  handle' = 0 /\ Len(files'[stamp'][0]) = lines' /\ lines' < RotateAfter
  <2>1. UNCHANGED <<files, stamp, file, handle, lines, shared, hampered, lock>> /\ Goto(t, "hook")
    BY <1>7 DEF panics
  <2>2. Settled
    BY <1>0, <2>1 DEF Settled, Goto, ThreadsOK
  <2> QED
    BY <1>1, <2>1, <2>2
<1>8. ASSUME NEW t \in Threads, append_fails(t)
      PROVE  handle' = 0 /\ Len(files'[stamp'][0]) = lines' /\ lines' < RotateAfter
  <2>1. UNCHANGED <<files, stamp, file, handle, lines, shared, hampered>> /\ pc[t] = "append"
    BY <1>8 DEF append_fails, At
  <2>2. Settled
    BY <1>0, <2>1 DEF Settled, ThreadsOK
  <2> QED
    BY <1>1, <2>1, <2>2
<1>9. ASSUME NEW t \in Threads, rename_fails(t) \/ create_fails(t) PROVE FALSE
  BY <1>9 DEF rename_fails, create_fails
<1>10. ASSUME NEW t \in Threads, NEW w \in 1..MaxWeight, append(t, w)
       PROVE  handle' = 0 /\ Len(files'[stamp'][0]) = lines' /\ lines' < RotateAfter
  <2>1. UNCHANGED <<stamp, file, handle, shared, hampered>> /\ pc[t] = "append" /\ lock = t
    BY <1>10, AppendEffect DEF append, At
  <2>2. Settled /\ handle = 0 /\ Len(files[stamp][0]) = lines
    BY <1>b, <2>1 DEF Settled
  <2>3. ~full(w)
    <3>1. SUFFICES ASSUME full(w) PROVE FALSE
      OBVIOUS
    <3>2. lock' = t /\ Goto(t, "rename")
      BY <1>10, <2>1, <3>1 DEF append
    <3> QED
      BY <1>0, <3>2 DEF Settled, Goto, ThreadsOK
  <2>4. lines' = lines + w /\ lines + w < RotateAfter
    <3>1. lines' = lines + w
      BY <1>10, <2>3 DEF append
    <3>2. lines \in Nat /\ w \in Nat
      BY <1>0, BoundsAssumption DEF LogOK
    <3> QED
      BY <2>3, <3>1, <3>2, BoundsAssumption DEF full
  <2>5. Len(files'[stamp][handle]) = Len(files[stamp][handle]) + w
    BY <1>10, <2>1, AppendContent
  <2> QED
    BY <2>1, <2>2, <2>4, <2>5
<1>11. ASSUME NEW t \in Threads, rename(t) PROVE FALSE
  <2>1. lock' = t /\ Goto(t, "create")
    BY <1>11, RenameEffect DEF rename
  <2> QED
    BY <1>0, <2>1 DEF Settled, Goto, ThreadsOK
<1>12. ASSUME NEW t \in Threads, create(t)
       PROVE  handle' = 0 /\ Len(files'[stamp'][0]) = lines' /\ lines' < RotateAfter
  <2>1. UNCHANGED <<stamp, lines>> /\ handle' = 0 /\ lines = 0
    BY <1>0, <1>12 DEF create, At, StepsInv
  <2>2. files'[stamp][0] = << >>
    BY <1>12, CreateEffect
  <2> QED
    BY <1>a, <2>1, <2>2
<1> QED
  BY <1>2, <1>3, <1>4, <1>5, <1>6, <1>7, <1>8, <1>9, <1>10, <1>11, <1>12
  DEF Next, Opens, Continue, exit, abort

\* A log file ends with the record that fills it (OpenLog::append): none has
\* ROTATE_AFTER_LINES lines beyond the last record's, unless its stamp is that
\* of two processes or a rotation of it failed.
THEOREM FilesAreBounded == Spec => []FilesBounded
<1>1. Init => BaseInv /\ FullInv
  <2>1. Init => FullInv
    BY DEF Init, FullInv, FilesBounded, LinesInv, Exists
  <2> QED
    BY <2>1, InitBase
<1>2. BaseInv /\ FullInv /\ [Next]_vars => (BaseInv /\ FullInv)'
  BY NextBase, NextFilesBounded, NextLines DEF FullInv
<1>3. FullInv => FilesBounded
  BY DEF FullInv
<1> QED
  BY <1>1, <1>2, <1>3, PTL DEF Spec
-----------------------------------------------------------------------------
(***************************************************************************)
(* A directory holds KEEP_RUNS runs                                        *)
(***************************************************************************)
LEMMA StampsFinite ==
    ASSUME NEW S \in SUBSET Stamps
    PROVE  IsFiniteSet(S) /\ Cardinality(S) \in Nat
<1>1. IsFiniteSet(Stamps)
  BY BoundsAssumption, FS_Interval DEF Stamps
<1>2. IsFiniteSet(S)
  BY <1>1, FS_Subset
<1> QED
  BY <1>2, FS_CardinalityType

LEMMA SmallestStamp ==
    ASSUME NEW S \in SUBSET Stamps, S # {}
    PROVE  \E m \in S : \A s \in S : m <= s
<1>1. S \subseteq Nat
  BY BoundsAssumption DEF Stamps
<1>2. PICK m \in S : \A s \in S : <<s, m>> \notin OpToRel(<, Nat)
  BY <1>1, NatLessThanWellFounded, WFMin, Zenon
<1>3. \A s \in S : ~(s < m)
  BY <1>1, <1>2 DEF OpToRel
<1>4. \A s \in S : m <= s
  BY <1>1, <1>3
<1> QED
  BY <1>4

\* Only k stamps of a set have fewer than k stamps of it after them: the first
\* of them has the others after it.
LEMMA FewAreLast ==
    ASSUME NEW S \in SUBSET Stamps, NEW k \in Nat
    PROVE  Cardinality({s \in S : Cardinality({r \in S : r > s}) < k}) <= k
<1> DEFINE last == {s \in S : Cardinality({r \in S : r > s}) < k}
<1>1. last \in SUBSET Stamps
  OBVIOUS
<1> SUFFICES Cardinality(last) <= k
  OBVIOUS
<1>2. CASE last = {}
  <2>1. Cardinality(last) = 0
    BY <1>2, FS_EmptySet, Zenon
  <2> HIDE DEF last
  <2> QED
    BY <2>1
<1>3. CASE last # {}
  <2>1. PICK m \in last : \A s \in last : m <= s
    BY <1>1, <1>3, SmallestStamp, Zenon
  <2> DEFINE after == {r \in S : r > m}
  <2>2. Cardinality(after) < k
    BY <2>1
  <2>3. last \subseteq after \cup {m}
    BY <1>1, <2>1, BoundsAssumption DEF Stamps
  <2>4. after \in SUBSET Stamps
    OBVIOUS
  <2> HIDE DEF last, after
  <2>5. IsFiniteSet(after) /\ Cardinality(after) \in Nat
    BY <2>4, StampsFinite
  <2>6. IsFiniteSet(after \cup {m}) /\ Cardinality(after \cup {m}) <= Cardinality(after) + 1
    <3>1. /\ IsFiniteSet(after \cup {m})
          /\ Cardinality(after \cup {m}) =
                IF m \in after THEN Cardinality(after) ELSE Cardinality(after) + 1
      BY <2>5, FS_AddElement, Zenon
    <3> QED
      BY <2>5, <3>1
  <2>7. Cardinality(last) <= Cardinality(after \cup {m})
    BY <2>3, <2>6, FS_Subset
  <2>8. Cardinality(last) \in Nat /\ Cardinality(after \cup {m}) \in Nat
    BY <1>1, <2>6, StampsFinite, FS_CardinalityType
  <2> QED
    BY <2>2, <2>5, <2>6, <2>7, <2>8
<1> QED
  BY <1>2, <1>3

\* RunsBounded is not inductive: a rotation gives the announced name back, so
\* the run of the process counts also while it has no file of that name, and a
\* run that was pruned when it opened never gets a file again.
Found == {s \in Stamps : \E o \in Ordinals : o <= ThreeDigits /\ Exists(s, o)}
FoundInv ==
    /\ proc = "up" /\ file = "unlinked" =>
        /\ ~Exists(stamp, 0) /\ \A t \in Threads : pc[t] # "create"
        /\ Cardinality(Found \ missed) <= KeepRuns
    /\ proc = "up" /\ file = "named" => Cardinality((Found \cup {stamp}) \ missed) <= KeepRuns

LEMMA FoundSmaller ==
    ASSUME NEW S \in SUBSET Stamps, NEW T \in SUBSET Stamps, T \subseteq S
    PROVE  Cardinality(T) \in Nat /\ Cardinality(S) \in Nat /\ Cardinality(T) <= Cardinality(S)
<1>1. IsFiniteSet(S) /\ Cardinality(S) \in Nat
  BY StampsFinite
<1>2. IsFiniteSet(T) /\ Cardinality(T) <= Cardinality(S)
  BY <1>1, FS_Subset
<1> QED
  BY <1>1, <1>2, FS_CardinalityType

\* After a prune there are the newest KEEP_RUNS of the runs seen, and those of
\* which it missed a file.
LEMMA PruneFound ==
    ASSUME BaseInv, prune_runs
    PROVE  Cardinality((Found \ missed)') <= KeepRuns
<1>0. DirOK
  BY BaseParts
<1>1. PICK listed \in SUBSET RunFiles, stuck \in SUBSET RunFiles :
        /\ missed' = StampsOf((RunFiles \ listed) \cup stuck)
        /\ \A s \in Stamps : \A o \in Ordinals :
             files'[s][o] = IF Removed(s, o, listed, stuck) THEN Absent ELSE files[s][o]
  BY <1>0, PruneEffect
<1> DEFINE seen == StampsOf(listed)
           kept == {s \in seen : Cardinality({r \in seen : r > s}) < KeepRuns}
           found == {s \in Stamps : \E o \in Ordinals : o <= ThreeDigits /\ files'[s][o] # Absent}
<1>a. seen \in SUBSET Stamps
  BY DEF StampsOf
<1>2. found \ missed' \subseteq kept
  <2> SUFFICES ASSUME NEW s \in Stamps, NEW o \in Ordinals, o <= ThreeDigits,
                      files'[s][o] # Absent, s \notin missed'
               PROVE  s \in kept
    OBVIOUS
  <2>1. files[s][o] # Absent /\ ~Removed(s, o, listed, stuck)
    BY <1>1
  <2>2. <<s, o>> \in RunFiles
    BY <2>1 DEF RunFiles, is_run_suffix, Exists
  <2>3. <<s, o>> \in listed /\ <<s, o>> \notin stuck
    BY <1>1, <2>2 DEF StampsOf
  <2>4. s \in seen
    BY <2>3 DEF StampsOf
  <2>5. ~excess(s, seen)
    BY <2>1, <2>3 DEF Removed
  <2> DEFINE newer == {r \in seen : r > s}
  <2>6. newer \in SUBSET Stamps
    BY <1>a
  <2>7. ~(Cardinality(newer) >= KeepRuns)
    BY <2>5 DEF excess
  <2> HIDE DEF newer
  <2>8. Cardinality(newer) < KeepRuns
    BY <2>6, <2>7, StampsFinite, BoundsAssumption
  <2> QED
    BY <2>4, <2>8 DEF newer
<1>3. Cardinality(kept) <= KeepRuns
  <2> HIDE DEF seen
  <2>1. KeepRuns \in Nat
    BY BoundsAssumption
  <2> QED
    BY <1>a, <2>1, FewAreLast
<1>4. kept \in SUBSET Stamps /\ found \ missed' \in SUBSET Stamps
  BY <1>a
<1>5. (Found \ missed)' = found \ missed'
  BY DEF Found, Exists
<1> HIDE DEF kept, found
<1> DEFINE uncounted == found \ missed'
<1>6. uncounted \in SUBSET Stamps /\ uncounted \subseteq kept
  BY <1>2, <1>4
<1> HIDE DEF uncounted
<1>7. /\ Cardinality(uncounted) \in Nat /\ Cardinality(kept) \in Nat
      /\ Cardinality(uncounted) <= Cardinality(kept)
  BY <1>4, <1>6, FoundSmaller
<1>8. Cardinality(uncounted) <= KeepRuns
  BY <1>3, <1>7, BoundsAssumption
<1> QED
  BY <1>5, <1>8 DEF uncounted

\* A step that brings no run but that of the process.
LEMMA FoundKept ==
    ASSUME BaseInv, FoundInv, stamp' = stamp, file' = file, missed' = missed,
           proc = "up", file = "named", Found' \subseteq Found \cup {stamp}
    PROVE  FoundInv'
<1>1. stamp \in Stamps
  BY BaseParts DEF LogOK
<1>2. PICK S \in SUBSET Stamps, T \in SUBSET Stamps :
        S = (Found \cup {stamp}) \ missed /\ T = (Found' \cup {stamp}) \ missed /\ T \subseteq S
  <2>1. /\ (Found \cup {stamp}) \ missed \in SUBSET Stamps
        /\ (Found' \cup {stamp}) \ missed \in SUBSET Stamps
        /\ (Found' \cup {stamp}) \ missed \subseteq (Found \cup {stamp}) \ missed
    BY <1>1 DEF Found
  <2> QED
    BY <2>1, Zenon
<1>3. Cardinality(T) \in Nat /\ Cardinality(S) \in Nat /\ Cardinality(T) <= Cardinality(S)
  BY <1>2, FoundSmaller
<1>4. Cardinality(S) <= KeepRuns
  BY <1>2 DEF FoundInv
<1>5. Cardinality(T) <= KeepRuns
  BY <1>3, <1>4, BoundsAssumption
<1>6. ((Found \cup {stamp}) \ missed)' = T /\ file' = "named"
  BY <1>2
<1> QED
  BY <1>5, <1>6 DEF FoundInv

LEMMA NextFound ==
    ASSUME BaseInv, FoundInv, [Next]_vars
    PROVE  FoundInv'
<1> USE DEF openLog, threads, counters, history
<1>0. /\ DirOK /\ LogOK /\ ThreadsOK /\ StepsInv /\ OpenedInv
      /\ 0 \in Ordinals /\ 0 <= ThreeDigits
  BY BaseParts, OrdinalTypes, BoundsAssumption
<1>1. ASSUME UNCHANGED <<files, stamp, file, proc, missed>>,
             proc = "up" /\ file = "unlinked" => \A t \in Threads : pc'[t] # "create"
      PROVE  FoundInv'
  <2>1. Found' = Found
    BY <1>1 DEF Found, Exists
  <2>2. CASE proc = "up" /\ file = "named"
    BY <1>1, <2>1, <2>2, FoundKept
  <2>3. CASE proc = "up" /\ file = "unlinked"
    <3>1. Cardinality((Found \ missed)') <= KeepRuns /\ ~Exists(stamp, 0)'
      BY <1>1, <2>1, <2>3 DEF Exists, FoundInv
    <3> QED
      BY <1>1, <2>3, <3>1 DEF FoundInv
  <2> QED
    BY <1>1, <2>2, <2>3 DEF FoundInv
<1>2. CASE UNCHANGED vars
  BY <1>0, <1>1, <1>2 DEF vars, FoundInv
<1>3. CASE open_fails \/ Ends
  BY <1>3 DEF open_fails, Ends, FoundInv
<1>4. ASSUME NEW s \in Stamps, open_file(s) PROVE FoundInv'
  BY <1>4 DEF open_file, FoundInv
<1>5. CASE prune_runs
  <2>1. Cardinality((Found \ missed)') <= KeepRuns
    BY <1>5, PruneFound
  <2>2. /\ stamp' = stamp /\ stamp \in Stamps /\ pc' = pc /\ \A t \in Threads : pc[t] = "idle"
        /\ file' = IF files'[stamp][0] = Absent THEN "unlinked" ELSE "named"
    BY <1>0, <1>5 DEF prune_runs, StepsInv, LogOK
  <2>3. CASE files'[stamp][0] = Absent
    BY <2>1, <2>2, <2>3 DEF FoundInv, Exists
  <2>4. CASE files'[stamp][0] # Absent
    <3>1. stamp' \in Found'
      BY <1>0, <2>2, <2>4 DEF Found, Exists
    <3>2. ((Found \cup {stamp}) \ missed)' = (Found \ missed)' /\ file' = "named"
      BY <2>2, <2>4, <3>1
    <3> QED
      BY <2>1, <3>2 DEF FoundInv
  <2> QED
    BY <2>3, <2>4
<1>6. ASSUME NEW t \in Threads, NEW w \in 1..MaxWeight, append(t, w) PROVE FoundInv'
  <2>1. proc = "up" /\ UNCHANGED <<proc, stamp, file, missed>> /\ pc[t] = "append"
    BY <1>6 DEF append, At
  <2>2. \A u \in Threads : pc'[u] = "create" => pc[u] = "create"
    BY <1>0, <1>6 DEF append, Goto, Done, ThreadsOK
  <2>3. CASE file = "unlinked"
    <3>1. UNCHANGED files
      BY <1>6, <2>3 DEF append
    <3> QED
      BY <1>0, <1>1, <2>1, <2>2, <2>3, <3>1 DEF FoundInv
  <2>4. CASE file = "named"
    <3>1. \A r \in Stamps : \A p \in Ordinals : r # stamp => files'[r][p] = files[r][p]
      BY <1>6, <2>4, AppendEffect
    <3>2. Found' \subseteq Found \cup {stamp}
      BY <3>1 DEF Found, Exists
    <3> QED
      BY <1>0, <2>1, <2>4, <3>2, FoundKept
  <2> QED
    BY <1>0, <1>6, <2>3, <2>4, AppendEffect DEF LogOK
<1>7. ASSUME NEW t \in Threads, rename(t) PROVE FoundInv'
  <2>1. /\ proc = "up" /\ UNCHANGED <<proc, stamp, file, missed>> /\ Exists(stamp, 0)
        /\ pc[t] = "rename"
    BY <1>7 DEF rename, At
  <2>2. file = "named"
    BY <1>0, <2>1 DEF FoundInv, LogOK, StepsInv, Working
  <2>3. \A r \in Stamps : \A p \in Ordinals : r # stamp => files'[r][p] = files[r][p]
    BY <1>7, RenameEffect
  <2>4. Found' \subseteq Found \cup {stamp}
    BY <2>3 DEF Found, Exists
  <2> QED
    BY <1>0, <2>1, <2>2, <2>4, FoundKept
<1>8. ASSUME NEW t \in Threads, create(t) PROVE FoundInv'
  <2>1. proc = "up" /\ UNCHANGED <<proc, stamp, file, missed>> /\ pc[t] = "create"
    BY <1>8 DEF create, At
  <2>2. file = "named"
    BY <1>0, <2>1 DEF FoundInv, LogOK, StepsInv, Working
  <2>3. \A r \in Stamps : \A p \in Ordinals : r # stamp => files'[r][p] = files[r][p]
    BY <1>8, CreateEffect
  <2>4. Found' \subseteq Found \cup {stamp}
    BY <2>3 DEF Found, Exists
  <2> QED
    BY <1>0, <2>1, <2>2, <2>4, FoundKept
<1>9. ASSUME NEW t \in Threads,
             \/ write(t) \/ panics(t) \/ append_fails(t) \/ rename_fails(t) \/ create_fails(t)
             \/ write_line(t)
      PROVE  FoundInv'
  <2>1. UNCHANGED <<files, stamp, file, proc, missed>>
    BY <1>9 DEF write, panics, append_fails, rename_fails, create_fails, write_line
  <2>2. \A u \in Threads : pc'[u] = "create" => pc[u] = "create"
    BY <1>0, <1>9 DEF write, panics, append_fails, rename_fails, create_fails, write_line,
                      Goto, Done, ThreadsOK
  <2> QED
    BY <1>1, <2>1, <2>2 DEF FoundInv
<1> QED
  BY <1>2, <1>3, <1>4, <1>5, <1>6, <1>7, <1>8, <1>9
  DEF Next, Opens, Continue, exit, abort

\* Once a process is up, the directory holds files of KEEP_RUNS runs, not counting
\* the runs of which its own prune missed a file, wherever earlier processes died,
\* whatever earlier prunes left and whatever local time did (prune_runs,
\* OpenLog::rotate, logging.rs).
THEOREM DirectoryIsBounded == Spec => []RunsBounded
<1>1. Init => FoundInv
  BY DEF Init, FoundInv
<1>2. BaseInv /\ FoundInv /\ [Next]_vars => FoundInv'
  BY NextFound
<1>3. BaseInv /\ FoundInv => RunsBounded
  <2> SUFFICES ASSUME BaseInv, FoundInv, proc = "up", file # "inert"
               PROVE  Cardinality(Found \ missed) <= KeepRuns
    <3>1. Found \ missed =
            {s \in Stamps \ missed : \E o \in Ordinals : o <= ThreeDigits /\ Exists(s, o)}
      BY DEF Found
    <3> QED
      BY <3>1 DEF RunsBounded
  <2>1. file \in {"named", "unlinked"} /\ stamp \in Stamps
    BY BaseParts DEF LogOK
  <2>2. CASE file = "unlinked"
    BY <2>2 DEF FoundInv
  <2>3. CASE file = "named"
    <3>1. PICK S \in SUBSET Stamps, T \in SUBSET Stamps :
            S = (Found \cup {stamp}) \ missed /\ T = Found \ missed /\ T \subseteq S
      <4>1. /\ Found \ missed \in SUBSET Stamps
            /\ (Found \cup {stamp}) \ missed \in SUBSET Stamps
            /\ Found \ missed \subseteq (Found \cup {stamp}) \ missed
        BY <2>1 DEF Found
      <4> QED
        BY <4>1, Zenon
    <3>2. Cardinality(T) \in Nat /\ Cardinality(S) \in Nat /\ Cardinality(T) <= Cardinality(S)
      BY <3>1, FoundSmaller
    <3>3. Cardinality(S) <= KeepRuns
      BY <2>3, <3>1 DEF FoundInv
    <3>4. Cardinality(T) <= KeepRuns
      BY <3>2, <3>3, BoundsAssumption
    <3> QED
      BY <3>1, <3>4
  <2> QED
    BY <2>1, <2>2, <2>3
<1> QED
  BY BaseInvariant, <1>1, <1>2, <1>3, PTL DEF Spec
-----------------------------------------------------------------------------
(***************************************************************************)
(* Recent runs read back                                                   *)
(***************************************************************************)
\* As long as local time does not go back: later stamps were opened later, and
\* the process at work opened its stamp last, so that it is not pruned.
OrderInv ==
    /\ \A r, s \in Stamps : opened[r] # 0 /\ opened[s] # 0 /\ r < s => opened[r] < opened[s]
    /\ file # "unlinked"
    /\ file # "inert" => \A r \in Stamps : opened[r] <= opened[stamp]

LEMMA OpenedNumbers ==
    ASSUME BaseInv
    PROVE  \A s \in Stamps : opened[s] \in Nat /\ opened[s] <= runs /\ s \in Nat /\ runs \in Nat
  BY BaseParts, BoundsAssumption DEF HistoryOK, OpenedInv, CountOK, Stamps

\* No stamp was opened after the one opened last.
LEMMA LastIsRecent ==
    ASSUME BaseInv, NEW s \in Stamps, opened[s] # 0, \A r \in Stamps : opened[r] <= opened[s]
    PROVE  Recent(s)
<1>1. {r \in Stamps : opened[r] > opened[s]} = {}
  BY OpenedNumbers
<1> QED
  BY <1>1, FS_EmptySet, BoundsAssumption DEF Recent

\* A recent run is never in excess: the runs found after it were opened after it.
LEMMA RecentStays ==
    ASSUME BaseInv, OrderInv, NEW s \in Stamps, Recent(s), NEW listed \in SUBSET RunFiles
    PROVE  ~excess(s, StampsOf(listed))
<1>0. \A r \in StampsOf(listed) : r \in Stamps /\ opened[r] # 0
  BY BaseParts DEF StampsOf, RunFiles, OpenedInv
<1>1. {r \in StampsOf(listed) : r > s} \subseteq {r \in Stamps : opened[r] > opened[s]}
  <2> SUFFICES ASSUME NEW r \in StampsOf(listed), r > s
               PROVE  r \in Stamps /\ opened[r] > opened[s]
    OBVIOUS
  <2>1. r \in Stamps /\ opened[r] # 0 /\ opened[s] # 0
    BY <1>0 DEF Recent
  <2>2. s < r /\ opened[r] \in Nat /\ opened[s] \in Nat
    BY <2>1, OpenedNumbers
  <2>3. opened[s] < opened[r]
    BY <2>1, <2>2 DEF OrderInv
  <2> QED
    BY <2>1, <2>2, <2>3
<1>2. PICK S \in SUBSET Stamps, T \in SUBSET Stamps :
        /\ S = {r \in Stamps : opened[r] > opened[s]} /\ T = {r \in StampsOf(listed) : r > s}
        /\ T \subseteq S
  <2>1. /\ {r \in Stamps : opened[r] > opened[s]} \in SUBSET Stamps
        /\ {r \in StampsOf(listed) : r > s} \in SUBSET Stamps
    BY <1>0
  <2> QED
    BY <1>1, <2>1, Zenon
<1>3. Cardinality(T) \in Nat /\ Cardinality(S) \in Nat /\ Cardinality(T) <= Cardinality(S)
  BY <1>2, FoundSmaller
<1>4. Cardinality(S) < KeepRuns
  BY <1>2 DEF Recent
<1>5. ~(Cardinality(T) >= KeepRuns)
  BY <1>3, <1>4, BoundsAssumption
<1> QED
  BY <1>2, <1>5 DEF excess

\* So a prune leaves its files alone.
LEMMA PruneKeepsRecent ==
    ASSUME BaseInv, OrderInv, prune_runs, NEW s \in Stamps, Recent(s)
    PROVE  \A o \in Ordinals : files'[s][o] = files[s][o]
<1>1. PICK listed \in SUBSET RunFiles, stuck \in SUBSET RunFiles :
        \A r \in Stamps : \A o \in Ordinals :
            files'[r][o] = IF Removed(r, o, listed, stuck) THEN Absent ELSE files[r][o]
  BY BaseParts, PruneEffect
<1>2. ~excess(s, StampsOf(listed))
  BY RecentStays
<1> QED
  BY <1>1, <1>2 DEF Removed

LEMMA NextOrder ==
    ASSUME ~ClockBack, BaseInv, OrderInv, [Next]_vars
    PROVE  OrderInv'
<1> USE DEF openLog, threads, counters, history
<1>0. DirOK /\ LogOK /\ NamedOK /\ StepsInv /\ OpenedInv /\ HistoryOK /\ CountOK
  BY BaseParts
<1>1. ASSUME UNCHANGED <<opened, file, stamp>> PROVE OrderInv'
  BY <1>1 DEF OrderInv
<1>2. CASE open_fails \/ Ends
  BY <1>2 DEF open_fails, Ends, OrderInv
<1>3. ASSUME NEW s \in Stamps, open_file(s) PROVE OrderInv'
  <2>1. /\ opened' = [opened EXCEPT ![s] = runs + 1] /\ stamp' = s /\ file' = "named"
        /\ \A r \in Stamps : opened[r] # 0 => r <= s
    BY <1>3 DEF open_file, now
  <2>2. opened'[s] = runs + 1 /\ \A r \in Stamps \ {s} : opened'[r] = opened[r]
    BY <1>0, <2>1 DEF HistoryOK
  <2>3. ASSUME NEW q \in Stamps, NEW r \in Stamps, opened'[q] # 0, opened'[r] # 0, q < r
        PROVE  opened'[q] < opened'[r]
    <3>1. q # s
      BY <2>1, <2>2, <2>3, OpenedNumbers
    <3>2. CASE r = s
      BY <2>2, <3>1, <3>2, OpenedNumbers
    <3>3. CASE r # s
      BY <2>2, <2>3, <3>1, <3>3 DEF OrderInv
    <3> QED
      BY <3>2, <3>3
  <2>4. \A r \in Stamps : opened'[r] <= opened'[s]
    BY <2>2, OpenedNumbers
  <2> QED
    BY <2>1, <2>3, <2>4 DEF OrderInv
<1>4. CASE prune_runs
  <2>1. /\ UNCHANGED <<opened, stamp>> /\ file = "named" /\ handle = 0 /\ stamp \in Stamps
        /\ opened[stamp] # 0 /\ Exists(stamp, 0)
        /\ file' = IF files'[stamp][0] = Absent THEN "unlinked" ELSE "named"
    BY <1>0, <1>4 DEF prune_runs, StepsInv, LogOK, OpenedInv, NamedOK
  <2>2. Recent(stamp)
    BY <2>1, LastIsRecent DEF OrderInv
  <2>3. files'[stamp][0] = files[stamp][0]
    BY <1>4, <2>1, <2>2, PruneKeepsRecent, OrdinalTypes
  <2> QED
    BY <2>1, <2>3 DEF OrderInv, Exists
<1>5. ASSUME NEW t \in Threads, (\E w \in 1..MaxWeight : append(t, w)) \/ rename(t) \/ create(t)
      PROVE  UNCHANGED <<opened, file, stamp>>
  BY <1>5 DEF append, rename, create
<1> QED
  BY <1>1, <1>2, <1>3, <1>4, <1>5, OtherSteps

\* Everything written is older than the next record.
OldInv ==
    \A s \in Stamps : \A o \in Ordinals : Exists(s, o) =>
        \A i \in DOMAIN files[s][o] : files[s][o][i] < next

LEMMA NextOld ==
    ASSUME BaseInv, OldInv, [Next]_vars
    PROVE  OldInv'
<1> USE DEF openLog, threads, counters, history
<1>0. DirOK /\ OpenedInv /\ LogOK /\ next \in Nat /\ DOMAIN << >> = {}
  BY BaseParts, BoundsAssumption DEF CountOK
<1> SUFFICES ASSUME NEW s \in Stamps, NEW o \in Ordinals, files'[s][o] # Absent
             PROVE  \A i \in DOMAIN files'[s][o] : files'[s][o][i] < next'
  BY DEF OldInv, Exists
<1>1. \A p \in Ordinals : files[s][p] # Absent =>
        \A i \in DOMAIN files[s][p] : files[s][p][i] < next
  BY DEF OldInv, Exists
<1>2. ASSUME \/ files'[s][o] = files[s][o]
             \/ files'[s][o] = files[s][0]
             \/ files'[s][o] = << >>,
             next' = next
      PROVE  \A i \in DOMAIN files'[s][o] : files'[s][o][i] < next'
  BY <1>0, <1>1, <1>2, OrdinalTypes
<1>3. ASSUME NEW t \in Threads, NEW w \in 1..MaxWeight, append(t, w)
      PROVE  \A i \in DOMAIN files'[s][o] : files'[s][o][i] < next'
  <2>0. next' = next + 1 /\ \A p \in Ordinals : files[s][p] # Absent =>
          \A i \in DOMAIN files[s][p] : files[s][p][i] \in Nat
    <3>1. next' = next + 1
      BY <1>3 DEF append
    <3>2. ASSUME NEW p \in Ordinals, files[s][p] # Absent, NEW i \in DOMAIN files[s][p]
          PROVE  files[s][p][i] \in Nat
      <4>1. PICK q \in Seq(Records) : q = files[s][p]
        BY <1>0, <3>2 DEF DirOK, Content
      <4>2. \A j \in DOMAIN q : q[j] \in Records
        BY ElementOfSeq, LenProperties
      <4> QED
        BY <3>2, <4>1, <4>2, BoundsAssumption DEF Records
    <3> QED
      BY <3>1, <3>2
  <2>1. CASE files'[s][o] = files[s][o]
    BY <1>0, <1>1, <2>0, <2>1
  <2>2. CASE files'[s][o] # files[s][o]
    <3>1. s = stamp /\ o = handle /\ file = "named"
      BY <1>3, <2>2, AppendEffect
    <3>2. \A i \in DOMAIN files'[stamp][handle] : files'[stamp][handle][i] =
            IF i \in DOMAIN files[stamp][handle] THEN files[stamp][handle][i] ELSE next
      BY <1>3, <3>1, AppendContent
    <3>3. files[s][o] # Absent
      BY <1>3, <3>1, AppendEffect, AbsentAssumption
    <3> QED
      BY <1>0, <1>1, <2>0, <3>1, <3>2, <3>3
  <2> QED
    BY <2>1, <2>2
<1>4. CASE prune_runs
  <2>1. files'[s][o] = files[s][o] /\ next' = next
    BY <1>0, <1>4, PruneRemoves DEF prune_runs
  <2> QED
    BY <1>2, <2>1
<1>5. ASSUME NEW r \in Stamps, open_file(r)
      PROVE  \A i \in DOMAIN files'[s][o] : files'[s][o][i] < next'
  <2>1. (files'[s][o] = files[s][o] \/ files'[s][o] = << >>) /\ next' = next
    BY <1>0, <1>5, OpenEffect DEF open_file
  <2> QED
    BY <1>2, <2>1
<1>6. ASSUME NEW t \in Threads, rename(t)
      PROVE  \A i \in DOMAIN files'[s][o] : files'[s][o][i] < next'
  <2>1. (files'[s][o] = files[s][o] \/ files'[s][o] = files[s][0]) /\ next' = next
    BY <1>6, RenameEffect DEF rename
  <2> QED
    BY <1>2, <2>1
<1>7. ASSUME NEW t \in Threads, create(t)
      PROVE  \A i \in DOMAIN files'[s][o] : files'[s][o][i] < next'
  <2>1. (files'[s][o] = files[s][o] \/ files'[s][o] = << >>) /\ next' = next
    BY <1>7, CreateEffect DEF create
  <2> QED
    BY <1>2, <2>1
<1>8. ASSUME NEW t \in Threads,
             \/ write(t) \/ panics(t) \/ append_fails(t) \/ rename_fails(t) \/ create_fails(t)
             \/ write_line(t) \/ abort(t)
      PROVE  UNCHANGED <<files, next>>
  BY <1>8 DEF write, panics, append_fails, rename_fails, create_fails, write_line, abort, Ends
<1>9. open_fails \/ exit \/ UNCHANGED vars => UNCHANGED <<files, next>>
  BY DEF open_fails, exit, Ends, vars
<1> QED
  BY <1>2, <1>3, <1>4, <1>5, <1>6, <1>7, <1>8, <1>9 DEF Next, Opens, Continue

\* The names a run has used: its rotations, the file it writes to being the last
\* of them when the announced one could not be created again.
NamesInv ==
    file = "named" /\ stamp \notin reused =>
        /\ \A o \in Ordinals : o # 0 /\ Exists(stamp, o) => o <= rotations
        /\ \A t \in Threads : pc[t] = "rename" =>
            \A o \in Ordinals : o # 0 /\ Exists(stamp, o) => o < rotations
        /\ handle # 0 =>
            ~Exists(stamp, 0) /\ \A o \in Ordinals : Exists(stamp, o) => o <= handle
        /\ \A t \in Threads : pc[t] = "create" => handle # 0

LEMMA NextNames ==
    ASSUME BaseInv, OrderInv, NamesInv, [Next]_vars
    PROVE  NamesInv'
<1> USE DEF openLog, threads, counters, history
<1>0. /\ DirOK /\ LogOK /\ NamedOK /\ ThreadsOK /\ StepsInv /\ HistoryOK
      /\ 0 \in Ordinals /\ Ordinals \subseteq Nat
  BY BaseParts, OrdinalTypes
<1> SUFFICES ASSUME file' = "named", stamp' \notin reused'
             PROVE  /\ \A o \in Ordinals : o # 0 /\ files'[stamp'][o] # Absent => o <= rotations'
                    /\ \A t \in Threads : pc'[t] = "rename" =>
                        \A o \in Ordinals : o # 0 /\ files'[stamp'][o] # Absent => o < rotations'
                    /\ handle' # 0 => /\ files'[stamp'][0] = Absent
                                      /\ \A o \in Ordinals :
                                            files'[stamp'][o] # Absent => o <= handle'
                    /\ \A t \in Threads : pc'[t] = "create" => handle' # 0
  BY DEF NamesInv, Exists
<1> DEFINE Goal ==
        /\ \A o \in Ordinals : o # 0 /\ files'[stamp'][o] # Absent => o <= rotations'
        /\ \A t \in Threads : pc'[t] = "rename" =>
            \A o \in Ordinals : o # 0 /\ files'[stamp'][o] # Absent => o < rotations'
        /\ handle' # 0 => /\ files'[stamp'][0] = Absent
                          /\ \A o \in Ordinals : files'[stamp'][o] # Absent => o <= handle'
        /\ \A t \in Threads : pc'[t] = "create" => handle' # 0
<1>1. ASSUME UNCHANGED <<files, stamp, file, handle, rotations, reused>>,
             \A t \in Threads : pc'[t] \in {"rename", "create"} => pc'[t] = pc[t]
      PROVE  Goal
  BY <1>1 DEF NamesInv, Exists
<1>2. CASE open_fails \/ Ends
  BY <1>2 DEF open_fails, Ends
<1>3. ASSUME NEW s \in Stamps, open_file(s) PROVE Goal
  <2>1. /\ stamp' = s /\ handle' = 0 /\ pc' = pc /\ \A t \in Threads : pc[t] = "idle"
        /\ \A o \in Ordinals \ {0} : files[s][o] = Absent
    BY <1>0, <1>3 DEF open_file, StepsInv, Exists
  <2>2. \A o \in Ordinals \ {0} : files'[s][o] = Absent
    BY <1>0, <1>3, <2>1, OpenEffect
  <2> QED
    BY <2>1, <2>2
<1>4. CASE prune_runs
  <2>1. /\ UNCHANGED <<stamp, handle, rotations, pc, reused>> /\ stamp \in Stamps
        /\ file = "named" /\ handle = 0 /\ \A t \in Threads : pc[t] = "idle"
    BY <1>0, <1>4 DEF prune_runs, StepsInv, LogOK
  <2>2. \A o \in Ordinals : files'[stamp][o] # Absent => files[stamp][o] # Absent
    BY <1>0, <1>4, <2>1, PruneRemoves
  <2> QED
    BY <2>1, <2>2 DEF NamesInv, Exists
<1>5. ASSUME NEW t \in Threads, NEW w \in 1..MaxWeight, append(t, w) PROVE Goal
  <2>1. /\ UNCHANGED <<stamp, handle, file, reused>> /\ pc[t] = "append" /\ stamp \in Stamps
        /\ lock = t
    BY <1>5, AppendEffect DEF append, At
  <2>2. \A u \in Threads \ {t} : pc[u] \notin {"rename", "create"} /\ pc'[u] = pc[u]
    BY <1>0, <1>5, <2>1 DEF ThreadsOK, append, Goto, Done
  <2>3. \A o \in Ordinals : files'[stamp][o] # Absent => files[stamp][o] # Absent
    BY <1>0, <1>5, <2>1, AppendEffect, AbsentAssumption
  <2>4. /\ \/ rotations' = rotations + 1 /\ pc'[t] = "rename"
           \/ rotations' = rotations /\ pc'[t] \in {"idle", "abort"}
        /\ rotations \in Nat
    BY <1>0, <1>5 DEF append, Goto, Done, ThreadsOK, LogOK
  <2>5. /\ \A o \in Ordinals : o # 0 /\ files'[stamp'][o] # Absent => o <= rotations
        /\ handle' # 0 => /\ files'[stamp'][0] = Absent
                          /\ \A o \in Ordinals : files'[stamp'][o] # Absent => o <= handle'
    BY <1>0, <2>1, <2>3 DEF NamesInv, Exists
  <2>6. \A u \in Threads : pc'[u] # "create"
    BY <2>2, <2>4
  <2>7. CASE rotations' = rotations + 1
    <3>1. \A o \in Ordinals : o # 0 /\ files'[stamp'][o] # Absent =>
            o <= rotations' /\ o < rotations'
      BY <1>0, <2>4, <2>5, <2>7
    <3> QED
      BY <2>5, <2>6, <3>1
  <2>8. CASE rotations' = rotations /\ pc'[t] \in {"idle", "abort"}
    <3>1. \A u \in Threads : pc'[u] # "rename"
      BY <2>2, <2>8
    <3> QED
      BY <2>5, <2>6, <2>8, <3>1
  <2> QED
    BY <2>4, <2>7, <2>8
<1>6. ASSUME NEW t \in Threads, rename(t) PROVE Goal
  <2>1. /\ UNCHANGED <<stamp, file, reused, rotations>> /\ pc[t] = "rename" /\ stamp \in Stamps
        /\ lock = t /\ pc' = [pc EXCEPT ![t] = "create"] /\ rotations \in Ordinals \ {0}
        /\ handle' = IF handle = 0 THEN rotations ELSE handle
    BY <1>6, RenameEffect DEF rename, At, Goto, aside
  <2>2. \A u \in Threads : pc'[u] # "rename"
    BY <1>0, <2>1 DEF ThreadsOK
  <2>3. handle' = rotations
    BY <1>6, <2>1, RenameEffect DEF NamesInv
  <2>4. /\ files'[stamp][0] = Absent
        /\ \A o \in Ordinals \ {0, rotations} : files'[stamp][o] = files[stamp][o]
    BY <1>6, <2>1, RenameEffect
  <2>5. rotations \in Nat /\ \A o \in Ordinals : o # 0 /\ files[stamp][o] # Absent => o < rotations
    BY <1>0, <2>1 DEF NamesInv, Exists
  <2>6. ASSUME NEW o \in Ordinals, files'[stamp][o] # Absent PROVE o # 0 /\ o <= rotations
    <3>1. o # 0 /\ o \in Nat
      BY <1>0, <2>4, <2>6
    <3>2. CASE o = rotations
      BY <2>5, <3>1, <3>2
    <3>3. CASE o # rotations
      <4>1. files[stamp][o] # Absent
        BY <2>4, <2>6, <3>1, <3>3
      <4> QED
        BY <2>5, <3>1, <4>1
    <3> QED
      BY <3>2, <3>3
  <2> QED
    BY <2>1, <2>2, <2>3, <2>4, <2>6
<1>7. ASSUME NEW t \in Threads, create(t) PROVE Goal
  <2>1. /\ UNCHANGED <<stamp, file, reused, rotations>> /\ pc[t] = "create" /\ stamp \in Stamps
        /\ lock = t /\ handle' = 0
    BY <1>7, CreateEffect DEF create, At
  <2>2. \A u \in Threads : pc'[u] \notin {"rename", "create"}
    BY <1>0, <1>7, <2>1 DEF ThreadsOK, create, Done, Goto
  <2>3. \A o \in Ordinals \ {0} : files'[stamp][o] = files[stamp][o]
    BY <1>7, <2>1, CreateEffect
  <2> QED
    BY <1>0, <2>1, <2>2, <2>3 DEF NamesInv, Exists
<1>8. ASSUME NEW t \in Threads,
             \/ write(t) \/ panics(t) \/ append_fails(t) \/ rename_fails(t) \/ create_fails(t)
             \/ write_line(t)
      PROVE  Goal
  <2>1. UNCHANGED <<files, stamp, file, handle, rotations, reused>>
    BY <1>8 DEF write, panics, append_fails, rename_fails, create_fails, write_line
  <2>2. \A u \in Threads : pc'[u] \in {"rename", "create"} => pc'[u] = pc[u]
    BY <1>0, <1>8 DEF write, panics, append_fails, rename_fails, create_fails, write_line,
                      Goto, Done, ThreadsOK
  <2> QED
    BY <1>1, <2>1, <2>2
<1>9. UNCHANGED vars => Goal
  BY <1>1 DEF vars
<1> QED
  BY <1>2, <1>3, <1>4, <1>5, <1>6, <1>7, <1>8, <1>9 DEF Next, Opens, Continue, exit, abort

\* What RecentRunsReadBack says of one run: every record its writes accepted is in
\* one of its files, and its files are in the order of the writes.
Has(s, n) == \E o \in Ordinals : Exists(s, o) /\ n \in Elements(files[s][o])
Complete(s) == \A n \in Records : n \in written[s] <=> Has(s, n)
InOrder(s) ==
    \A o \in Ordinals, p \in Ordinals : Exists(s, o) /\ Exists(s, p) =>
        \A i \in DOMAIN files[s][o], j \in DOMAIN files[s][p] :
            Before(o, p) \/ (o = p /\ i < j) => files[s][o][i] <= files[s][p][j]
ReadInv == \A s \in Stamps : s \notin reused /\ Recent(s) => Complete(s) /\ InOrder(s)

LEMMA ReadInvSays ==
    ASSUME BaseInv, ReadInv
    PROVE  RecentRunsReadBack
<1>0. DirOK /\ HistoryOK
  BY BaseParts
<1> SUFFICES ASSUME NEW s \in Stamps, s \notin reused, Recent(s)
             PROVE  /\ written[s] =
                        UNION {Elements(files[s][o]) : o \in {q \in Ordinals : Exists(s, q)}}
                    /\ \A o, p \in {q \in Ordinals : Exists(s, q)} :
                        \A i \in DOMAIN files[s][o], j \in DOMAIN files[s][p] :
                            Before(o, p) \/ (o = p /\ i < j) => files[s][o][i] <= files[s][p][j]
  BY DEF RecentRunsReadBack
<1>1. Complete(s) /\ InOrder(s)
  BY DEF ReadInv
<1>2. written[s] \subseteq Records
  BY <1>0 DEF HistoryOK
<1>3. ASSUME NEW o \in Ordinals, Exists(s, o), NEW n \in Elements(files[s][o])
      PROVE  n \in Records
  <2>1. PICK q \in Seq(Records) : q = files[s][o]
    BY <1>0, <1>3 DEF DirOK, Content, Exists
  <2>2. \A j \in DOMAIN q : q[j] \in Records
    BY ElementOfSeq, LenProperties
  <2> QED
    BY <1>3, <2>1, <2>2 DEF Elements
<1>4. written[s] = UNION {Elements(files[s][o]) : o \in {q \in Ordinals : Exists(s, q)}}
  BY <1>1, <1>2, <1>3 DEF Complete, Has
<1> QED
  BY <1>1, <1>4 DEF InOrder

\* Steps that leave a run's files alone, but for an empty one.
LEMMA ReadSame ==
    ASSUME NEW s \in Stamps, Complete(s), InOrder(s), written'[s] = written[s],
           \A o \in Ordinals : \/ files'[s][o] = files[s][o]
                               \/ files[s][o] = Absent /\ files'[s][o] = << >>
    PROVE  Complete(s)' /\ InOrder(s)'
<1>1. DOMAIN << >> = {} /\ Elements(<< >>) = {}
  BY DEF Elements
<1>2. \A n : Has(s, n)' <=> Has(s, n)
  <2> SUFFICES ASSUME NEW n PROVE Has(s, n)' <=> Has(s, n)
    OBVIOUS
  <2>1. \A o \in Ordinals :
          files'[s][o] # Absent /\ n \in Elements(files'[s][o]) <=>
            files[s][o] # Absent /\ n \in Elements(files[s][o])
    BY <1>1, EmptyFile
  <2> QED
    BY <2>1 DEF Has, Exists
<1>3. Complete(s)'
  BY <1>2 DEF Complete
<1>4. ASSUME NEW o \in Ordinals, NEW p \in Ordinals, files'[s][o] # Absent, files'[s][p] # Absent,
             NEW i \in DOMAIN files'[s][o], NEW j \in DOMAIN files'[s][p],
             Before(o, p) \/ (o = p /\ i < j)
      PROVE  files'[s][o][i] <= files'[s][p][j]
  <2>1. files'[s][o] = files[s][o] /\ files'[s][p] = files[s][p]
    BY <1>1, <1>4
  <2> QED
    BY <1>4, <2>1 DEF InOrder, Exists
<1>5. InOrder(s)'
  BY <1>4 DEF InOrder, Exists, Before
<1> QED
  BY <1>3, <1>5

\* A record goes to the end of the last file.
LEMMA ReadAppend ==
    ASSUME BaseInv, OrderInv, OldInv, NamesInv, NEW t \in Threads, NEW w \in 1..MaxWeight,
           append(t, w), stamp \in Stamps, stamp \notin reused, Complete(stamp), InOrder(stamp)
    PROVE  Complete(stamp)' /\ InOrder(stamp)'
<1>0. DirOK /\ HistoryOK /\ LogOK /\ StepsInv
  BY BaseParts
<1>1. file = "named" /\ next \in Records /\ handle \in Ordinals /\ stamp' = stamp
  <2>1. pc[t] = "append"
    BY DEF append, At
  <2> QED
    BY <1>0, <2>1, AppendEffect DEF OrderInv, StepsInv, LogOK, Working, append
<1> DEFINE old == files[stamp][handle]
           long == files'[stamp][handle]
<1>2. /\ old \in Seq(Records) /\ long \in Seq(Records)
      /\ Len(old) \in Nat
      /\ DOMAIN old = 1..Len(old) /\ DOMAIN long = 1..(Len(old) + w)
      /\ \A i \in DOMAIN long : long[i] = IF i \in DOMAIN old THEN old[i] ELSE next
      /\ Elements(long) = Elements(old) \cup {next}
  BY <1>1, AppendContent
<1>3. \A p \in Ordinals : p # handle => files'[stamp][p] = files[stamp][p]
  BY <1>1, AppendEffect
<1>4. old # Absent /\ long # Absent
  BY <1>2, AbsentAssumption
<1>5. written'[stamp] = written[stamp] \cup {next}
  BY <1>0 DEF append, HistoryOK
<1>6. ASSUME NEW n \in Records PROVE Has(stamp, n)' <=> Has(stamp, n) \/ n = next
  <2>1. Has(stamp, n)' <=>
            \E o \in Ordinals : files'[stamp][o] # Absent /\ n \in Elements(files'[stamp][o])
    BY <1>1 DEF Has, Exists
  <2>2. Has(stamp, n) <=>
            \E o \in Ordinals : files[stamp][o] # Absent /\ n \in Elements(files[stamp][o])
    BY DEF Has, Exists
  <2> QED
    BY <1>1, <1>2, <1>3, <1>4, <2>1, <2>2
<1>7. Complete(stamp)'
  BY <1>1, <1>5, <1>6 DEF Complete
<1>8. ASSUME NEW o \in Ordinals, NEW p \in Ordinals,
             files'[stamp][o] # Absent, files'[stamp][p] # Absent,
             NEW i \in DOMAIN files'[stamp][o], NEW j \in DOMAIN files'[stamp][p],
             Before(o, p) \/ (o = p /\ i < j)
      PROVE  files'[stamp][o][i] <= files'[stamp][p][j]
  <2>0. /\ \A q \in Ordinals : files'[stamp][q] # Absent => files[stamp][q] # Absent
        /\ w \in Nat /\ next \in Nat
    BY <1>1, <1>3, <1>4, BoundsAssumption DEF Records
  <2>1. \/ files'[stamp][o][i] = files[stamp][o][i] /\ i \in DOMAIN files[stamp][o]
        \/ files'[stamp][o][i] = next /\ o = handle /\ i \notin DOMAIN files[stamp][o]
    <3>1. CASE o = handle
      BY <1>2, <1>8, <3>1
    <3>2. CASE o # handle
      BY <1>3, <1>8, <3>2
    <3> QED
      BY <3>1, <3>2
  <2>2. \/ files'[stamp][p][j] = files[stamp][p][j] /\ j \in DOMAIN files[stamp][p]
        \/ files'[stamp][p][j] = next
    BY <1>2, <1>3, <1>8
  <2>3. CASE files'[stamp][p][j] = next
    <3>1. CASE files'[stamp][o][i] = next
      BY <2>0, <2>3, <3>1
    <3>2. CASE files'[stamp][o][i] = files[stamp][o][i] /\ i \in DOMAIN files[stamp][o]
      <4>1. files[stamp][o][i] < next
        BY <1>8, <2>0, <3>2 DEF OldInv, Exists
      <4>2. files[stamp][o][i] \in Nat
        <5>1. PICK q \in Seq(Records) : q = files[stamp][o]
          BY <1>0, <1>8, <2>0 DEF DirOK, Content
        <5>2. \A k \in DOMAIN q : q[k] \in Records
          BY ElementOfSeq, LenProperties
        <5> QED
          BY <3>2, <5>1, <5>2, BoundsAssumption DEF Records
      <4> QED
        BY <2>0, <2>3, <3>2, <4>1, <4>2
    <3> QED
      BY <2>1, <3>1, <3>2
  <2>4. CASE files'[stamp][p][j] = files[stamp][p][j] /\ j \in DOMAIN files[stamp][p]
    <3>1. CASE files'[stamp][o][i] = files[stamp][o][i] /\ i \in DOMAIN files[stamp][o]
      BY <1>8, <2>0, <2>4, <3>1 DEF InOrder, Exists
    <3>2. CASE o = handle /\ i \notin DOMAIN files[stamp][o]
      <4>1. o # p
        <5> SUFFICES ASSUME o = p PROVE FALSE
          OBVIOUS
        <5>1. i < j
          BY <1>8, OrdinalTypes DEF Before
        <5>2. j \in 1..Len(old) /\ i \in 1..(Len(old) + w) /\ i \notin 1..Len(old)
          BY <1>2, <1>8, <2>4, <3>2
        <5> QED
          BY <1>2, <2>0, <5>1, <5>2
      <4>2. handle # 0 /\ (p = 0 \/ handle < p)
        BY <1>8, <3>2, <4>1 DEF Before
      <4>3. files[stamp][0] = Absent /\ p <= handle
        BY <1>1, <1>8, <2>0, <4>2 DEF NamesInv, Exists
      <4> QED
        BY <1>1, <1>8, <2>0, <4>2, <4>3, OrdinalTypes
    <3> QED
      BY <2>1, <3>1, <3>2
  <2> QED
    BY <2>2, <2>3, <2>4
<1>9. InOrder(stamp)'
  BY <1>1, <1>8 DEF InOrder, Exists, Before
<1> QED
  BY <1>7, <1>9

\* The announced file becomes the last of the rotations.
LEMMA ReadRename ==
    ASSUME BaseInv, OrderInv, NamesInv, NEW t \in Threads, rename(t),
           stamp \notin reused, Complete(stamp), InOrder(stamp)
    PROVE  Complete(stamp)' /\ InOrder(stamp)'
<1>0. LogOK /\ StepsInv /\ 0 \in Ordinals /\ Ordinals \subseteq Nat
  BY BaseParts, OrdinalTypes
<1>1. /\ rotations \in Ordinals \ {0} /\ files[stamp][0] # Absent
      /\ files'[stamp][rotations] = files[stamp][0] /\ files'[stamp][0] = Absent
      /\ \A p \in Ordinals \ {0, rotations} : files'[stamp][p] = files[stamp][p]
      /\ stamp' = stamp /\ written' = written
  BY RenameEffect DEF rename, history, Exists
<1>2. file = "named" /\ pc[t] = "rename"
  BY <1>0 DEF rename, At, OrderInv, StepsInv, Working, LogOK
<1>3. \A o \in Ordinals : o # 0 /\ files[stamp][o] # Absent => o < rotations
  BY <1>2 DEF NamesInv, Exists
<1> DEFINE was(o) == IF o = rotations THEN 0 ELSE o
<1>4. \A o \in Ordinals : files'[stamp][o] # Absent =>
        was(o) \in Ordinals /\ files'[stamp][o] = files[stamp][was(o)] /\ o # 0
  BY <1>0, <1>1
<1>5. ASSUME NEW n \in Records PROVE Has(stamp, n)' <=> Has(stamp, n)
  <2>1. Has(stamp, n)' <=>
            \E o \in Ordinals : files'[stamp][o] # Absent /\ n \in Elements(files'[stamp][o])
    BY <1>1 DEF Has, Exists
  <2>2. Has(stamp, n) <=>
            \E o \in Ordinals : files[stamp][o] # Absent /\ n \in Elements(files[stamp][o])
    BY DEF Has, Exists
  <2>3. ASSUME NEW o \in Ordinals, files[stamp][o] # Absent
        PROVE  \E p \in Ordinals : files'[stamp][p] = files[stamp][o]
    <3>1. CASE o = 0
      BY <1>1, <3>1
    <3>2. CASE o # 0
      BY <1>0, <1>1, <1>3, <2>3, <3>2
    <3> QED
      BY <3>1, <3>2
  <2> QED
    BY <1>4, <2>1, <2>2, <2>3
<1>6. Complete(stamp)'
  BY <1>1, <1>5 DEF Complete
<1>7. ASSUME NEW o \in Ordinals, NEW p \in Ordinals,
             files'[stamp][o] # Absent, files'[stamp][p] # Absent,
             NEW i \in DOMAIN files'[stamp][o], NEW j \in DOMAIN files'[stamp][p],
             Before(o, p) \/ (o = p /\ i < j)
      PROVE  files'[stamp][o][i] <= files'[stamp][p][j]
  <2>1. Before(was(o), was(p)) \/ (was(o) = was(p) /\ i < j)
    <3>1. CASE o = p /\ i < j
      BY <3>1
    <3>2. CASE Before(o, p)
      <4>1. o < p /\ p # 0 /\ o # 0
        BY <1>4, <1>7, <3>2 DEF Before
      <4>2. o # rotations
        <5> SUFFICES ASSUME o = rotations PROVE FALSE
          OBVIOUS
        <5>1. p # rotations /\ files[stamp][p] # Absent
          BY <1>0, <1>1, <1>7, <4>1
        <5> QED
          BY <1>0, <1>3, <4>1, <5>1
      <4> QED
        BY <4>1, <4>2 DEF Before
    <3> QED
      BY <1>7, <3>1, <3>2
  <2>2. /\ was(o) \in Ordinals /\ files'[stamp][o] = files[stamp][was(o)]
        /\ was(p) \in Ordinals /\ files'[stamp][p] = files[stamp][was(p)]
    BY <1>4, <1>7
  <2> HIDE DEF was
  <2> QED
    BY <1>7, <2>1, <2>2 DEF InOrder, Exists
<1>8. InOrder(stamp)'
  BY <1>1, <1>7 DEF InOrder, Exists, Before
<1> QED
  BY <1>6, <1>8

LEMMA NextRead ==
    ASSUME ~ClockBack, BaseInv, OrderInv, OldInv, NamesInv, ReadInv, [Next]_vars
    PROVE  ReadInv'
<1> USE DEF openLog, threads, counters, history
<1>0. /\ DirOK /\ LogOK /\ ThreadsOK /\ StepsInv /\ HistoryOK /\ OpenedInv
      /\ 0 \in Ordinals
  BY BaseParts, OrdinalTypes
<1> SUFFICES ASSUME NEW s \in Stamps, s \notin reused', Recent(s)'
             PROVE  Complete(s)' /\ InOrder(s)'
  BY DEF ReadInv
<1>1. ASSUME UNCHANGED <<opened, reused>> PROVE Complete(s) /\ InOrder(s)
  BY <1>1 DEF ReadInv, Recent
<1>2. ASSUME UNCHANGED <<files, opened, written, reused>> PROVE Complete(s)' /\ InOrder(s)'
  BY <1>1, <1>2, ReadSame
<1>3. CASE open_fails \/ Ends
  BY <1>2, <1>3 DEF open_fails, Ends
<1>4. ASSUME NEW r \in Stamps, open_file(r) PROVE Complete(s)' /\ InOrder(s)'
  <2>1. /\ opened' = [opened EXCEPT ![r] = runs + 1] /\ written' = written
        /\ \A q \in Stamps : opened[q] # 0 => q <= r
        /\ s \notin reused
    BY <1>4 DEF open_file, now
  <2>2. opened'[r] = runs + 1 /\ \A q \in Stamps \ {r} : opened'[q] = opened[q]
    BY <1>0, <2>1 DEF HistoryOK
  <2>3. \A o \in Ordinals : \/ files'[s][o] = files[s][o]
                            \/ files[s][o] = Absent /\ files'[s][o] = << >>
    BY <1>0, <1>4, OpenEffect DEF Exists
  <2>4. CASE opened[s] = 0
    <3>1. written[s] = {} /\ \A o \in Ordinals : files[s][o] = Absent
      BY <1>0, <2>4 DEF OpenedInv, Exists
    <3>2. Complete(s) /\ InOrder(s)
      BY <3>1 DEF Complete, Has, InOrder, Exists
    <3> QED
      BY <2>1, <2>3, <3>2, ReadSame
  <2>5. CASE opened[s] # 0
    <3>1. Recent(s)
      <4>1. CASE s = r
        <5>1. \A q \in Stamps : opened[q] <= opened[s]
          <6> SUFFICES ASSUME NEW q \in Stamps, opened[q] # 0, q # s PROVE opened[q] <= opened[s]
            BY OpenedNumbers
          <6>1. q < s
            BY <2>1, <4>1, OpenedNumbers
          <6>2. opened[q] < opened[s]
            BY <2>5, <6>1 DEF OrderInv
          <6> QED
            BY <6>2, OpenedNumbers
        <5> QED
          BY <2>5, <5>1, LastIsRecent
      <4>2. CASE s # r
        <5>1. /\ opened'[s] = opened[s]
              /\ \A q \in Stamps : opened[q] > opened[s] => opened'[q] > opened'[s]
          BY <2>2, <4>2, OpenedNumbers
        <5>2. PICK S \in SUBSET Stamps, T \in SUBSET Stamps :
                /\ S = {q \in Stamps : opened'[q] > opened'[s]}
                /\ T = {q \in Stamps : opened[q] > opened[s]}
                /\ T \subseteq S
          <6>1. /\ {q \in Stamps : opened'[q] > opened'[s]} \in SUBSET Stamps
                /\ {q \in Stamps : opened[q] > opened[s]} \in SUBSET Stamps
                /\ {q \in Stamps : opened[q] > opened[s]} \subseteq
                        {q \in Stamps : opened'[q] > opened'[s]}
            BY <5>1
          <6> QED
            BY <6>1, Zenon
        <5>3. Cardinality(S) < KeepRuns
          BY <5>2 DEF Recent
        <5>4. Cardinality(T) \in Nat /\ Cardinality(S) \in Nat /\ Cardinality(T) <= Cardinality(S)
          BY <5>2, FoundSmaller
        <5>5. Cardinality(T) < KeepRuns
          BY <5>3, <5>4, BoundsAssumption
        <5> QED
          BY <2>5, <5>2, <5>5 DEF Recent
      <4> QED
        BY <4>1, <4>2
    <3>2. Complete(s) /\ InOrder(s)
      BY <2>1, <3>1 DEF ReadInv
    <3> QED
      BY <2>1, <2>3, <3>2, ReadSame
  <2> QED
    BY <2>4, <2>5
<1>5. CASE prune_runs
  <2>1. UNCHANGED <<opened, written, reused>>
    BY <1>5 DEF prune_runs
  <2>2. Recent(s)
    BY <2>1 DEF Recent
  <2>3. \A o \in Ordinals : files'[s][o] = files[s][o]
    BY <1>5, <2>2, PruneKeepsRecent
  <2> QED
    BY <1>1, <2>1, <2>3, ReadSame
<1>6. ASSUME NEW t \in Threads, NEW w \in 1..MaxWeight, append(t, w)
      PROVE  Complete(s)' /\ InOrder(s)'
  <2>1. UNCHANGED <<opened, reused, stamp>> /\ stamp \in Stamps
    BY <1>6, AppendEffect DEF append
  <2>2. CASE s = stamp
    <3>1. Complete(stamp)' /\ InOrder(stamp)'
      BY <1>1, <1>6, <2>1, <2>2, ReadAppend
    <3>2. \A q : q = stamp => (Complete(q)' <=> Complete(stamp)') /\ (InOrder(q)' <=> InOrder(stamp)')
      BY <2>1 DEF Complete, InOrder, Has, Exists
    <3> QED
      BY <2>2, <3>1, <3>2
  <2>3. CASE s # stamp
    <3>1. written'[s] = written[s] /\ \A o \in Ordinals : files'[s][o] = files[s][o]
      BY <1>0, <1>6, <2>1, <2>3, AppendEffect DEF append, HistoryOK
    <3> QED
      BY <1>1, <2>1, <3>1, ReadSame
  <2> QED
    BY <2>2, <2>3
<1>7. ASSUME NEW t \in Threads, rename(t)
      PROVE  Complete(s)' /\ InOrder(s)'
  <2>1. UNCHANGED <<opened, reused, stamp, written>> /\ stamp \in Stamps
    BY <1>7, RenameEffect DEF rename
  <2>2. CASE s = stamp
    <3>1. Complete(stamp)' /\ InOrder(stamp)'
      BY <1>1, <1>7, <2>1, <2>2, ReadRename
    <3>2. \A q : q = stamp => (Complete(q)' <=> Complete(stamp)') /\ (InOrder(q)' <=> InOrder(stamp)')
      BY <2>1 DEF Complete, InOrder, Has, Exists
    <3> QED
      BY <2>2, <3>1, <3>2
  <2>3. CASE s # stamp
    <3>1. \A o \in Ordinals : files'[s][o] = files[s][o]
      BY <1>7, <2>3, RenameEffect
    <3> QED
      BY <1>1, <2>1, <3>1, ReadSame
  <2> QED
    BY <2>2, <2>3
<1>8. ASSUME NEW t \in Threads, create(t)
      PROVE  Complete(s)' /\ InOrder(s)'
  <2>1. /\ UNCHANGED <<opened, reused, stamp, written>> /\ stamp \in Stamps
        /\ pc[t] = "create"
    BY <1>8, CreateEffect DEF create, At
  <2>2. s = stamp => files[s][0] = Absent
    <3>1. file = "named"
      BY <1>0, <2>1 DEF OrderInv, StepsInv, Working, LogOK
    <3> QED
      BY <2>1, <3>1 DEF NamesInv, Exists
  <2>3. \A o \in Ordinals : \/ files'[s][o] = files[s][o]
                            \/ files[s][o] = Absent /\ files'[s][o] = << >>
    BY <1>8, <2>2, CreateEffect
  <2> QED
    BY <1>1, <2>1, <2>3, ReadSame
<1> QED
  BY <1>2, <1>3, <1>4, <1>5, <1>6, <1>7, <1>8, OtherSteps

\* The ten most recent runs are kept: as long as local time does not go back,
\* the files of a recent run, read in turn, give every record its writes
\* accepted in the order they were made, whatever rotations and removals failed
\* and wherever processes died (RunLog::open, prune_runs, OpenLog::append and
\* OpenLog::rotate, logging.rs).
THEOREM RecentRunsKept == ASSUME ~ClockBack PROVE Spec => []RecentRunsReadBack
<1> DEFINE KeptInv == OrderInv /\ OldInv /\ NamesInv /\ ReadInv
<1>1. Init => KeptInv
  <2> SUFFICES ASSUME Init PROVE KeptInv
    OBVIOUS
  <2>1. \A s \in Stamps : opened[s] = 0 /\ \A o \in Ordinals : ~Exists(s, o)
    BY DEF Init, Exists
  <2> QED
    BY <2>1 DEF Init, OrderInv, OldInv, NamesInv, ReadInv, Recent
<1>2. BaseInv /\ KeptInv /\ [Next]_vars => KeptInv'
  BY NextOrder, NextOld, NextNames, NextRead
<1>3. BaseInv /\ KeptInv => RecentRunsReadBack
  BY ReadInvSays
<1> HIDE DEF KeptInv
<1> QED
  BY BaseInvariant, <1>1, <1>2, <1>3, PTL DEF Spec
===============================================================================
