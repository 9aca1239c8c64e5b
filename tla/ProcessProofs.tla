--------------------------- MODULE ProcessProofs ---------------------------
(***************************************************************************)
(* Proofs about module Process, for every number of slots, fds, Files and  *)
(* pids.                                                                   *)
(***************************************************************************)
EXTENDS Process, FiniteSetTheorems, WellFoundedInduction, TLAPS

-----------------------------------------------------------------------------
(* The operators of module File *)

\* The scans of the code end at an element: a nonempty set of indices has a first one.
LEMMA FirstIsFirst ==
    ASSUME NEW S, S \subseteq Nat, S # {}
    PROVE  First(S) \in S /\ \A j \in S : First(S) <= j
<1> DEFINE Less == OpToRel(<, Nat)
<1>1. \E x \in S : \A y \in S : ~ (<<y, x>> \in Less)
  BY NatLessThanWellFounded, WFMin
<1>2. PICK x \in S : \A y \in S : ~ (<<y, x>> \in Less)
  BY <1>1
<1>3. \A y \in S : x <= y
  <2>1. SUFFICES ASSUME NEW y \in S, ~ (x <= y)
                 PROVE  FALSE
    OBVIOUS
  <2>2. x \in Nat /\ y \in Nat /\ y < x
    BY <2>1
  <2>3. <<y, x>> \in Less
    BY <2>2 DEF OpToRel
  <2>4. QED
    BY <1>2, <2>3
<1>4. QED
  BY <1>3 DEF First

\* The number of fds of one process that point to a File is a natural number.
LEMMA UsesNat ==
    ASSUME NEW fds, NEW f
    PROVE  Uses(fds, f) \in Nat
<1>1. Fds = 0 .. NUM_OPEN_FILES - 1 /\ 0 \in Int /\ NUM_OPEN_FILES - 1 \in Int
  BY FileConstants DEF Fds
<1>2. IsFiniteSet(Fds)
  BY <1>1, FS_Interval
<1>3. IsFiniteSet({fd \in Fds : fds[fd] = f})
  BY <1>2, FS_Subset
<1>4. QED
  BY <1>3, FS_CardinalityType DEF Uses

\* Closing and duplicating keep the table well typed.
LEMMA CloseAllType ==
    ASSUME NEW t \in [Files -> FileRecord], NEW fds
    PROVE  close_all_files(t, fds) \in [Files -> FileRecord]
<1>1. ASSUME NEW f \in Files
      PROVE  Drop(t[f], Uses(fds, f)) \in FileRecord
  <2>1. Uses(fds, f) \in Nat
    BY UsesNat
  <2>2. QED
    BY <2>1 DEF Drop, FileRecord, EmptyFile
<1>2. QED
  BY <1>1 DEF close_all_files

\* Counting every fd of a table leaves a table of Files.
LEMMA DuplicateAllType ==
    ASSUME NEW t \in [Files -> FileRecord], NEW fds
    PROVE  duplicate_all_files(t, fds) \in [Files -> FileRecord]
<1>1. ASSUME NEW f \in Files
      PROVE  [t[f] EXCEPT !.refcnt = @ + Uses(fds, f)] \in FileRecord
  BY UsesNat DEF FileRecord
<1>2. QED
  BY <1>1 DEF duplicate_all_files

\* file_open_console() takes a File nobody uses, or none.
LEMMA FileOpened ==
    ASSUME NEW t \in [Files -> FileRecord], NEW o,
           \E r, w \in BOOLEAN : o = file_open_console(t, r, w)
    PROVE  \/ o.file = NoFile /\ o.table = t /\ FreeFiles(t) = {}
           \/ /\ o.file \in Files /\ t[o.file].refcnt = 0 /\ o.table \in [Files -> FileRecord]
              /\ o.table[o.file].refcnt = 1 /\ \A f \in Files : f # o.file => o.table[f] = t[f]
<1>0. PICK r \in BOOLEAN, w \in BOOLEAN : o = file_open_console(t, r, w)
  OBVIOUS
<1>1. CASE FreeFiles(t) = {}
  BY <1>0, <1>1 DEF file_open_console
<1>2. CASE FreeFiles(t) # {}
  <2>1. PICK f : f = First(FreeFiles(t))
    OBVIOUS
  <2>2. FreeFiles(t) \subseteq Nat
    BY FileConstants DEF FreeFiles, Files
  <2>3. f \in Files /\ t[f].refcnt = 0
    BY <1>2, <2>1, <2>2, FirstIsFirst DEF FreeFiles
  <2>4. PICK x : x = [refcnt |-> 1, type |-> "kConsole", readable |-> r, writable |-> w]
    OBVIOUS
  <2>5. x \in FileRecord /\ x.refcnt = 1
    BY <2>4 DEF FileRecord
  <2>6. o.file = f /\ o.table = [t EXCEPT ![f] = x]
    BY <1>0, <1>2, <2>1, <2>4 DEF file_open_console
  <2>7. QED
    BY <2>3, <2>5, <2>6
<1>3. QED
  BY <1>1, <1>2

\* What open_console_files() leaves, also when it fails half way: the fds it set are those
\* it counted, in Files nobody used before.
Opened(t, table, fds) ==
    /\ table \in [Files -> FileRecord] /\ fds \in FdTable
    /\ \A f \in Files : \/ Uses(fds, f) = 0 /\ table[f] = t[f]
                        \/ t[f].refcnt = 0 /\ Uses(fds, f) > 0 /\ table[f].refcnt = Uses(fds, f)

LEMMA ConsoleOpened ==
    ASSUME NEW t \in [Files -> FileRecord], NEW c, c = open_console_files(t)
    PROVE  Opened(t, c.table, c.fds)
<1>1. PICK in : in = file_open_console(t, TRUE, FALSE)
  OBVIOUS
<1>2. PICK out : out = file_open_console(in.table, FALSE, TRUE)
  OBVIOUS
<1>3. PICK f0, f1, t0, t1 : f0 = in.file /\ f1 = out.file /\ t0 = in.table /\ t1 = out.table
  OBVIOUS
<1>4. PICK f2 : f2 = IF f0 # NoFile /\ f1 # NoFile THEN f1 ELSE NoFile
  OBVIOUS
<1>5. /\ c.table = IF f0 # NoFile /\ f1 # NoFile THEN [t1 EXCEPT ![f1].refcnt = @ + 1] ELSE t1
      /\ c.fds = [NoFds EXCEPT ![0] = f0, ![1] = f1, ![2] = f2]
  BY <1>1, <1>2, <1>3, <1>4 DEF open_console_files
<1>6. /\ 0 \in Fds /\ 1 \in Fds /\ 2 \in Fds /\ NoFile \notin Files
      /\ \A fd \in Fds : NoFds[fd] = NoFile /\ NoFds \in [Fds -> {NoFile}]
  BY FileConstants DEF Fds, NoFile, Files, NoFds
<1>7. \A fd \in Fds : c.fds[fd] = IF fd = 0 THEN f0 ELSE IF fd = 1 THEN f1
                               ELSE IF fd = 2 THEN f2 ELSE NoFile
  BY <1>5, <1>6
<1>8. \/ f0 = NoFile /\ t0 = t /\ FreeFiles(t) = {}
      \/ /\ f0 \in Files /\ t[f0].refcnt = 0 /\ t0 \in [Files -> FileRecord]
         /\ t0[f0].refcnt = 1 /\ \A f \in Files : f # f0 => t0[f] = t[f]
  <2>1. \E r, w \in BOOLEAN : in = file_open_console(t, r, w)
    BY <1>1, Zenon
  <2>2. QED
    BY <1>3, <2>1, FileOpened
<1>9. \/ f1 = NoFile /\ t1 = t0 /\ FreeFiles(t0) = {}
      \/ /\ f1 \in Files /\ t0[f1].refcnt = 0 /\ t1 \in [Files -> FileRecord]
         /\ t1[f1].refcnt = 1 /\ \A f \in Files : f # f1 => t1[f] = t0[f]
  <2>1. \E r, w \in BOOLEAN : out = file_open_console(t0, r, w)
    BY <1>2, <1>3, Zenon
  <2>2. t0 \in [Files -> FileRecord]
    BY <1>8
  <2>3. QED
    BY <1>3, <2>1, <2>2, FileOpened
<1>10. c.fds \in FdTable
  <2>1. c.fds \in [Fds -> {f0, f1, NoFile}]
    BY <1>4, <1>5, <1>6
  <2>2. QED
    BY <1>8, <1>9, <2>1 DEF FdTable
<1>11. Cardinality({}) = 0 /\ Cardinality({0}) = 1 /\ Cardinality({1} \cup {2}) = 2
  <2>1. IsFiniteSet({1}) /\ Cardinality({1}) = 1 /\ Cardinality({0}) = 1
    BY FS_Singleton, Zenon
  <2>2. 2 \notin {1}
    OBVIOUS
  <2>3. Cardinality({1} \cup {2}) = IF 2 \in {1} THEN Cardinality({1}) ELSE Cardinality({1}) + 1
    BY <2>1, FS_AddElement, Zenon
  <2>4. QED
    BY <2>1, <2>2, <2>3, FS_EmptySet
<1>12. CASE f0 = NoFile
  <2>1. FreeFiles(t0) = {} /\ f1 = NoFile /\ c.table = t /\ f2 = NoFile
    BY <1>4, <1>5, <1>6, <1>8, <1>9, <1>12 DEF FreeFiles
  <2>2. \A f \in Files : {fd \in Fds : c.fds[fd] = f} = {}
    BY <1>6, <1>7, <1>12, <2>1
  <2>3. QED
    BY <1>10, <1>11, <2>1, <2>2 DEF Opened, Uses
<1>13. CASE f0 # NoFile /\ f1 = NoFile
  <2>1. c.table = t0 /\ f2 = NoFile /\ f0 \in Files
    BY <1>4, <1>5, <1>6, <1>8, <1>9, <1>13
  <2>2. \A f \in Files : {fd \in Fds : c.fds[fd] = f} = IF f = f0 THEN {0} ELSE {}
    BY <1>6, <1>7, <1>13, <2>1
  <2>3. \A f \in Files : Uses(c.fds, f) = IF f = f0 THEN 1 ELSE 0
    BY <1>11, <2>2 DEF Uses
  <2>4. QED
    BY <1>6, <1>8, <1>10, <1>13, <2>1, <2>3 DEF Opened
<1>14. CASE f0 # NoFile /\ f1 # NoFile
  <2>1. /\ f2 = f1 /\ f0 \in Files /\ f1 \in Files /\ f0 # f1 /\ t[f1].refcnt = 0
        /\ t1 \in [Files -> FileRecord]
    BY <1>4, <1>6, <1>8, <1>9, <1>14
  <2>2. PICK x : x = [t1[f1] EXCEPT !.refcnt = @ + 1]
    OBVIOUS
  <2>3. x \in FileRecord /\ x.refcnt = 2
    BY <1>6, <1>9, <1>14, <2>1, <2>2 DEF FileRecord
  <2>4. c.table = [t1 EXCEPT ![f1] = x]
    BY <1>5, <1>14, <2>1, <2>2
  <2>5. \A f \in Files : {fd \in Fds : c.fds[fd] = f}
                          = IF f = f0 THEN {0} ELSE IF f = f1 THEN {1} \cup {2} ELSE {}
    BY <1>6, <1>7, <2>1
  <2>6. \A f \in Files : Uses(c.fds, f) = IF f = f0 THEN 1 ELSE IF f = f1 THEN 2 ELSE 0
    BY <1>11, <2>5 DEF Uses
  <2>7. /\ c.table \in [Files -> FileRecord]
        /\ c.table[f0] = t0[f0] /\ c.table[f1].refcnt = 2
        /\ \A f \in Files : f # f0 /\ f # f1 => c.table[f] = t[f]
    BY <1>6, <1>8, <1>9, <1>14, <2>1, <2>3, <2>4
  <2>8. QED
    BY <1>6, <1>8, <1>10, <1>14, <2>1, <2>6, <2>7 DEF Opened
<1>15. QED
  BY <1>12, <1>13, <1>14

-----------------------------------------------------------------------------
(* The scheduler's operators *)

\* Slots are numbers and none of them is the null pointer.
LEMMA SlotFacts ==
    /\ Slots \subseteq Nat
    /\ NoProc \in Int
    /\ NoProc \notin Slots
    /\ \A s \in Slots : s # NoProc /\ s \in Int
BY ProcessConstants DEF Slots, NoProc

\* The scan finds a Runnable slot or nothing.
LEMMA NextRunnableFound ==
    ASSUME NEW st, NEW prev
    PROVE  \/ NextRunnable(st, prev) = NoProc
           \/ NextRunnable(st, prev) \in Slots /\ st[NextRunnable(st, prev)] = "Runnable"
<1> DEFINE runnable == {s \in Slots : st[s] = "Runnable"}
           after    == {s \in runnable : s > prev}
<1>1. runnable \subseteq Nat /\ after \subseteq runnable /\ after \subseteq Nat
  BY SlotFacts
<1>2. CASE after # {}
  <2>1. First(after) \in after
    BY <1>1, <1>2, FirstIsFirst
  <2>2. QED
    BY <1>2, <2>1 DEF NextRunnable
<1>3. CASE after = {} /\ runnable # {}
  <2>1. First(runnable) \in runnable
    BY <1>1, <1>3, FirstIsFirst
  <2>2. QED
    BY <1>3, <2>1 DEF NextRunnable
<1>4. CASE after = {} /\ runnable = {}
  BY <1>4 DEF NextRunnable
<1>5. QED
  BY <1>2, <1>3, <1>4

\* What a switch does to the table st it starts from: at most one slot, a Runnable
\* one, becomes Running and is then current, with its own address space.
Switched(st, prev) ==
    /\ current' \in Slots \cup {NoProc}
    /\ current' # NoProc => st[current'] = "Runnable"
    /\ state' = [s \in Slots |-> IF s = current' THEN "Running" ELSE st[s]]
    /\ loaded' \in {loaded, current'}
    /\ current' \notin {NoProc, prev} => loaded' = current'

\* schedule() switches as described by Switched...
LEMMA ScheduleSwitches ==
    ASSUME NEW st, NEW prev \in Slots \cup {NoProc}, schedule(st, prev)
    PROVE  Switched(st, prev)
BY NextRunnableFound DEF schedule, Switched

\* ...and so does schedule_from_zombie().
LEMMA ScheduleFromZombieSwitches ==
    ASSUME NEW st, NEW p \in Slots, schedule_from_zombie(st, p)
    PROVE  Switched(st, p)
BY NextRunnableFound DEF schedule_from_zombie, Switched

\* A switch keeps the types of what it assigns.
LEMMA SwitchedTypes ==
    ASSUME NEW st \in [Slots -> States], NEW prev, Switched(st, prev),
           loaded \in Slots \cup {NoProc}
    PROVE  /\ state' \in [Slots -> States]
           /\ current' \in Slots \cup {NoProc}
           /\ loaded' \in Slots \cup {NoProc}
BY DEF Switched, States

\* wakeup() yields a table of states.
LEMMA WakeupType ==
    ASSUME NEW st \in [Slots -> States], NEW c
    PROVE  wakeup(st, c) \in [Slots -> States]
BY DEF wakeup, States

\* allocate_process() takes an Unused slot.
LEMMA AllocateFacts ==
    ASSUME TypeOK, NEW s \in Slots, allocate_process(s)
    PROVE  /\ state[s] = "Unused"
           /\ pid' \in [Slots -> Nat]
           /\ next_pid' \in 1 .. MaxPid + 1
<1>1. Unused \subseteq Nat /\ Unused # {}
  BY SlotFacts DEF Unused, allocate_process
<1>2. s \in Unused
  BY <1>1, FirstIsFirst DEF allocate_process
<1>3. QED
  BY <1>2, ProcessConstants DEF Unused, allocate_process, TypeOK

-----------------------------------------------------------------------------
(* Type correctness *)

\* create_process() keeps the types; it needs the two Files it opens to be Files.
LEMMA CreateThreadType ==
    ASSUME TypeOK, NEW s \in Slots, create_thread(s), init_proc' \in Slots \cup {NoProc}
    PROVE  TypeOK'
<1>1. PICK c : c = open_console_files(file_table)
  OBVIOUS
<1>2. Opened(file_table, c.table, c.fds)
  BY <1>1, ConsoleOpened DEF TypeOK
<1>3. allocate_process(s) /\ file_table' = c.table /\ files' = [files EXCEPT ![s] = c.fds]
  BY <1>1 DEF create_thread
<1>4. file_table' \in [Files -> FileRecord] /\ files' \in [Slots -> FdTable]
  BY <1>2, <1>3 DEF Opened, TypeOK
<1>5. pid' \in [Slots -> Nat] /\ next_pid' \in 1 .. MaxPid + 1
  BY <1>3, AllocateFacts
<1>6. QED
  BY <1>4, <1>5 DEF create_thread, TypeOK, States

\* The fds a creation can have opened, and the table it did that in, when it fails.
Begun(t, fds) ==
    \/ t = file_table /\ fds = NoFds
    \/ t = open_console_files(file_table).table /\ fds = open_console_files(file_table).fds
    \/ \E p \in Slots : t = duplicate_all_files(file_table, files[p]) /\ fds = files[p]
Failed(s) == \E t, fds : Begun(t, fds) /\ creation_fails(s, t, fds)

\* Those are all the creations that fail.
LEMMA FailsBegun ==
    ASSUME NEW s \in Slots,
           create_thread_fails(s) \/ \E p \in Slots : fork_fails(p, s)
    PROVE  Failed(s)
BY DEF create_thread_fails, fork_fails, Begun, Failed

LEMMA BegunTypes ==
    ASSUME TypeOK, NEW t, NEW fds, Begun(t, fds)
    PROVE  t \in [Files -> FileRecord] /\ fds \in FdTable
<1>1. file_table \in [Files -> FileRecord] /\ files \in [Slots -> FdTable] /\ NoFds \in FdTable
  BY DEF TypeOK, NoFds, FdTable
<1>2. PICK c : c = open_console_files(file_table)
  OBVIOUS
<1>3. c.table \in [Files -> FileRecord] /\ c.fds \in FdTable
  BY <1>1, <1>2, ConsoleOpened DEF Opened
<1>4. QED
  BY <1>1, <1>2, <1>3, DuplicateAllType DEF Begun

\* Every step keeps the types.
LEMMA TypeInductive == TypeOK /\ [Next]_vars => TypeOK'
<1> SUFFICES ASSUME TypeOK, [Next]_vars
             PROVE  TypeOK'
  OBVIOUS
<1>1. CASE kernel_yield
  <2>1. Switched(state, NoProc)
    BY <1>1, ScheduleSwitches DEF kernel_yield
  <2>2. QED
    BY <1>1, <2>1, SwitchedTypes DEF kernel_yield, TypeOK
<1>2. ASSUME NEW s \in Slots, Failed(s)
      PROVE  TypeOK'
  <2>1. PICK t, fds : Begun(t, fds) /\ creation_fails(s, t, fds)
    BY <1>2 DEF Failed
  <2>2. t \in [Files -> FileRecord]
    BY <2>1, BegunTypes
  <2>3. file_table' \in [Files -> FileRecord]
    BY <2>1, <2>2, CloseAllType DEF creation_fails, free_process_resources
  <2>4. files' \in [Slots -> FdTable]
    BY <2>1 DEF creation_fails, free_process_resources, TypeOK, NoFds, FdTable
  <2>5. pid' \in [Slots -> Nat] /\ next_pid' \in 1 .. MaxPid + 1
    BY <2>1, AllocateFacts DEF creation_fails
  <2>6. QED
    BY <2>1, <2>3, <2>4, <2>5 DEF creation_fails, free_process_resources, TypeOK, States
<1>3. ASSUME NEW s \in Slots, create_process(s)
      PROVE  TypeOK'
  BY <1>2, <1>3, CreateThreadType, FailsBegun DEF create_process, TypeOK
<1>4. ASSUME NEW s \in Slots, create_init_process(s)
      PROVE  TypeOK'
  BY <1>2, <1>4, CreateThreadType, FailsBegun DEF create_init_process
<1>5. ASSUME NEW p \in Slots, yield(p)
      PROVE  TypeOK'
  <2>1. yielding(state, p) \in [Slots -> States]
    BY DEF yielding, TypeOK, States
  <2>2. Switched(yielding(state, p), p)
    BY <1>5, ScheduleSwitches DEF yield
  <2>3. QED
    BY <1>5, <2>1, <2>2, SwitchedTypes DEF yield, TypeOK
<1>6. ASSUME NEW p \in Slots, NEW c \in Slots \cup Channels, NEW at \in {"sleep", "wait"},
             sleep_on(p, c, at)
      PROVE  TypeOK'
  <2>1. [state EXCEPT ![p] = "Sleeping"] \in [Slots -> States]
    BY DEF TypeOK, States
  <2>2. Switched([state EXCEPT ![p] = "Sleeping"], p)
    BY <1>6, ScheduleSwitches DEF sleep_on
  <2>3. QED
    BY <1>6, <2>1, <2>2, SwitchedTypes DEF sleep_on, TypeOK
<1>7. ASSUME NEW p \in Slots, NEW c \in Channels, sleep(p, c)
      PROVE  TypeOK'
  BY <1>6, <1>7 DEF sleep
<1>8. ASSUME NEW p \in Slots, sleep_return(p)
      PROVE  TypeOK'
  BY <1>8 DEF sleep_return, TypeOK
<1>9. ASSUME NEW p \in Slots, NEW c \in Channels, call_wakeup(p, c)
      PROVE  TypeOK'
  BY <1>9, WakeupType DEF call_wakeup, TypeOK
<1>10. ASSUME NEW p \in Slots, enter_usermode(p)
       PROVE  TypeOK'
  BY <1>10 DEF enter_usermode, TypeOK
<1>11. ASSUME NEW p \in Slots, NEW s \in Slots, fork(p, s)
       PROVE  TypeOK'
  <2>1. CASE fork_fails(p, s)
    BY <1>2, <2>1, FailsBegun
  <2>2. CASE fork_child(p, s)
    <3>1. allocate_process(s)
      BY <2>2 DEF fork_child
    <3>2. pid' \in [Slots -> Nat] /\ next_pid' \in 1 .. MaxPid + 1
      BY <3>1, AllocateFacts
    <3>3. duplicate_all_files(file_table, files[p]) \in [Files -> FileRecord]
      BY DuplicateAllType DEF TypeOK
    <3>4. QED
      BY <2>2, <3>2, <3>3 DEF fork_child, TypeOK, States
  <2>3. QED
    BY <1>11, <2>1, <2>2 DEF fork
<1>12. ASSUME NEW p \in Slots, NEW status \in ExitStatuses, exit(p, status)
       PROVE  TypeOK'
  <2> DEFINE zombie == [state EXCEPT ![p] = "Zombie"]
             st     == wakeup_init(wakeup_parent(zombie, p), p)
  <2>1. zombie \in [Slots -> States]
    BY DEF TypeOK, States
  <2>2. wakeup_parent(zombie, p) \in [Slots -> States]
    BY <2>1, WakeupType DEF wakeup_parent
  <2>3. st \in [Slots -> States]
    BY <2>2, WakeupType DEF wakeup_init
  <2>4. Switched(st, p)
    BY <1>12, ScheduleFromZombieSwitches DEF exit
  <2>5. /\ state' \in [Slots -> States]
        /\ current' \in Slots \cup {NoProc}
        /\ loaded' \in Slots \cup {NoProc}
    <3> HIDE DEF st
    <3> QED BY <2>3, <2>4, SwitchedTypes DEF TypeOK
  <2>6. file_table' \in [Files -> FileRecord]
    BY <1>12, CloseAllType DEF exit, TypeOK
  <2>7. files' \in [Slots -> FdTable]
    BY <1>12 DEF exit, TypeOK, NoFds, FdTable
  <2>8. parent' \in [Slots -> Slots \cup {NoProc}]
    BY <1>12 DEF exit, reparent, TypeOK
  <2>9. exit_status' \in [Slots -> Nat] /\ exits' \subseteq Nat \X Nat
    BY <1>12, ProcessConstants DEF exit, TypeOK
  <2>10. QED
    BY <1>12, <2>5, <2>6, <2>7, <2>8, <2>9 DEF exit, TypeOK
<1>13. ASSUME NEW p \in Slots, trampoline(p)
       PROVE  TypeOK'
  <2> DEFINE zombie == [state EXCEPT ![frame[p]] = "Zombie"]
             st     == yielding(zombie, p)
  <2>1. zombie \in [Slots -> States]
    BY DEF TypeOK, States
  <2>2. st \in [Slots -> States]
    BY <2>1 DEF yielding, States
  <2>3. Switched(st, p)
    BY <1>13, ScheduleSwitches DEF trampoline
  <2>4. /\ state' \in [Slots -> States]
        /\ current' \in Slots \cup {NoProc}
        /\ loaded' \in Slots \cup {NoProc}
    <3> HIDE DEF st
    <3> QED BY <2>2, <2>3, SwitchedTypes DEF TypeOK
  <2>5. file_table' \in [Files -> FileRecord]
    BY <1>13, CloseAllType DEF trampoline, TypeOK
  <2>6. files' \in [Slots -> FdTable]
    BY <1>13 DEF trampoline, TypeOK, NoFds, FdTable
  <2>7. QED
    BY <1>13, <2>4, <2>5, <2>6 DEF trampoline, TypeOK
<1>14. ASSUME NEW p \in Slots, wait(p)
       PROVE  TypeOK'
  <2>1. CASE ZombieChildren(p) # {} /\ wait_reaps(p, First(ZombieChildren(p)))
    <3> DEFINE c == First(ZombieChildren(p))
    <3>1. ZombieChildren(p) \subseteq Slots
      BY DEF ZombieChildren, Children
    <3>2. c \in Slots
      BY <2>1, <3>1, SlotFacts, FirstIsFirst
    <3>3. wait_reaps(p, c)
      BY <2>1
    <3> HIDE DEF c
    <3>4. file_table' \in [Files -> FileRecord]
      BY <3>3, CloseAllType DEF wait_reaps, free_process_resources, TypeOK
    <3>5. files' \in [Slots -> FdTable]
      BY <3>2, <3>3 DEF wait_reaps, free_process_resources, TypeOK, NoFds, FdTable
    <3>6. QED
      BY <3>2, <3>3, <3>4, <3>5 DEF wait_reaps, free_process_resources, TypeOK, States
  <2>2. CASE sleep_on(p, p, "wait")
    BY <1>6, <2>2
  <2>3. CASE /\ pc' = [pc EXCEPT ![p] = "run"]
             /\ UNCHANGED <<state, pid, parent, channel, exit_status, files, kind, frame,
                            file_table, next_pid, current, loaded, init_proc, exits, reaps>>
    BY <2>3 DEF TypeOK
  <2>4. QED
    BY <1>14, <2>1, <2>2, <2>3 DEF wait
<1>15. ASSUME NEW p \in Slots, NEW fd \in Closable, sys_close(p, fd)
       PROVE  TypeOK'
  <2>1. fd \in Fds /\ files[p][fd] \in Files
    BY <1>15, ProcessConstants DEF sys_close, TypeOK, FdTable
  <2>2. Drop(file_table[files[p][fd]], 1) \in FileRecord
    BY <2>1 DEF Drop, FileRecord, EmptyFile, TypeOK
  <2>3. file_table' \in [Files -> FileRecord]
    BY <1>15, <2>1, <2>2 DEF sys_close, file_close, TypeOK
  <2>4. files' \in [Slots -> FdTable]
    BY <1>15, <2>1 DEF sys_close, TypeOK, FdTable
  <2>5. QED
    BY <1>15, <2>3, <2>4 DEF sys_close, TypeOK
<1>16. CASE UNCHANGED vars
  BY <1>16 DEF vars, procVars, TypeOK
<1>17. QED
  BY <1>1, <1>3, <1>4, <1>5, <1>7, <1>8, <1>9, <1>10, <1>11, <1>12, <1>13, <1>14,
     <1>15, <1>16 DEF Next, Step

\* Every variable keeps its type in every behaviour of the process table.
THEOREM TypeCorrect == Spec => []TypeOK
<1>1. Init => TypeOK
  BY ProcessConstants DEF Init, TypeOK, States, NoFds, FdTable, EmptyFile, FileRecord
<1>2. QED
  BY <1>1, TypeInductive, PTL DEF Spec

-----------------------------------------------------------------------------
(* The process table's invariant *)

\* A switch changes no slot that is Unused, Zombie or Sleeping.
LEMMA SwitchedKeeps ==
    ASSUME NEW st \in [Slots -> States], NEW prev, Switched(st, prev)
    PROVE  \A s \in Slots :
               /\ state'[s] = "Unused" <=> st[s] = "Unused"
               /\ state'[s] = "Zombie" <=> st[s] = "Zombie"
               /\ state'[s] = "Sleeping" <=> st[s] = "Sleeping"
BY SlotFacts DEF Switched

\* After a switch from a table in which nobody is Running, exactly current is Running, in
\* its own address space.
LEMMA SwitchedRuns ==
    ASSUME TypeOK, RunsAsItself, NEW st \in [Slots -> States], Switched(st, current),
           \A s \in Slots : st[s] # "Running"
    PROVE  RunsAsItself'
<1>1. \A s \in Slots : state'[s] = "Running" <=> s = current'
  BY DEF Switched
<1>2. current' # NoProc => loaded' = current'
  BY DEF Switched, RunsAsItself
<1>3. QED
  BY <1>1, <1>2 DEF RunsAsItself

\* A switch that frees no slot leaves no freed address space loaded.
LEMMA SwitchedLoaded ==
    ASSUME TypeOK, LoadedNotFreed, NEW st \in [Slots -> States], Switched(st, current),
           \A s \in Slots : st[s] = "Unused" => state[s] = "Unused"
    PROVE  LoadedNotFreed'
<1>1. \A s \in Slots : state'[s] = "Unused" => st[s] = "Unused"
  BY SwitchedKeeps
<1>2. CASE loaded' = loaded
  BY <1>1, <1>2 DEF LoadedNotFreed, TypeOK
<1>3. CASE loaded' = current' /\ current' # NoProc
  BY <1>3 DEF LoadedNotFreed, Switched
<1>4. CASE loaded' = NoProc
  BY <1>4 DEF LoadedNotFreed
<1>5. QED
  BY <1>2, <1>3, <1>4 DEF Switched

\* A step that keeps the family tree and the saved contexts, and after which the
\* Unused, Zombie and Sleeping slots are those of before.
LEMMA TreeUnchanged ==
    ASSUME TypeOK, ProcInv,
           UNCHANGED <<parent, frame, pc, init_proc>>,
           \A s \in Slots :
               /\ state'[s] = "Unused" <=> state[s] = "Unused"
               /\ state'[s] = "Zombie" <=> state[s] = "Zombie"
               /\ state'[s] = "Sleeping" => state[s] = "Sleeping" /\ channel'[s] = channel[s],
           \A s \in Slots : kind'[s] = "entry" /\ state'[s] # "Unused" => kind[s] = "entry"
    PROVE  /\ NoLostWakeup'
           /\ ParentNotFreed'
           /\ ZombieParentsAreRoots'
           /\ InitIsRoot'
           /\ EntryThreadsAreRoots'
           /\ SavedContexts'
<1>1. \A s \in Slots : Children(s)' = Children(s) /\ ZombieChildren(s)' = ZombieChildren(s)
  BY DEF Children, ZombieChildren
<1>2. NoLostWakeup'
  BY <1>1 DEF ProcInv, NoLostWakeup
<1>3. ParentNotFreed' /\ ZombieParentsAreRoots'
  BY DEF ProcInv, ParentNotFreed, ZombieParentsAreRoots, TypeOK
<1>4. InitIsRoot' /\ EntryThreadsAreRoots'
  BY DEF ProcInv, InitIsRoot, EntryThreadsAreRoots, TypeOK
<1>5. SavedContexts'
  BY DEF ProcInv, SavedContexts
<1>6. QED
  BY <1>2, <1>3, <1>4, <1>5

\* A new process: slot s leaves Unused with parent q, which is running or null.
LEMMA NewProcessInv ==
    ASSUME TypeOK, ProcInv, NEW s \in Slots, NEW q \in Slots \cup {NoProc},
           q \in {NoProc, current},
           state[s] = "Unused",
           state' = [state EXCEPT ![s] = "Runnable"],
           parent' = [parent EXCEPT ![s] = q],
           channel' = [channel EXCEPT ![s] = NoProc],
           pc' = [pc EXCEPT ![s] = "run"],
           UNCHANGED <<current, loaded>>,
           init_proc' \in {init_proc, s},
           init_proc' = s => q = NoProc,
           \A t \in Slots : t # s => kind'[t] = kind[t] /\ frame'[t] = frame[t],
           kind'[s] = "entry" => q = NoProc /\ frame'[s] = s
    PROVE  ProcInv'
<1>1. \A t \in Slots : parent[t] # s
  BY SlotFacts DEF ProcInv, ParentNotFreed
<1>2. q # NoProc => state[q] = "Running"
  BY DEF ProcInv, RunsAsItself
<1>3. q # s
  BY <1>2, SlotFacts
<1>4. \A t \in Slots : t # s => state'[t] = state[t] /\ parent'[t] = parent[t]
                                /\ channel'[t] = channel[t] /\ pc'[t] = pc[t]
  BY DEF TypeOK
<1>5. state'[s] = "Runnable" /\ parent'[s] = q /\ pc'[s] = "run"
  BY DEF TypeOK
<1>6. RunsAsItself' /\ LoadedNotFreed'
  BY <1>4, <1>5 DEF ProcInv, RunsAsItself, LoadedNotFreed, TypeOK
<1>7. NoLostWakeup'
  <2>1. SUFFICES ASSUME NEW t \in Slots, state'[t] = "Sleeping", pc'[t] = "wait"
                 PROVE  Children(t)' # {} /\ ZombieChildren(t)' = {}
    BY DEF NoLostWakeup
  <2>2. t # s /\ state[t] = "Sleeping" /\ pc[t] = "wait"
    BY <2>1, <1>4, <1>5
  <2>3. Children(t) # {} /\ ZombieChildren(t) = {}
    BY <2>2 DEF ProcInv, NoLostWakeup
  <2>4. Children(t) \subseteq Children(t)'
    BY <1>4 DEF Children
  <2>5. \A c \in Children(t)' : state'[c] # "Zombie"
    BY <1>4, <1>5, <2>3 DEF Children, ZombieChildren
  <2>6. QED
    BY <2>3, <2>4, <2>5 DEF ZombieChildren
<1>8. ParentNotFreed'
  BY <1>2, <1>3, <1>4, <1>5, SlotFacts DEF ProcInv, ParentNotFreed, TypeOK
<1>9. ZombieParentsAreRoots'
  BY <1>1, <1>2, <1>3, <1>4, <1>5, SlotFacts DEF ProcInv, ZombieParentsAreRoots, TypeOK
<1>10. InitIsRoot'
  BY <1>4, <1>5 DEF ProcInv, InitIsRoot, TypeOK
<1>11. EntryThreadsAreRoots'
  BY <1>4, <1>5 DEF ProcInv, EntryThreadsAreRoots
<1>12. SavedContexts'
  BY <1>4, <1>5 DEF ProcInv, SavedContexts
<1>13. QED
  BY <1>6, <1>7, <1>8, <1>9, <1>10, <1>11, <1>12 DEF ProcInv

\* create_process() and create_init_process() keep the invariant.
LEMMA CreateThreadInv ==
    ASSUME TypeOK, ProcInv, NEW s \in Slots, create_thread(s),
           init_proc' \in {init_proc, s}
    PROVE  ProcInv'
<1>1. state[s] = "Unused"
  BY AllocateFacts DEF create_thread
<1>2. /\ \A t \in Slots : t # s => kind'[t] = kind[t] /\ frame'[t] = frame[t]
      /\ frame'[s] = s
  BY DEF create_thread, TypeOK
<1>3. /\ state' = [state EXCEPT ![s] = "Runnable"]
      /\ parent' = [parent EXCEPT ![s] = NoProc]
      /\ channel' = [channel EXCEPT ![s] = NoProc]
      /\ pc' = [pc EXCEPT ![s] = "run"]
      /\ UNCHANGED <<current, loaded>>
  BY DEF create_thread
<1>4. QED
  BY <1>1, <1>2, <1>3, NewProcessInv

\* A creation that fails changes no state and no parent: the slot had neither.
LEMMA FailedKeeps ==
    ASSUME TypeOK, ProcInv, NEW s \in Slots, Failed(s)
    PROVE  /\ state[s] = "Unused" /\ allocate_process(s)
           /\ UNCHANGED <<state, parent, frame, pc, current, loaded, init_proc, exits, reaps>>
           /\ \A t \in Slots : t # s => /\ channel'[t] = channel[t] /\ kind'[t] = kind[t]
                                        /\ exit_status'[t] = exit_status[t]
<1>1. PICK t, fds : creation_fails(s, t, fds)
  BY DEF Failed
<1>2. state[s] = "Unused" /\ allocate_process(s)
  BY <1>1, AllocateFacts DEF creation_fails
<1>3. parent[s] = NoProc
  BY <1>2 DEF ProcInv, ParentNotFreed
<1>4. /\ state' = [state EXCEPT ![s] = "Unused"] /\ parent' = [parent EXCEPT ![s] = NoProc]
      /\ channel' = [channel EXCEPT ![s] = NoProc] /\ exit_status' = [exit_status EXCEPT ![s] = 0]
      /\ kind' = [kind EXCEPT ![s] = "entry"]
      /\ UNCHANGED <<frame, pc, current, loaded, init_proc, exits, reaps>>
  BY <1>1 DEF creation_fails, free_process_resources
<1>5. state' = state /\ parent' = parent
  BY <1>2, <1>3, <1>4 DEF TypeOK
<1>6. QED
  BY <1>2, <1>4, <1>5 DEF TypeOK

\* A creation that fails keeps the invariant.
LEMMA CreationFailsInv ==
    ASSUME TypeOK, ProcInv, NEW s \in Slots, Failed(s)
    PROVE  ProcInv'
<1>1. /\ state[s] = "Unused" /\ UNCHANGED <<state, parent, frame, pc, current, loaded, init_proc>>
      /\ \A t \in Slots : t # s => channel'[t] = channel[t] /\ kind'[t] = kind[t]
  BY FailedKeeps
<1>2. RunsAsItself' /\ LoadedNotFreed'
  BY <1>1 DEF ProcInv, RunsAsItself, LoadedNotFreed
<1>3. \A t \in Slots : /\ state'[t] = "Sleeping" => channel'[t] = channel[t]
                       /\ state'[t] # "Unused" => kind'[t] = kind[t]
  BY <1>1
<1>4. QED
  BY <1>1, <1>2, <1>3, TreeUnchanged DEF ProcInv

\* fork() keeps the invariant, for kernel threads and for ring 3.
LEMMA ForkInv ==
    ASSUME TypeOK, ProcInv, NEW p \in Slots, NEW s \in Slots, fork(p, s)
    PROVE  ProcInv'
<1>1. CASE fork_fails(p, s)
  BY <1>1, FailsBegun, CreationFailsInv
<1>2. CASE fork_child(p, s)
  <2>1. current = p /\ allocate_process(s)
    BY <1>2 DEF fork, fork_child, Acting
  <2>2. state[s] = "Unused"
    BY <2>1, AllocateFacts
  <2>3. /\ \A t \in Slots : t # s => kind'[t] = kind[t] /\ frame'[t] = frame[t]
        /\ kind'[s] # "entry"
    BY <1>2 DEF fork_child, TypeOK
  <2>4. /\ state' = [state EXCEPT ![s] = "Runnable"]
        /\ parent' = [parent EXCEPT ![s] = p]
        /\ channel' = [channel EXCEPT ![s] = NoProc]
        /\ pc' = [pc EXCEPT ![s] = "run"]
        /\ UNCHANGED <<current, loaded, init_proc>>
    BY <1>2 DEF fork_child
  <2>5. init_proc' # s
    BY <2>2, <2>4, SlotFacts DEF ProcInv, InitIsRoot
  <2>6. QED
    BY <2>1, <2>2, <2>3, <2>4, <2>5, NewProcessInv
<1>3. QED
  BY <1>1, <1>2 DEF fork

\* yield(), from a thread or from the kernel context.
LEMMA YieldInv ==
    ASSUME TypeOK, ProcInv, kernel_yield \/ \E p \in Slots : yield(p)
    PROVE  ProcInv'
<1> DEFINE st == IF current = NoProc THEN state ELSE [state EXCEPT ![current] = "Runnable"]
<1>1. /\ Switched(st, current)
      /\ UNCHANGED <<parent, frame, pc, channel, init_proc, kind>>
  <2>1. CASE kernel_yield
    BY <2>1, ScheduleSwitches DEF kernel_yield
  <2>2. ASSUME NEW p \in Slots, yield(p)
        PROVE  Switched(st, current) /\ UNCHANGED <<parent, frame, pc, channel, init_proc, kind>>
    <3>1. current = p /\ state[p] = "Running" /\ p # NoProc
      BY <2>2, SlotFacts DEF yield, KernelThread, Acting, ProcInv, RunsAsItself
    <3>2. QED
      BY <2>2, <3>1, ScheduleSwitches DEF yield, yielding
  <2>3. QED
    BY <2>1, <2>2
<1>2. st \in [Slots -> States]
  BY DEF TypeOK, States
<1>3. current # NoProc => state[current] = "Running" /\ st[current] = "Runnable"
  BY DEF ProcInv, RunsAsItself, TypeOK
<1>4. \A s \in Slots : s # current => st[s] = state[s]
  BY DEF TypeOK
<1>5. \A s \in Slots : st[s] # "Running"
  BY <1>3, <1>4, SlotFacts DEF ProcInv, RunsAsItself
<1>6. \A s \in Slots : /\ st[s] = "Unused" <=> state[s] = "Unused"
                       /\ st[s] = "Zombie" <=> state[s] = "Zombie"
                       /\ st[s] = "Sleeping" <=> state[s] = "Sleeping"
  BY <1>3, <1>4, SlotFacts
<1> HIDE DEF st
<1>7. RunsAsItself' /\ LoadedNotFreed'
  BY <1>1, <1>2, <1>5, <1>6, SwitchedRuns, SwitchedLoaded DEF ProcInv
<1>8. QED
  BY <1>1, <1>2, <1>6, <1>7, SwitchedKeeps, TreeUnchanged DEF ProcInv

\* The running process goes to sleep: on a channel, or on itself in wait() after it
\* saw children and no Zombie among them.
LEMMA SleepInv ==
    ASSUME TypeOK, ProcInv, NEW p \in Slots, NEW c, NEW at \in {"sleep", "wait"},
           current = p, sleep_on(p, c, at),
           at = "wait" => c = p /\ Children(p) # {} /\ ZombieChildren(p) = {}
    PROVE  ProcInv'
<1> DEFINE st == [state EXCEPT ![p] = "Sleeping"]
<1>1. Switched(st, current)
  BY ScheduleSwitches DEF sleep_on
<1>2. st \in [Slots -> States] /\ st[p] = "Sleeping" /\ state[p] = "Running"
  BY SlotFacts DEF TypeOK, States, ProcInv, RunsAsItself
<1>3. \A s \in Slots : s # p => st[s] = state[s]
  BY DEF TypeOK
<1>4. \A s \in Slots : st[s] # "Running"
  BY <1>2, <1>3 DEF ProcInv, RunsAsItself
<1> HIDE DEF st
<1>5. \A s \in Slots : /\ state'[s] = "Unused" <=> state[s] = "Unused"
                       /\ state'[s] = "Zombie" <=> state[s] = "Zombie"
                       /\ s # p => (state'[s] = "Sleeping" <=> state[s] = "Sleeping")
  BY <1>1, <1>2, <1>3, SwitchedKeeps
<1>6. RunsAsItself' /\ LoadedNotFreed'
  BY <1>1, <1>2, <1>3, <1>4, SwitchedRuns, SwitchedLoaded DEF ProcInv
<1>7. /\ UNCHANGED <<parent, kind, frame, init_proc>>
      /\ pc'[p] = at /\ channel'[p] = c
      /\ \A s \in Slots : s # p => pc'[s] = pc[s] /\ channel'[s] = channel[s]
  BY DEF sleep_on, TypeOK
<1>8. \A s \in Slots : Children(s)' = Children(s) /\ ZombieChildren(s)' = ZombieChildren(s)
  BY <1>5, <1>7 DEF Children, ZombieChildren
<1>9. NoLostWakeup'
  BY <1>5, <1>7, <1>8 DEF ProcInv, NoLostWakeup
<1>10. ParentNotFreed' /\ ZombieParentsAreRoots'
  BY <1>5, <1>7 DEF ProcInv, ParentNotFreed, ZombieParentsAreRoots, TypeOK
<1>11. InitIsRoot' /\ EntryThreadsAreRoots'
  BY <1>5, <1>7 DEF ProcInv, InitIsRoot, EntryThreadsAreRoots, TypeOK
<1>12. SavedContexts'
  BY <1>2, <1>5, <1>7 DEF ProcInv, SavedContexts
<1>13. QED
  BY <1>6, <1>9, <1>10, <1>11, <1>12 DEF ProcInv

\* Steps of the running process that keep the CPU and change no state of a slot.
LEMMA RunningOnInv ==
    ASSUME TypeOK, ProcInv, NEW p \in Slots, current = p,
           UNCHANGED <<state, parent, frame, current, loaded, init_proc>>,
           \A s \in Slots : s # p => pc'[s] = pc[s] /\ channel'[s] = channel[s],
           pc'[p] # "dead",
           \A s \in Slots : kind'[s] = "entry" => kind[s] = "entry"
    PROVE  ProcInv'
<1>1. state[p] = "Running"
  BY DEF ProcInv, RunsAsItself
<1>2. \A s \in Slots : Children(s)' = Children(s) /\ ZombieChildren(s)' = ZombieChildren(s)
  BY DEF Children, ZombieChildren
<1>3. RunsAsItself' /\ LoadedNotFreed'
  BY DEF ProcInv, RunsAsItself, LoadedNotFreed
<1>4. NoLostWakeup'
  BY <1>1, <1>2 DEF ProcInv, NoLostWakeup
<1>5. ParentNotFreed' /\ ZombieParentsAreRoots' /\ InitIsRoot' /\ EntryThreadsAreRoots'
  BY DEF ProcInv, ParentNotFreed, ZombieParentsAreRoots, InitIsRoot, EntryThreadsAreRoots
<1>6. SavedContexts'
  BY <1>1 DEF ProcInv, SavedContexts
<1>7. QED
  BY <1>3, <1>4, <1>5, <1>6 DEF ProcInv

\* wakeup() of a kernel thread.
LEMMA WakeupInv ==
    ASSUME TypeOK, ProcInv, NEW p \in Slots, NEW c \in Channels, call_wakeup(p, c)
    PROVE  ProcInv'
<1>1. \A s \in Slots : /\ state'[s] = "Unused" <=> state[s] = "Unused"
                       /\ state'[s] = "Zombie" <=> state[s] = "Zombie"
                       /\ state'[s] = "Running" <=> state[s] = "Running"
                       /\ state'[s] = "Sleeping" => state[s] = "Sleeping"
  BY DEF call_wakeup, wakeup
<1>2. RunsAsItself' /\ LoadedNotFreed'
  BY <1>1 DEF call_wakeup, ProcInv, RunsAsItself, LoadedNotFreed, TypeOK
<1>3. QED
  BY <1>1, <1>2, TreeUnchanged DEF call_wakeup, ProcInv

\* The entry function of a thread made by create_process() returns.
LEMMA TrampolineInv ==
    ASSUME TypeOK, ProcInv, ForkedMayReturn = FALSE, NEW p \in Slots, trampoline(p)
    PROVE  ProcInv'
<1>1. current = p /\ state[p] = "Running" /\ kind[p] = "entry"
  BY DEF trampoline, KernelThread, Acting, ProcInv, RunsAsItself, TypeOK
<1>2. frame[p] = p /\ parent[p] = NoProc
  BY <1>1 DEF ProcInv, EntryThreadsAreRoots
<1> DEFINE st == [state EXCEPT ![p] = "Zombie"]
<1>3. yielding([state EXCEPT ![frame[p]] = "Zombie"], p) = st
  BY <1>2 DEF yielding, TypeOK
<1>4. Switched(st, current)
  BY <1>1, <1>3, ScheduleSwitches DEF trampoline
<1>5. st \in [Slots -> States] /\ st[p] = "Zombie"
  BY DEF TypeOK, States
<1>6. \A s \in Slots : s # p => st[s] = state[s]
  BY DEF TypeOK
<1>7. \A s \in Slots : st[s] # "Running"
  BY <1>1, <1>5, <1>6 DEF ProcInv, RunsAsItself
<1> HIDE DEF st
<1>8. /\ state'[p] = "Zombie"
      /\ \A s \in Slots : s # p => /\ state'[s] = "Unused" <=> state[s] = "Unused"
                                   /\ state'[s] = "Zombie" <=> state[s] = "Zombie"
                                   /\ state'[s] = "Sleeping" <=> state[s] = "Sleeping"
  BY <1>4, <1>5, <1>6, SwitchedKeeps
<1>9. RunsAsItself' /\ LoadedNotFreed'
  BY <1>1, <1>4, <1>5, <1>6, <1>7, SwitchedRuns, SwitchedLoaded DEF ProcInv
<1>10. /\ UNCHANGED <<parent, kind, frame, channel, init_proc>>
       /\ \A s \in Slots : s # p => pc'[s] = pc[s]
  BY DEF trampoline, TypeOK
<1>11. \A s \in Slots : Children(s)' = Children(s) /\ ZombieChildren(s)' = ZombieChildren(s)
  BY <1>1, <1>2, <1>8, <1>10, SlotFacts DEF Children, ZombieChildren
<1>12. NoLostWakeup'
  BY <1>8, <1>10, <1>11 DEF ProcInv, NoLostWakeup
<1>13. ParentNotFreed' /\ ZombieParentsAreRoots'
  BY <1>1, <1>2, <1>8, <1>10 DEF ProcInv, ParentNotFreed, ZombieParentsAreRoots, TypeOK
<1>14. InitIsRoot' /\ EntryThreadsAreRoots'
  BY <1>1, <1>2, <1>8, <1>10 DEF ProcInv, InitIsRoot, EntryThreadsAreRoots, TypeOK
<1>15. SavedContexts'
  BY <1>8, <1>10 DEF ProcInv, SavedContexts
<1>16. QED
  BY <1>9, <1>12, <1>13, <1>14, <1>15 DEF ProcInv

\* wait() frees the slot of a Zombie child.
LEMMA WaitReapsInv ==
    ASSUME TypeOK, ProcInv, NEW p \in Slots, NEW c \in ZombieChildren(p), current = p,
           wait_reaps(p, c)
    PROVE  ProcInv'
<1>1. c \in Slots /\ state[c] = "Zombie" /\ parent[c] = p /\ state[p] = "Running" /\ c # p
  BY SlotFacts DEF ZombieChildren, Children, ProcInv, RunsAsItself
<1>2. \A s \in Slots : parent[s] # c
  BY <1>1, SlotFacts DEF ProcInv, ZombieParentsAreRoots
<1>3. c # init_proc
  BY <1>1, SlotFacts DEF ProcInv, InitIsRoot
<1>4. /\ state'[c] = "Unused" /\ parent'[c] = NoProc
      /\ \A s \in Slots : s # c => state'[s] = state[s] /\ parent'[s] = parent[s]
                                   /\ channel'[s] = channel[s]
      /\ pc'[p] = "run"
      /\ \A s \in Slots : s # p => pc'[s] = pc[s]
      /\ UNCHANGED <<kind, frame, current, loaded, init_proc>>
  BY <1>1 DEF wait_reaps, free_process_resources, TypeOK
<1>5. RunsAsItself'
  BY <1>1, <1>4 DEF ProcInv, RunsAsItself
<1>6. LoadedNotFreed'
  <2>1. loaded = p
    BY SlotFacts DEF ProcInv, RunsAsItself
  <2>2. QED
    BY <1>1, <1>4, <2>1 DEF LoadedNotFreed
<1>7. NoLostWakeup'
  <2>1. SUFFICES ASSUME NEW t \in Slots, state'[t] = "Sleeping", pc'[t] = "wait"
                 PROVE  Children(t)' # {} /\ ZombieChildren(t)' = {}
    BY DEF NoLostWakeup
  <2>2. t # c /\ t # p /\ state[t] = "Sleeping" /\ pc[t] = "wait"
    BY <1>1, <1>4, <2>1
  <2>3. Children(t) # {} /\ ZombieChildren(t) = {}
    BY <2>2 DEF ProcInv, NoLostWakeup
  <2>4. Children(t)' = Children(t)
    BY <1>1, <1>4, <2>2, SlotFacts DEF Children
  <2>5. \A s \in Children(t) : s # c
    BY <1>1, <2>2 DEF Children
  <2>6. QED
    BY <1>4, <2>3, <2>4, <2>5 DEF ZombieChildren, Children
<1>8. ParentNotFreed' /\ ZombieParentsAreRoots'
  BY <1>1, <1>2, <1>4 DEF ProcInv, ParentNotFreed, ZombieParentsAreRoots, TypeOK
<1>9. InitIsRoot' /\ EntryThreadsAreRoots'
  BY <1>1, <1>3, <1>4 DEF ProcInv, InitIsRoot, EntryThreadsAreRoots, TypeOK
<1>10. SavedContexts'
  BY <1>1, <1>4 DEF ProcInv, SavedContexts
<1>11. QED
  BY <1>5, <1>6, <1>7, <1>8, <1>9, <1>10 DEF ProcInv

\* exit(): the table schedule_from_zombie() starts from.  A parent or an init asleep in
\* wait() is awake in it if it has a Zombie to collect.
ExitTableFacts(st, p) ==
    /\ st \in [Slots -> States]
    /\ st[p] = "Zombie"
    /\ \A s \in Slots : s # p =>
           st[s] = state[s] \/ (state[s] = "Sleeping" /\ st[s] = "Runnable")
    /\ parent[p] # NoProc /\ channel[parent[p]] = parent[p] => st[parent[p]] # "Sleeping"
    /\ init_proc # NoProc /\ channel[init_proc] = init_proc
           /\ (\E s \in Slots : st[s] = "Zombie" /\ parent[s] = p)
           => st[init_proc] # "Sleeping"

\* The states in which exit() leaves the table before it gives up the CPU: nobody Running,
\* and the parent and init no longer asleep in wait() if they have a Zombie to collect.
LEMMA ExitTable ==
    ASSUME TypeOK, ProcInv, NEW p \in Slots, current = p,
           NEW st, st = wakeup_init(wakeup_parent([state EXCEPT ![p] = "Zombie"], p), p)
    PROVE  ExitTableFacts(st, p)
<1> DEFINE s0 == [state EXCEPT ![p] = "Zombie"]
           s1 == wakeup_parent(s0, p)
<1>1. /\ s0 \in [Slots -> States] /\ s0[p] = "Zombie"
      /\ \A s \in Slots : s # p => s0[s] = state[s]
  BY DEF TypeOK, States
<1> HIDE DEF s0
<1>2. /\ s1 \in [Slots -> States]
      /\ s1[p] = "Zombie"
      /\ \A s \in Slots : s # p =>
              s1[s] = state[s] \/ (state[s] = "Sleeping" /\ s1[s] = "Runnable")
      /\ parent[p] # NoProc /\ channel[parent[p]] = parent[p] => s1[parent[p]] # "Sleeping"
  <2>1. CASE parent[p] = NoProc
    BY <1>1, <2>1 DEF wakeup_parent
  <2>2. CASE parent[p] # NoProc
    <3>1. s1 = wakeup(s0, parent[p]) /\ parent[p] \in Slots
      BY <2>2 DEF wakeup_parent, TypeOK
    <3>2. s1 \in [Slots -> States]
      BY <1>1, <3>1, WakeupType
    <3>3. \A s \in Slots : s1[s] = IF s0[s] = "Sleeping" /\ channel[s] = parent[p]
                                   THEN "Runnable" ELSE s0[s]
      BY <3>1 DEF wakeup
    <3>4. QED
      BY <1>1, <3>1, <3>2, <3>3
  <2>3. QED
    BY <2>1, <2>2
<1>3. st = wakeup_init(s1, p)
  BY DEF s0
<1> HIDE DEF s1
<1>4. CASE init_proc # NoProc /\ \E s \in Slots : s1[s] = "Zombie" /\ parent[s] = p
  <2>1. st = wakeup(s1, init_proc) /\ init_proc \in Slots
    BY <1>3, <1>4 DEF wakeup_init, TypeOK
  <2>2. st \in [Slots -> States]
    BY <1>2, <2>1, WakeupType
  <2>3. \A s \in Slots : st[s] = IF s1[s] = "Sleeping" /\ channel[s] = init_proc
                                 THEN "Runnable" ELSE s1[s]
    BY <2>1 DEF wakeup
  <2>4. parent[p] \in Slots \cup {NoProc}
    BY DEF TypeOK
  <2>5. QED
    BY <1>2, <2>1, <2>2, <2>3, <2>4 DEF ExitTableFacts
<1>5. CASE ~ (init_proc # NoProc /\ \E s \in Slots : s1[s] = "Zombie" /\ parent[s] = p)
  <2>1. st = s1
    BY <1>3, <1>5 DEF wakeup_init
  <2>2. QED
    BY <1>2, <1>5, <2>1 DEF ExitTableFacts
<1>6. QED
  BY <1>4, <1>5

\* exit() keeps the invariant: wakeup before and after the reparenting are both needed.
LEMMA ExitProcInv ==
    ASSUME TypeOK, ProcInv, NEW p \in Slots, NEW status, exit(p, status)
    PROVE  ProcInv'
<1>1. current = p /\ state[p] = "Running" /\ pc[p] = "run"
  BY DEF exit, Acting, ProcInv, RunsAsItself
<1>0. PICK st : st = wakeup_init(wakeup_parent([state EXCEPT ![p] = "Zombie"], p), p)
  OBVIOUS
<1>2. Switched(st, current)
  BY <1>0, <1>1, ScheduleFromZombieSwitches DEF exit
<1>3a. ExitTableFacts(st, p)
  BY <1>0, <1>1, ExitTable
<1>3. /\ st \in [Slots -> States]
      /\ st[p] = "Zombie"
      /\ \A s \in Slots : s # p =>
             st[s] = state[s] \/ (state[s] = "Sleeping" /\ st[s] = "Runnable")
      /\ parent[p] # NoProc /\ channel[parent[p]] = parent[p] => st[parent[p]] # "Sleeping"
      /\ init_proc # NoProc /\ channel[init_proc] = init_proc
             /\ (\E s \in Slots : st[s] = "Zombie" /\ parent[s] = p)
             => st[init_proc] # "Sleeping"
  BY <1>3a DEF ExitTableFacts
<1>4. \A s \in Slots : st[s] # "Running"
  BY <1>1, <1>3 DEF ProcInv, RunsAsItself
<1>5. /\ state'[p] = "Zombie"
      /\ \A s \in Slots : /\ state'[s] = "Unused" <=> state[s] = "Unused"
                          /\ s # p => (state'[s] = "Zombie" <=> state[s] = "Zombie")
                          /\ state'[s] = "Sleeping" => state[s] = "Sleeping"
                          /\ state'[s] = "Sleeping" <=> st[s] = "Sleeping"
                          /\ state'[s] = "Zombie" <=> st[s] = "Zombie"
  BY <1>1, <1>2, <1>3, SwitchedKeeps
<1>6. RunsAsItself' /\ LoadedNotFreed'
  <2>1. \A s \in Slots : st[s] = "Unused" => state[s] = "Unused"
    BY <1>3
  <2>2. QED
    BY <1>2, <1>3, <1>4, <2>1, SwitchedRuns, SwitchedLoaded DEF ProcInv
<1>7. /\ \A s \in Slots : parent'[s] = IF state[s] # "Unused" /\ parent[s] = p
                                       THEN init_proc ELSE parent[s]
      /\ UNCHANGED <<kind, frame, pc, channel, init_proc>>
  BY DEF exit, reparent
<1>8. \A s \in Slots : parent'[s] = IF parent[s] = p THEN init_proc ELSE parent[s]
  BY <1>7, SlotFacts DEF ProcInv, ParentNotFreed
<1>9. NoLostWakeup'
  <2>1. SUFFICES ASSUME NEW t \in Slots, state'[t] = "Sleeping", pc'[t] = "wait"
                 PROVE  Children(t)' # {} /\ ZombieChildren(t)' = {}
    BY DEF NoLostWakeup
  <2>2. t # p /\ state[t] = "Sleeping" /\ pc[t] = "wait" /\ st[t] = "Sleeping"
    BY <1>5, <1>7, <2>1
  <2>3. channel[t] = t /\ Children(t) # {} /\ ZombieChildren(t) = {}
    BY <2>2 DEF ProcInv, NoLostWakeup, SavedContexts
  <2>4. Children(t)' # {}
    <3>1. Children(t) \subseteq Children(t)'
      BY <1>5, <1>8, <2>2 DEF Children
    <3>2. QED
      BY <2>3, <3>1
  <2>5. ASSUME NEW s \in Slots, state'[s] = "Zombie", parent'[s] = t
        PROVE  FALSE
    <3>1. CASE parent[s] = p
      <4>1. t = init_proc
        BY <1>8, <2>5, <3>1
      <4>2. st[s] = "Zombie"
        BY <1>5, <2>5
      <4>3. QED
        BY <1>3, <2>2, <2>3, <3>1, <4>1, <4>2, SlotFacts
    <3>2. CASE parent[s] # p /\ s = p
      <4>1. parent[p] = t
        BY <1>8, <2>5, <3>2
      <4>2. QED
        BY <1>3, <2>2, <2>3, <4>1, SlotFacts
    <3>3. CASE parent[s] # p /\ s # p
      <4>1. parent[s] = t /\ state[s] = "Zombie"
        BY <1>5, <1>8, <2>5, <3>3
      <4>2. s \in ZombieChildren(t)
        BY <4>1 DEF ZombieChildren, Children
      <4>3. QED
        BY <2>3, <4>2
    <3>4. QED
      BY <3>1, <3>2, <3>3
  <2>6. QED
    BY <2>4, <2>5 DEF ZombieChildren, Children
<1>10. ParentNotFreed'
  <2>1. SUFFICES ASSUME NEW s \in Slots, parent'[s] # NoProc
                 PROVE  state'[s] # "Unused" /\ state'[parent'[s]] # "Unused"
    BY DEF ParentNotFreed
  <2>2. CASE parent[s] = p
    <3>1. parent'[s] = init_proc /\ init_proc \in Slots /\ state[init_proc] # "Unused"
      BY <1>8, <2>1, <2>2 DEF ProcInv, InitIsRoot, TypeOK
    <3>2. state[s] # "Unused"
      BY <2>2, SlotFacts DEF ProcInv, ParentNotFreed
    <3>3. QED
      BY <1>5, <3>1, <3>2
  <2>3. CASE parent[s] # p
    <3>1. parent'[s] = parent[s] /\ parent[s] \in Slots
      BY <1>8, <2>1, <2>3 DEF TypeOK
    <3>2. state[s] # "Unused" /\ state[parent[s]] # "Unused"
      BY <2>1, <3>1 DEF ProcInv, ParentNotFreed
    <3>3. QED
      BY <1>5, <3>1, <3>2
  <2>4. QED
    BY <2>2, <2>3
<1>11. ZombieParentsAreRoots'
  <2>1. SUFFICES ASSUME NEW s \in Slots, parent'[s] # NoProc, state'[parent'[s]] = "Zombie"
                 PROVE  parent'[parent'[s]] = NoProc
    BY DEF ZombieParentsAreRoots
  <2>2. CASE parent[s] = p
    BY <1>8, <2>1, <2>2, SlotFacts DEF ProcInv, InitIsRoot, TypeOK
  <2>3. CASE parent[s] # p
    <3>1. parent'[s] = parent[s] /\ parent[s] \in Slots
      BY <1>8, <2>1, <2>3 DEF TypeOK
    <3>2. state[parent[s]] = "Zombie"
      BY <1>5, <2>1, <2>3, <3>1
    <3>3. parent[parent[s]] = NoProc
      BY <2>1, <3>1, <3>2 DEF ProcInv, ZombieParentsAreRoots
    <3>4. QED
      BY <1>8, <3>1, <3>3, SlotFacts
  <2>4. QED
    BY <2>2, <2>3
<1>12. InitIsRoot' /\ EntryThreadsAreRoots'
  BY <1>5, <1>7, <1>8, SlotFacts DEF ProcInv, InitIsRoot, EntryThreadsAreRoots, TypeOK
<1>13. SavedContexts'
  BY <1>1, <1>5, <1>7 DEF ProcInv, SavedContexts
<1>14. QED
  BY <1>6, <1>9, <1>10, <1>11, <1>12, <1>13 DEF ProcInv

\* The invariant of the process table is kept by every step, as long as no forked thread
\* returns through its parent's trampoline() frame.
LEMMA ProcInductive ==
    ASSUME TypeOK, ProcInv, ForkedMayReturn = FALSE, [Next]_vars
    PROVE  ProcInv'
<1>1. CASE kernel_yield
  BY <1>1, YieldInv
<1>2. ASSUME NEW s \in Slots, create_process(s) \/ create_init_process(s)
      PROVE  ProcInv'
  BY <1>2, CreateThreadInv, CreationFailsInv, FailsBegun DEF create_process, create_init_process
<1>3. ASSUME NEW p \in Slots, yield(p)
      PROVE  ProcInv'
  BY <1>3, YieldInv
<1>4. ASSUME NEW p \in Slots, NEW c \in Channels, sleep(p, c)
      PROVE  ProcInv'
  BY <1>4, SleepInv DEF sleep, KernelThread, Acting
<1>5. ASSUME NEW p \in Slots, NEW c \in Channels, call_wakeup(p, c)
      PROVE  ProcInv'
  BY <1>5, WakeupInv
<1>6. ASSUME NEW p \in Slots, sleep_return(p)
      PROVE  ProcInv'
  <2>1. /\ \A s \in Slots : s # p => pc'[s] = pc[s] /\ channel'[s] = channel[s]
        /\ pc'[p] # "dead"
    BY <1>6 DEF sleep_return, TypeOK
  <2>2. QED
    BY <1>6, <2>1, RunningOnInv DEF sleep_return
<1>7. ASSUME NEW p \in Slots, enter_usermode(p)
      PROVE  ProcInv'
  <2>1. /\ \A s \in Slots : kind'[s] = "entry" => kind[s] = "entry"
        /\ pc'[p] # "dead"
    BY <1>7 DEF enter_usermode, KernelThread, Acting, TypeOK
  <2>2. QED
    BY <1>7, <2>1, RunningOnInv DEF enter_usermode, KernelThread, Acting
<1>8. ASSUME NEW p \in Slots, NEW s \in Slots, fork(p, s)
      PROVE  ProcInv'
  BY <1>8, ForkInv
<1>9. ASSUME NEW p \in Slots, NEW status \in ExitStatuses, exit(p, status)
      PROVE  ProcInv'
  BY <1>9, ExitProcInv
<1>10. ASSUME NEW p \in Slots, trampoline(p)
       PROVE  ProcInv'
  BY <1>10, TrampolineInv
<1>11. ASSUME NEW p \in Slots, wait(p)
       PROVE  ProcInv'
  <2>1. CASE ZombieChildren(p) # {} /\ wait_reaps(p, First(ZombieChildren(p)))
    <3>1. ZombieChildren(p) \subseteq Nat
      BY SlotFacts DEF ZombieChildren, Children
    <3>2. First(ZombieChildren(p)) \in ZombieChildren(p)
      BY <2>1, <3>1, FirstIsFirst
    <3>3. QED
      BY <1>11, <2>1, <3>2, WaitReapsInv DEF wait
  <2>2. CASE /\ pc' = [pc EXCEPT ![p] = "run"]
             /\ UNCHANGED <<state, pid, parent, channel, exit_status, files, kind, frame,
                            file_table, next_pid, current, loaded, init_proc, exits, reaps>>
    <3>1. /\ \A s \in Slots : s # p => pc'[s] = pc[s]
          /\ pc'[p] # "dead"
      BY <2>2 DEF TypeOK
    <3>2. QED
      BY <1>11, <2>2, <3>1, RunningOnInv DEF wait
  <2>3. CASE Children(p) # {} /\ ZombieChildren(p) = {} /\ sleep_on(p, p, "wait")
    BY <1>11, <2>3, SleepInv DEF wait
  <2>4. QED
    BY <1>11, <2>1, <2>2, <2>3 DEF wait
<1>12. ASSUME NEW p \in Slots, NEW fd \in Closable, sys_close(p, fd)
       PROVE  ProcInv'
  <2>1. current = p /\ pc'[p] # "dead"
    BY <1>12 DEF sys_close, Acting
  <2>2. QED
    BY <1>12, <2>1, RunningOnInv DEF sys_close
<1>13. CASE UNCHANGED vars
  BY <1>13 DEF vars, procVars, ProcInv, RunsAsItself, LoadedNotFreed, NoLostWakeup, Children,
     ZombieChildren, ParentNotFreed, ZombieParentsAreRoots, InitIsRoot,
     EntryThreadsAreRoots, SavedContexts
<1>14. QED
  BY <1>1, <1>2, <1>3, <1>4, <1>5, <1>6, <1>7, <1>8, <1>9, <1>10, <1>11, <1>12, <1>13
     DEF Next, Step

\* The process table's invariant holds in every behaviour in which no forked kernel
\* thread returns from its entry function.
THEOREM ProcInvariant ==
    ASSUME ForkedMayReturn = FALSE
    PROVE  Spec => []ProcInv
<1>1. Init => ProcInv
  BY SlotFacts DEF Init, ProcInv, RunsAsItself, LoadedNotFreed, NoLostWakeup, ParentNotFreed,
     ZombieParentsAreRoots, InitIsRoot, EntryThreadsAreRoots, SavedContexts
<1>2. TypeOK /\ ProcInv /\ [Next]_vars => ProcInv'
  BY ProcInductive
<1>3. QED
  BY <1>1, <1>2, TypeCorrect, PTL DEF Spec

-----------------------------------------------------------------------------
(* What the steps do to the table, as far as exits, reaps and Files are concerned *)

\* Nobody is created, becomes a Zombie or is freed.
SameTable ==
    /\ \A s \in Slots : /\ state'[s] = "Unused" <=> state[s] = "Unused"
                        /\ state'[s] = "Zombie" <=> state[s] = "Zombie"
    /\ UNCHANGED <<parent, exit_status, exits, reaps>>

\* Slot s, and no other, leaves Unused with the next pid.
Created(s) ==
    /\ state[s] = "Unused" /\ state'[s] = "Runnable"
    /\ \A t \in Slots : t # s => state'[t] = state[t] /\ parent'[t] = parent[t]
    /\ pid' = [pid EXCEPT ![s] = next_pid] /\ next_pid' = next_pid + 1
    /\ UNCHANGED <<exit_status, exits, reaps>>

\* p, which runs, and no other, becomes a Zombie.
Died(p) ==
    /\ state[p] = "Running" /\ state'[p] = "Zombie"
    /\ \A s \in Slots : s # p => /\ state'[s] = "Unused" <=> state[s] = "Unused"
                                 /\ state'[s] = "Zombie" <=> state[s] = "Zombie"
    /\ file_table' = close_all_files(file_table, files[p])
    /\ files' = [files EXCEPT ![p] = NoFds]
    /\ UNCHANGED <<pid, next_pid, reaps>>

\* The steps of exit(), trampoline() and wait() in these terms.
Exits(p, status) ==
    /\ Died(p)
    /\ exit_status' = [exit_status EXCEPT ![p] = status]
    /\ exits' = exits \cup {<<pid[p], status>>}
    /\ \A s \in Slots : parent'[s] # NoProc => parent[s] # NoProc
Returns(p) == Died(p) /\ parent[p] = NoProc /\ UNCHANGED <<parent, exit_status, exits>>
Reaps(p, c) ==
    /\ c \in ZombieChildren(p) /\ current = p
    /\ wait_reaps(p, c)

LEMMA ExitDies ==
    ASSUME TypeOK, ProcInv, NEW p \in Slots, NEW status, exit(p, status)
    PROVE  Exits(p, status)
<1>1. current = p /\ state[p] = "Running"
  BY DEF exit, Acting, ProcInv, RunsAsItself
<1>2. PICK st : st = wakeup_init(wakeup_parent([state EXCEPT ![p] = "Zombie"], p), p)
  OBVIOUS
<1>3. Switched(st, current)
  BY <1>1, <1>2, ScheduleFromZombieSwitches DEF exit
<1>4. ExitTableFacts(st, p)
  BY <1>1, <1>2, ExitTable
<1>5. /\ st \in [Slots -> States] /\ st[p] = "Zombie"
      /\ \A s \in Slots : s # p =>
             st[s] = state[s] \/ (state[s] = "Sleeping" /\ st[s] = "Runnable")
  BY <1>4 DEF ExitTableFacts
<1>6. /\ state'[p] = "Zombie"
      /\ \A s \in Slots : s # p => /\ state'[s] = "Unused" <=> state[s] = "Unused"
                                   /\ state'[s] = "Zombie" <=> state[s] = "Zombie"
  BY <1>3, <1>5, SwitchedKeeps
<1>7. \A s \in Slots : parent'[s] # NoProc => parent[s] # NoProc
  BY SlotFacts DEF exit, reparent
<1>8. QED
  BY <1>1, <1>6, <1>7 DEF exit, Exits, Died

LEMMA TrampolineDies ==
    ASSUME TypeOK, ProcInv, ForkedMayReturn = FALSE, NEW p \in Slots, trampoline(p)
    PROVE  Returns(p)
<1>1. current = p /\ state[p] = "Running" /\ kind[p] = "entry"
  BY DEF trampoline, KernelThread, Acting, ProcInv, RunsAsItself, TypeOK
<1>2. frame[p] = p /\ parent[p] = NoProc
  BY <1>1 DEF ProcInv, EntryThreadsAreRoots
<1> DEFINE st == [state EXCEPT ![p] = "Zombie"]
<1>3. yielding([state EXCEPT ![frame[p]] = "Zombie"], p) = st
  BY <1>2 DEF yielding, TypeOK
<1>4. Switched(st, current)
  BY <1>1, <1>3, ScheduleSwitches DEF trampoline
<1>5. /\ st \in [Slots -> States] /\ st[p] = "Zombie"
      /\ \A s \in Slots : s # p => st[s] = state[s]
  BY DEF TypeOK, States
<1> HIDE DEF st
<1>6. /\ state'[p] = "Zombie"
      /\ \A s \in Slots : s # p => /\ state'[s] = "Unused" <=> state[s] = "Unused"
                                   /\ state'[s] = "Zombie" <=> state[s] = "Zombie"
  BY <1>4, <1>5, SwitchedKeeps
<1>7. QED
  BY <1>1, <1>2, <1>6 DEF trampoline, Returns, Died

\* A switch from a table without new Zombies and free slots.
LEMMA SwitchSame ==
    ASSUME TypeOK, NEW st \in [Slots -> States], NEW prev, Switched(st, prev),
           \A s \in Slots : /\ st[s] = "Unused" <=> state[s] = "Unused"
                            /\ st[s] = "Zombie" <=> state[s] = "Zombie",
           UNCHANGED <<parent, exit_status, exits, reaps>>
    PROVE  SameTable
BY SwitchedKeeps DEF SameTable

\* A step without effect on pids, histories and the Files.
StaysPut == SameTable /\ UNCHANGED <<pid, next_pid, files, file_table>>

LEMMA YieldSame ==
    ASSUME TypeOK, NEW p \in Slots, yield(p)
    PROVE  StaysPut
<1>1. /\ yielding(state, p) \in [Slots -> States]
      /\ \A s \in Slots : /\ yielding(state, p)[s] = "Unused" <=> state[s] = "Unused"
                          /\ yielding(state, p)[s] = "Zombie" <=> state[s] = "Zombie"
  BY DEF yielding, TypeOK, States
<1>2. Switched(yielding(state, p), p)
  BY ScheduleSwitches DEF yield
<1>3. QED
  BY <1>1, <1>2, SwitchSame DEF yield, StaysPut

LEMMA SleepSame ==
    ASSUME TypeOK, ProcInv, NEW p \in Slots, current = p, NEW c, NEW at, sleep_on(p, c, at)
    PROVE  StaysPut
<1>1. state[p] = "Running"
  BY DEF ProcInv, RunsAsItself
<1> DEFINE st == [state EXCEPT ![p] = "Sleeping"]
<1>2. /\ st \in [Slots -> States]
      /\ \A s \in Slots : /\ st[s] = "Unused" <=> state[s] = "Unused"
                          /\ st[s] = "Zombie" <=> state[s] = "Zombie"
  BY <1>1 DEF TypeOK, States
<1>3. Switched(st, p)
  BY ScheduleSwitches DEF sleep_on
<1> HIDE DEF st
<1>4. QED
  BY <1>2, <1>3, SwitchSame DEF sleep_on, StaysPut

\* Every step is one of the following.
LEMMA StepKinds ==
    ASSUME TypeOK, ProcInv, ForkedMayReturn = FALSE, [Next]_vars
    PROVE  \/ StaysPut
           \/ \E s \in Slots : create_thread(s) /\ Created(s) /\ parent'[s] = NoProc
           \/ \E s \in Slots : Failed(s)
           \/ \E p, s \in Slots : /\ Created(s) /\ state[p] = "Running"
                                  /\ files' = [files EXCEPT ![s] = files[p]]
                                  /\ file_table' = duplicate_all_files(file_table, files[p])
           \/ \E p \in Slots : \E status \in ExitStatuses : Exits(p, status)
           \/ \E p \in Slots : Returns(p)
           \/ \E p, c \in Slots : Reaps(p, c)
           \/ \E p \in Slots : \E fd \in Fds : SameTable /\ UNCHANGED <<pid, next_pid>>
                                               /\ sys_close(p, fd)
<1>1. CASE kernel_yield
  <2>1. Switched(state, NoProc)
    BY <1>1, ScheduleSwitches DEF kernel_yield
  <2>2. QED
    BY <1>1, <2>1, SwitchSame DEF kernel_yield, StaysPut, TypeOK
<1>2. ASSUME NEW p \in Slots, NEW s \in Slots, fork_fails(p, s)
      PROVE  Failed(s)
  BY <1>2, FailsBegun
<1>3. ASSUME NEW s \in Slots, create_thread(s)
      PROVE  Created(s) /\ parent'[s] = NoProc
  BY <1>3, AllocateFacts DEF create_thread, allocate_process, Created, TypeOK
<1>4. ASSUME NEW s \in Slots, create_process(s) \/ create_init_process(s)
      PROVE  create_thread(s) \/ Failed(s)
  BY <1>4, FailsBegun DEF create_process, create_init_process
<1>5. ASSUME NEW p \in Slots, NEW s \in Slots, fork(p, s), ~fork_fails(p, s)
      PROVE  /\ Created(s) /\ state[p] = "Running"
             /\ files' = [files EXCEPT ![s] = files[p]]
             /\ file_table' = duplicate_all_files(file_table, files[p])
  <2>1. fork_child(p, s) /\ state[p] = "Running"
    BY <1>5 DEF fork, Acting, ProcInv, RunsAsItself
  <2>2. QED
    BY <2>1, AllocateFacts DEF fork_child, allocate_process, Created, TypeOK
<1>6. ASSUME NEW p \in Slots, NEW c, sleep(p, c)
      PROVE  StaysPut
  BY <1>6, SleepSame DEF sleep, KernelThread, Acting
<1>7. ASSUME NEW p \in Slots, NEW c, call_wakeup(p, c)
      PROVE  StaysPut
  BY <1>7 DEF call_wakeup, wakeup, StaysPut, SameTable
<1>8. ASSUME NEW p \in Slots, sleep_return(p) \/ enter_usermode(p)
      PROVE  StaysPut
  BY <1>8 DEF sleep_return, enter_usermode, StaysPut, SameTable
<1>9. ASSUME NEW p \in Slots, wait(p)
      PROVE  StaysPut \/ \E c \in Slots : Reaps(p, c)
  <2>1. CASE ZombieChildren(p) # {} /\ wait_reaps(p, First(ZombieChildren(p)))
    <3>1. ZombieChildren(p) \subseteq Slots /\ ZombieChildren(p) \subseteq Nat
      BY SlotFacts DEF ZombieChildren, Children
    <3>2. First(ZombieChildren(p)) \in ZombieChildren(p)
      BY <2>1, <3>1, FirstIsFirst
    <3>3. QED
      BY <1>9, <2>1, <3>1, <3>2 DEF wait, Reaps
  <2>2. CASE sleep_on(p, p, "wait")
    BY <1>9, <2>2, SleepSame DEF wait
  <2>3. CASE Children(p) = {}
    <3>1. ZombieChildren(p) = {}
      BY <2>3 DEF ZombieChildren
    <3>2. QED
      BY <1>9, <2>3, <3>1 DEF wait, StaysPut, SameTable
  <2>4. QED
    BY <1>9, <2>1, <2>2, <2>3 DEF wait
<1>10. ASSUME NEW p \in Slots, NEW fd \in Closable, sys_close(p, fd)
       PROVE  SameTable /\ UNCHANGED <<pid, next_pid>> /\ fd \in Fds
  BY <1>10, ProcessConstants DEF sys_close, SameTable
<1>11. CASE UNCHANGED vars
  BY <1>11 DEF vars, procVars, StaysPut, SameTable
<1>12. QED
  BY <1>1, <1>2, <1>3, <1>4, <1>5, <1>6, <1>7, <1>8, <1>9, <1>10, <1>11, YieldSame, ExitDies,
     TrampolineDies DEF Next, Step

-----------------------------------------------------------------------------
(* exit() and wait() *)

\* The exits that are still held by Zombies.
Kept == {<<pid[s], exit_status[s]>> : s \in {z \in Slots :
            state[z] = "Zombie" /\ <<pid[z], exit_status[z]>> \in exits}}

\* Steps that leave Zombies, their statuses and the histories alone.
LEMMA KeptSame ==
    ASSUME TypeOK, ExitInv, UNCHANGED <<exits, reaps>>,
           \A s \in Slots : /\ state'[s] = "Zombie" <=> state[s] = "Zombie"
                            /\ state[s] = "Zombie" => /\ pid'[s] = pid[s]
                                                       /\ exit_status'[s] = exit_status[s]
    PROVE  ExitsConserved'
<1>1. Kept' = Kept
  BY DEF Kept
<1>2. ExitsConserved => exits = reaps \cup Kept /\ reaps \cap Kept = {}
  BY DEF ExitsConserved, Kept
<1>3. exits' = reaps' \cup Kept' /\ reaps' \cap Kept' = {} => ExitsConserved'
  BY DEF ExitsConserved, Kept
<1>4. QED
  BY <1>1, <1>2, <1>3 DEF ExitInv

\* The history of exits and the Zombies in the table stay in step.
LEMMA ExitInductive ==
    ASSUME TypeOK, ProcInv, ForkedMayReturn = FALSE, ExitInv, [Next]_vars
    PROVE  ExitInv'
<1>0. next_pid \in Nat /\ pid \in [Slots -> Nat] /\ exit_status \in [Slots -> Nat]
      /\ exits \subseteq Nat \X Nat /\ reaps \subseteq Nat \X Nat
  BY ProcessConstants DEF TypeOK
<1>1. ASSUME SameTable, UNCHANGED <<pid, next_pid>>
      PROVE  ExitInv'
  <2>1. ExitsConserved'
    BY <1>1, KeptSame DEF SameTable
  <2>2. PidsUnique'
    BY <1>1 DEF SameTable, ExitInv, PidsUnique
  <2>3. QED
    BY <1>1, <2>1, <2>2 DEF SameTable, ExitInv
<1>2. ASSUME NEW s \in Slots, Created(s)
      PROVE  ExitInv'
  <2>1. /\ state'[s] = "Runnable" /\ pid'[s] = next_pid /\ next_pid' = next_pid + 1
        /\ \A t \in Slots : t # s => state'[t] = state[t] /\ parent'[t] = parent[t] /\ pid'[t] = pid[t]
        /\ state[s] = "Unused" /\ UNCHANGED <<exit_status, exits, reaps>>
    BY <1>0, <1>2 DEF Created
  <2>2. ExitsConserved'
    BY <2>1, KeptSame
  <2>3. PidsUnique'
    BY <1>0, <2>1 DEF ExitInv, PidsUnique
  <2>4. \A e \in exits' : e[1] < next_pid'
    BY <1>0, <2>1 DEF ExitInv
  <2>5. \A e \in exits', t \in Slots : state'[t] # "Unused" /\ pid'[t] = e[1]
            => state'[t] = "Zombie" /\ exit_status'[t] = e[2] /\ e \notin reaps'
    BY <1>0, <2>1 DEF ExitInv
  <2>6. \A t \in Slots : state'[t] = "Zombie" /\ parent'[t] # NoProc
            => <<pid'[t], exit_status'[t]>> \in exits'
    BY <2>1 DEF ExitInv
  <2>7. QED
    BY <2>2, <2>3, <2>4, <2>5, <2>6 DEF ExitInv
<1>3. ASSUME NEW s \in Slots, Failed(s)
      PROVE  ExitInv'
  <2>0. state[s] = "Unused" /\ allocate_process(s)
    BY <1>3, FailedKeeps
  <2>1. /\ next_pid' = next_pid + 1 /\ UNCHANGED <<state, parent, exits, reaps>>
        /\ \A t \in Slots : t # s => pid'[t] = pid[t] /\ exit_status'[t] = exit_status[t]
    BY <1>0, <1>3, <2>0, FailedKeeps DEF allocate_process
  <2>2. ExitsConserved'
    BY <2>0, <2>1, KeptSame
  <2>3. PidsUnique'
    BY <1>0, <2>0, <2>1 DEF ExitInv, PidsUnique
  <2>4. QED
    BY <1>0, <2>0, <2>1, <2>2, <2>3 DEF ExitInv
<1>4. ASSUME NEW p \in Slots, Died(p)
      PROVE  /\ PidsUnique'
             /\ \A e \in exits : e[1] # pid[p]
             /\ \A s \in Slots : s # p => (state'[s] = "Zombie" <=> state[s] = "Zombie")
             /\ state'[p] = "Zombie" /\ state[p] = "Running"
             /\ \A s \in Slots : s # p /\ state[s] # "Unused" => pid[s] # pid[p]
             /\ pid[p] < next_pid
             /\ UNCHANGED <<pid, next_pid, reaps>>
  BY <1>4 DEF Died, ExitInv, PidsUnique
<1>5. ASSUME NEW p \in Slots, Returns(p)
      PROVE  ExitInv'
  <2>1. Died(p) /\ parent[p] = NoProc /\ UNCHANGED <<parent, exit_status, exits>>
    BY <1>5 DEF Returns
  <2>2. Kept' = Kept
    <3>1. <<pid[p], exit_status[p]>>[1] = pid[p]
      OBVIOUS
    <3>2. <<pid[p], exit_status[p]>> \notin exits
      BY <1>4, <2>1, <3>1
    <3>3. \A z \in Slots : (state'[z] = "Zombie" /\ <<pid'[z], exit_status'[z]>> \in exits')
                        <=> (state[z] = "Zombie" /\ <<pid[z], exit_status[z]>> \in exits)
      BY <1>4, <2>1, <3>2
    <3>4. QED
      BY <1>4, <2>1, <3>3 DEF Kept
  <2>3. ExitsConserved'
    BY <1>4, <2>1, <2>2 DEF ExitInv, ExitsConserved, Kept
  <2>4. \A e \in exits', s \in Slots : state'[s] # "Unused" /\ pid'[s] = e[1]
            => state'[s] = "Zombie" /\ exit_status'[s] = e[2] /\ e \notin reaps'
    BY <1>4, <2>1 DEF ExitInv, Died
  <2>5. QED
    BY <1>4, <2>1, <2>3, <2>4 DEF ExitInv
<1>6. ASSUME NEW p \in Slots, NEW status \in ExitStatuses, Exits(p, status)
      PROVE  ExitInv'
  <2> DEFINE e0 == <<pid[p], status>>
  <2>1. /\ Died(p) /\ exits' = exits \cup {e0} /\ exit_status'[p] = status
        /\ \A s \in Slots : s # p => exit_status'[s] = exit_status[s]
        /\ \A s \in Slots : parent'[s] # NoProc => parent[s] # NoProc
    BY <1>0, <1>6 DEF Exits
  <2>2. e0[1] = pid[p] /\ e0[2] = status
    OBVIOUS
  <2> HIDE DEF e0
  <2>3. e0 \notin exits /\ e0 \notin reaps
    <3>1. e0 \notin exits
      BY <1>4, <2>1, <2>2
    <3>2. reaps \subseteq exits
      BY DEF ExitInv, ExitsConserved
    <3>3. QED
      BY <3>1, <3>2
  <2>4. Kept' = Kept \cup {e0}
    <3>1. Kept \subseteq Kept'
      <4>1. \A z \in Slots : state[z] = "Zombie" /\ <<pid[z], exit_status[z]>> \in exits
              => /\ state'[z] = "Zombie" /\ <<pid'[z], exit_status'[z]>> = <<pid[z], exit_status[z]>>
                 /\ <<pid'[z], exit_status'[z]>> \in exits'
        BY <1>4, <2>1
      <4>2. QED
        BY <4>1 DEF Kept
    <3>2. e0 \in Kept'
      <4>1. state'[p] = "Zombie" /\ <<pid'[p], exit_status'[p]>> = e0 /\ e0 \in exits'
        BY <1>4, <2>1 DEF e0
      <4>2. QED
        BY <4>1 DEF Kept
    <3>3. \A z \in Slots : z # p /\ state'[z] = "Zombie" /\ <<pid'[z], exit_status'[z]>> \in exits'
            => /\ state[z] = "Zombie" /\ <<pid'[z], exit_status'[z]>> = <<pid[z], exit_status[z]>>
               /\ <<pid[z], exit_status[z]>> \in exits
      BY <1>0, <1>4, <2>1, <2>2
    <3>4. Kept' \subseteq Kept \cup {e0}
      <4>1. <<pid'[p], exit_status'[p]>> = e0
        BY <1>4, <2>1 DEF e0
      <4>2. QED
        BY <3>3, <4>1 DEF Kept
    <3>5. QED
      BY <3>1, <3>2, <3>4
  <2>5. ExitsConserved'
    <3>1. exits = reaps \cup Kept /\ reaps \cap Kept = {}
      BY DEF ExitInv, ExitsConserved, Kept
    <3>2. exits' = reaps' \cup Kept' /\ reaps' \cap Kept' = {}
      BY <1>4, <2>1, <2>3, <2>4, <3>1
    <3>3. QED
      BY <3>2 DEF ExitsConserved, Kept
  <2>6. \A e \in exits' : e[1] < next_pid'
    BY <1>4, <2>1, <2>2 DEF ExitInv
  <2>7. \A e \in exits', s \in Slots : state'[s] # "Unused" /\ pid'[s] = e[1]
            => state'[s] = "Zombie" /\ exit_status'[s] = e[2] /\ e \notin reaps'
    <3>1. SUFFICES ASSUME NEW e \in exits', NEW s \in Slots, state'[s] # "Unused", pid'[s] = e[1]
                   PROVE  state'[s] = "Zombie" /\ exit_status'[s] = e[2] /\ e \notin reaps'
      OBVIOUS
    <3>2. state[s] # "Unused"
      BY <2>1, <3>1 DEF Died
    <3>3. CASE e = e0
      BY <1>4, <2>1, <2>2, <2>3, <3>1, <3>2, <3>3
    <3>4. CASE e \in exits
      BY <1>4, <2>1, <3>1, <3>2, <3>4 DEF ExitInv
    <3>5. QED
      BY <2>1, <3>1, <3>3, <3>4
  <2>8. \A s \in Slots : state'[s] = "Zombie" /\ parent'[s] # NoProc
            => <<pid'[s], exit_status'[s]>> \in exits'
    BY <1>4, <2>1 DEF ExitInv, e0
  <2>9. QED
    BY <1>4, <2>1, <2>5, <2>6, <2>7, <2>8 DEF ExitInv
<1>7. ASSUME NEW p \in Slots, NEW c \in Slots, Reaps(p, c)
      PROVE  ExitInv'
  <2> DEFINE e0 == <<pid[c], exit_status[c]>>
  <2>1. /\ state[c] = "Zombie" /\ parent[c] = p /\ state'[c] = "Unused" /\ parent'[c] = NoProc
        /\ \A s \in Slots : s # c => /\ state'[s] = state[s] /\ parent'[s] = parent[s]
                                     /\ exit_status'[s] = exit_status[s]
        /\ reaps' = reaps \cup {e0} /\ UNCHANGED <<pid, next_pid, exits>>
    BY <1>0, <1>7 DEF Reaps, wait_reaps, free_process_resources, ZombieChildren, Children, TypeOK
  <2>2. e0 \in exits /\ e0 \notin reaps
    <3>1. e0 \in exits
      BY <2>1, SlotFacts DEF ExitInv
    <3>2. QED
      BY <2>1, <3>1 DEF ExitInv
  <2>3. \A s \in Slots : s # c /\ state[s] # "Unused" => pid[s] # pid[c]
    BY <2>1 DEF ExitInv, PidsUnique
  <2>4. Kept' = Kept \ {e0}
    <3>1. \A z \in Slots : state'[z] = "Zombie"
            => /\ z # c /\ state[z] = "Zombie" /\ <<pid'[z], exit_status'[z]>> = <<pid[z], exit_status[z]>>
               /\ <<pid[z], exit_status[z]>> # e0
      BY <2>1, <2>3
    <3>2. \A z \in Slots : state[z] = "Zombie" /\ <<pid[z], exit_status[z]>> # e0
            => state'[z] = "Zombie" /\ <<pid'[z], exit_status'[z]>> = <<pid[z], exit_status[z]>>
      BY <2>1
    <3>3. exits' = exits
      BY <2>1
    <3> HIDE DEF e0
    <3>4. Kept' \subseteq Kept \ {e0}
      BY <3>1, <3>3 DEF Kept
    <3>5. Kept \ {e0} \subseteq Kept'
      BY <3>2, <3>3 DEF Kept
    <3>6. QED
      BY <3>4, <3>5
  <2>5. e0 \in Kept
    BY <2>1, <2>2 DEF Kept
  <2>6. ExitsConserved'
    <3>1. exits = reaps \cup Kept /\ reaps \cap Kept = {}
      BY DEF ExitInv, ExitsConserved, Kept
    <3>2. exits' = reaps' \cup Kept' /\ reaps' \cap Kept' = {}
      BY <2>1, <2>4, <2>5, <3>1
    <3>3. QED
      BY <3>2 DEF ExitsConserved, Kept
  <2>7. PidsUnique'
    BY <2>1 DEF ExitInv, PidsUnique
  <2>8. \A e \in exits', s \in Slots : state'[s] # "Unused" /\ pid'[s] = e[1]
            => state'[s] = "Zombie" /\ exit_status'[s] = e[2] /\ e \notin reaps'
    BY <2>1, <2>3 DEF ExitInv
  <2>9. \A s \in Slots : state'[s] = "Zombie" /\ parent'[s] # NoProc
            => <<pid'[s], exit_status'[s]>> \in exits'
    BY <2>1 DEF ExitInv
  <2>10. QED
    BY <2>1, <2>6, <2>7, <2>8, <2>9 DEF ExitInv
<1>8. QED
  <2>1. CASE StaysPut
    BY <1>1, <2>1 DEF StaysPut
  <2>2. QED
    BY <1>1, <1>2, <1>3, <1>5, <1>6, <1>7, <2>1, StepKinds

\* exit() and wait(): every status is kept by its Zombie until one wait() returns it with its
\* pid.  Nothing is lost, altered or reported twice, for every number of processes.
THEOREM ExitsAreConserved ==
    ASSUME ForkedMayReturn = FALSE
    PROVE  Spec => []ExitsConserved
<1>1. Init => ExitInv
  BY DEF Init, ExitInv, PidsUnique, ExitsConserved
<1>2. TypeOK /\ ProcInv /\ ExitInv /\ [Next]_vars => ExitInv'
  BY ExitInductive
<1>3. ExitInv => ExitsConserved
  BY DEF ExitInv
<1>4. QED
  BY <1>1, <1>2, <1>3, TypeCorrect, ProcInvariant, PTL DEF Spec

-----------------------------------------------------------------------------
(* Reference counts of Files *)

\* The fds of the fd tables fs that point to f, and those of them not in slot s.
At(fs, f) == {x \in Slots \X Fds : fs[x[1]][x[2]] = f}
Elsewhere(fs, s, f) == {x \in At(fs, f) : x[1] # s}

\* The fds that point to f are those of slot s and those of the other slots.
LEMMA CountSplit ==
    ASSUME NEW fs, NEW s \in Slots, NEW f
    PROVE  /\ Cardinality(At(fs, f)) \in Nat
           /\ Cardinality(Elsewhere(fs, s, f)) \in Nat
           /\ Cardinality(At(fs, f)) = Cardinality(Elsewhere(fs, s, f)) + Uses(fs[s], f)
<1> DEFINE own  == {fd \in Fds : fs[s][fd] = f}
           here == {x \in At(fs, f) : x[1] = s}
           rest == Elsewhere(fs, s, f)
<1>1. IsFiniteSet(Slots) /\ IsFiniteSet(Fds)
  <2>1. 0 \in Int /\ MAX_PROCESSES - 1 \in Int /\ NUM_OPEN_FILES - 1 \in Int
    BY ProcessConstants, FileConstants
  <2>2. QED
    BY <2>1, FS_Interval DEF Slots, Fds
<1>2. IsFiniteSet(Slots \X Fds)
  BY <1>1, FS_Product
<1>3. IsFiniteSet(At(fs, f))
  BY <1>2, FS_Subset DEF At
<1>4. IsFiniteSet(here) /\ IsFiniteSet(rest)
  BY <1>3, FS_Subset DEF Elsewhere
<1>5. IsFiniteSet(own)
  BY <1>1, FS_Subset
<1>6. Cardinality(here) = Cardinality(own)
  <2> DEFINE g == [fd \in own |-> <<s, fd>>]
  <2>1. g \in [own -> here]
    BY DEF At
  <2>2. \A a, b \in own : g[a] = g[b] => a = b
    OBVIOUS
  <2>3. \A x \in here : \E a \in own : g[a] = x
    <3>1. SUFFICES ASSUME NEW x \in here
                   PROVE  \E a \in own : g[a] = x
      OBVIOUS
    <3>2. x \in Slots \X Fds /\ x[1] = s /\ fs[x[1]][x[2]] = f
      BY DEF At
    <3>3. x = <<s, x[2]>> /\ x[2] \in own
      BY <3>2
    <3>4. QED
      BY <3>3
  <2> HIDE DEF g, own, here
  <2>4. g \in Bijection(own, here)
    BY <2>1, <2>2, <2>3 DEF Bijection, Injection, Surjection, IsInjective
  <2>5. QED
    BY <1>5, <2>4, FS_Bijection DEF ExistsBijection
<1>7. At(fs, f) = here \cup rest /\ here \cap rest = {}
  BY DEF Elsewhere
<1>8. Cardinality(own) = Uses(fs[s], f)
  BY DEF Uses
<1> HIDE DEF own, here, rest
<1>9. /\ Cardinality(here) \in Nat /\ Cardinality(rest) \in Nat
      /\ Cardinality(here \cap rest) = 0
      /\ Cardinality(here \cup rest)
           = Cardinality(here) + Cardinality(rest) - Cardinality(here \cap rest)
  BY <1>4, <1>7, FS_Union, FS_EmptySet, FS_CardinalityType
<1>10. QED
  BY <1>6, <1>7, <1>8, <1>9 DEF rest

\* Giving slot s another fd table changes the counts by what the two tables use.
LEMMA CountReplaced ==
    ASSUME NEW fs \in [Slots -> FdTable], NEW s \in Slots, NEW t \in FdTable, NEW f
    PROVE  /\ Cardinality(At(fs, f)) \in Nat
           /\ Uses(fs[s], f) \in Nat /\ Uses(t, f) \in Nat
           /\ Uses(fs[s], f) <= Cardinality(At(fs, f))
           /\ Cardinality(At([fs EXCEPT ![s] = t], f))
                = Cardinality(At(fs, f)) - Uses(fs[s], f) + Uses(t, f)
<1>1. PICK gs : gs = [fs EXCEPT ![s] = t]
  OBVIOUS
<1>2. gs[s] = t
  BY <1>1
<1>3. \A x \in Slots \X Fds : x[1] # s => gs[x[1]] = fs[x[1]]
  BY <1>1
<1>4. Elsewhere(gs, s, f) = Elsewhere(fs, s, f)
  BY <1>3 DEF Elsewhere, At
<1>5. Cardinality(At(gs, f)) = Cardinality(Elsewhere(gs, s, f)) + Uses(gs[s], f)
  BY CountSplit
<1>6. /\ Cardinality(At(fs, f)) \in Nat /\ Cardinality(Elsewhere(fs, s, f)) \in Nat
      /\ Cardinality(At(fs, f)) = Cardinality(Elsewhere(fs, s, f)) + Uses(fs[s], f)
  BY CountSplit
<1>7. Uses(fs[s], f) \in Nat /\ Uses(t, f) \in Nat
  BY UsesNat
<1>8. QED
  BY <1>1, <1>2, <1>4, <1>5, <1>6, <1>7

\* An empty fd table uses no File.
LEMMA NoFdsUseNothing ==
    /\ NoFds \in FdTable
    /\ \A f \in Files : Uses(NoFds, f) = 0
<1>1. ASSUME NEW f \in Files
      PROVE  Uses(NoFds, f) = 0
  <2>1. {fd \in Fds : NoFds[fd] = f} = {}
    BY FileConstants DEF NoFds, NoFile, Files
  <2>2. QED
    BY <2>1, FS_EmptySet DEF Uses
<1>2. QED
  BY <1>1 DEF NoFds, FdTable

\* The reference counts of the table ft are those of the fd tables fs.
Counted(ft, fs) ==
    \A f \in Files : /\ ft[f].refcnt = Cardinality(At(fs, f))
                     /\ ft[f].refcnt = 0 => ft[f] = EmptyFile

\* Closing all files of a process that then has none.
LEMMA CloseAllCounted ==
    ASSUME NEW ft \in [Files -> FileRecord], NEW fs \in [Slots -> FdTable], NEW s \in Slots,
           Counted(ft, fs)
    PROVE  Counted(close_all_files(ft, fs[s]), [fs EXCEPT ![s] = NoFds])
<1>1. SUFFICES ASSUME NEW f \in Files
               PROVE  LET d == Drop(ft[f], Uses(fs[s], f))
                      IN  /\ d.refcnt = Cardinality(At([fs EXCEPT ![s] = NoFds], f))
                          /\ d.refcnt = 0 => d = EmptyFile
  BY DEF Counted, close_all_files
<1>2. PICK n : n = Uses(fs[s], f)
  OBVIOUS
<1>3. PICK c : c = Cardinality(At(fs, f))
  OBVIOUS
<1>4. c \in Nat /\ n \in Nat /\ n <= c /\ Cardinality(At([fs EXCEPT ![s] = NoFds], f)) = c - n
  <2>1. NoFds \in FdTable /\ Uses(NoFds, f) = 0
    BY NoFdsUseNothing
  <2>2. /\ Cardinality(At(fs, f)) \in Nat /\ Uses(fs[s], f) \in Nat
        /\ Uses(fs[s], f) <= Cardinality(At(fs, f))
        /\ Cardinality(At([fs EXCEPT ![s] = NoFds], f))
             = Cardinality(At(fs, f)) - Uses(fs[s], f) + Uses(NoFds, f)
    BY <2>1, CountReplaced
  <2>3. QED
    BY <1>2, <1>3, <2>1, <2>2
<1>5. ft[f].refcnt = c /\ (c = 0 => ft[f] = EmptyFile) /\ ft[f] \in FileRecord
  BY <1>3 DEF Counted
<1>6. LET d == Drop(ft[f], n) IN d.refcnt = c - n /\ (d.refcnt = 0 => d = EmptyFile)
  <2>1. CASE n = 0 \/ c = 0
    BY <1>4, <1>5, <2>1 DEF Drop
  <2>2. CASE n # 0 /\ c > n
    <3>1. Drop(ft[f], n) = [ft[f] EXCEPT !.refcnt = @ - n]
      BY <1>4, <1>5, <2>2 DEF Drop
    <3>2. Drop(ft[f], n).refcnt = c - n
      BY <1>5, <3>1 DEF FileRecord
    <3>3. QED
      BY <1>4, <2>2, <3>2
  <2>3. CASE n # 0 /\ c = n
    BY <1>4, <1>5, <2>3 DEF Drop, EmptyFile
  <2>4. QED
    BY <1>4, <2>1, <2>2, <2>3
<1>7. QED
  BY <1>2, <1>4, <1>6

\* fork(): the fds of the child are counted.
LEMMA DuplicateCounted ==
    ASSUME file_table \in [Files -> FileRecord], files \in [Slots -> FdTable],
           NEW s \in Slots, NEW p \in Slots, files[s] = NoFds, Counted(file_table, files)
    PROVE  Counted(duplicate_all_files(file_table, files[p]), [files EXCEPT ![s] = files[p]])
<1>1. ASSUME NEW f \in Files
      PROVE  LET d == [file_table[f] EXCEPT !.refcnt = @ + Uses(files[p], f)]
             IN  /\ d.refcnt = Cardinality(At([files EXCEPT ![s] = files[p]], f))
                 /\ d.refcnt = 0 => d = EmptyFile
  <2>1. PICK n : n = Uses(files[p], f)
    OBVIOUS
  <2>2. PICK c : c = Cardinality(At(files, f))
    OBVIOUS
  <2>3. files[p] \in FdTable
    OBVIOUS
  <2>4. c \in Nat /\ n \in Nat /\ Cardinality(At([files EXCEPT ![s] = files[p]], f)) = c + n
    <3>1. Uses(files[s], f) = 0
      BY NoFdsUseNothing
    <3>2. /\ Cardinality(At(files, f)) \in Nat /\ Uses(files[p], f) \in Nat
          /\ Cardinality(At([files EXCEPT ![s] = files[p]], f))
               = Cardinality(At(files, f)) - Uses(files[s], f) + Uses(files[p], f)
      BY <2>3, CountReplaced
    <3>3. QED
      BY <2>1, <2>2, <3>1, <3>2
  <2>5. file_table[f].refcnt = c /\ (c = 0 => file_table[f] = EmptyFile) /\ file_table[f] \in FileRecord
    BY <2>2 DEF Counted
  <2>6. PICK d : d = [file_table[f] EXCEPT !.refcnt = @ + n]
    OBVIOUS
  <2>7. d.refcnt = c + n
    BY <2>5, <2>6 DEF FileRecord
  <2>8. c + n = 0 => d = EmptyFile
    <3>1. SUFFICES ASSUME c = 0, n = 0
                   PROVE  d = EmptyFile
      BY <2>4
    <3>2. [EmptyFile EXCEPT !.refcnt = 0] = EmptyFile /\ EmptyFile.refcnt + 0 = 0
      BY DEF EmptyFile
    <3>3. d = [EmptyFile EXCEPT !.refcnt = EmptyFile.refcnt + 0]
      BY <2>5, <2>6, <3>1
    <3>4. QED
      BY <3>2, <3>3
  <2>9. QED
    BY <2>1, <2>4, <2>6, <2>7, <2>8
<1>2. QED
  BY <1>1 DEF Counted, duplicate_all_files

\* close(): one fd fewer.
LEMMA CloseCounted ==
    ASSUME file_table \in [Files -> FileRecord], files \in [Slots -> FdTable],
           NEW s \in Slots, NEW fd \in Fds, files[s][fd] # NoFile, Counted(file_table, files)
    PROVE  Counted(file_close(file_table, files[s][fd]), [files EXCEPT ![s][fd] = NoFile])
<1>1. PICK t : t = [files[s] EXCEPT ![fd] = NoFile]
  OBVIOUS
<1>2. files[s] \in FdTable /\ t \in FdTable /\ files[s][fd] \in Files
      /\ [files EXCEPT ![s][fd] = NoFile] = [files EXCEPT ![s] = t]
  BY <1>1 DEF FdTable
<1>3. ASSUME NEW f \in Files
      PROVE  Uses(t, f) = IF f = files[s][fd] THEN Uses(files[s], f) - 1 ELSE Uses(files[s], f)
  <2> DEFINE old == {i \in Fds : files[s][i] = f}
             now == {i \in Fds : t[i] = f}
  <2>1. IsFiniteSet(old)
    <3>1. 0 \in Int /\ NUM_OPEN_FILES - 1 \in Int
      BY FileConstants
    <3>2. IsFiniteSet(Fds)
      BY <3>1, FS_Interval DEF Fds
    <3>3. QED
      BY <3>2, FS_Subset
  <2>2. NoFile # f
    BY FileConstants DEF NoFile, Files
  <2>3. now = IF f = files[s][fd] THEN old \ {fd} ELSE old
    BY <1>1, <1>2, <2>2 DEF FdTable
  <2>4. f = files[s][fd] => fd \in old
    OBVIOUS
  <2>5. Uses(t, f) = Cardinality(now) /\ Uses(files[s], f) = Cardinality(old)
    BY DEF Uses
  <2> HIDE DEF old, now
  <2>6. QED
    BY <2>1, <2>3, <2>4, <2>5, FS_RemoveElement
<1>4. ASSUME NEW f \in Files
      PROVE  LET d == file_close(file_table, files[s][fd])[f]
             IN  /\ d.refcnt = Cardinality(At([files EXCEPT ![s] = t], f))
                 /\ d.refcnt = 0 => d = EmptyFile
  <2>1. PICK n : n = Uses(files[s], f)
    OBVIOUS
  <2>2. PICK c : c = Cardinality(At(files, f))
    OBVIOUS
  <2>3. PICK m : m = Uses(t, f)
    OBVIOUS
  <2>4. c \in Nat /\ n \in Nat /\ m \in Nat /\ n <= c
        /\ Cardinality(At([files EXCEPT ![s] = t], f)) = c - n + m
    <3>0. t \in FdTable
      BY <1>2
    <3>1. /\ Cardinality(At(files, f)) \in Nat
          /\ Uses(files[s], f) \in Nat /\ Uses(t, f) \in Nat
          /\ Uses(files[s], f) <= Cardinality(At(files, f))
          /\ Cardinality(At([files EXCEPT ![s] = t], f))
               = Cardinality(At(files, f)) - Uses(files[s], f) + Uses(t, f)
      BY <3>0, CountReplaced
    <3>2. QED
      BY <2>1, <2>2, <2>3, <3>1
  <2>5. file_table[f].refcnt = c /\ (c = 0 => file_table[f] = EmptyFile) /\ file_table[f] \in FileRecord
    BY <2>2 DEF Counted
  <2>6. m = IF f = files[s][fd] THEN n - 1 ELSE n
    BY <1>3, <2>1, <2>3
  <2>7. file_close(file_table, files[s][fd])[f]
          = IF f = files[s][fd] THEN Drop(file_table[f], 1) ELSE file_table[f]
    BY DEF file_close
  <2>8. CASE f = files[s][fd]
    <3>1. m = n - 1 /\ c >= 1 /\ c - n + m = c - 1
      BY <2>4, <2>6, <2>8
    <3>2. Drop(file_table[f], 1).refcnt = c - 1
          /\ (Drop(file_table[f], 1).refcnt = 0 => Drop(file_table[f], 1) = EmptyFile)
      BY <2>4, <2>5, <3>1 DEF Drop, EmptyFile, FileRecord
    <3>3. QED
      BY <2>4, <2>7, <2>8, <3>1, <3>2
  <2>9. CASE f # files[s][fd]
    BY <2>4, <2>5, <2>6, <2>7, <2>9
  <2>10. QED
    BY <2>8, <2>9
<1>5. QED
  BY <1>2, <1>4 DEF Counted

\* open_console_files(): the fds it set are counted, also when it fails half way.
LEMMA OpenCounted ==
    ASSUME files \in [Slots -> FdTable], NEW s \in Slots, files[s] = NoFds,
           Counted(file_table, files), NEW t, NEW fds, Opened(file_table, t, fds)
    PROVE  Counted(t, [files EXCEPT ![s] = fds])
<1>1. SUFFICES ASSUME NEW f \in Files
               PROVE  /\ t[f].refcnt = Cardinality(At([files EXCEPT ![s] = fds], f))
                      /\ t[f].refcnt = 0 => t[f] = EmptyFile
  BY DEF Counted
<1>2. PICK c, n : c = Cardinality(At(files, f)) /\ n = Uses(fds, f)
  OBVIOUS
<1>3. c \in Nat /\ n \in Nat /\ Cardinality(At([files EXCEPT ![s] = fds], f)) = c + n
  <2>1. fds \in FdTable /\ Uses(files[s], f) = 0
    BY NoFdsUseNothing DEF Opened
  <2>2. /\ Cardinality(At(files, f)) \in Nat /\ Uses(fds, f) \in Nat
        /\ Cardinality(At([files EXCEPT ![s] = fds], f))
             = Cardinality(At(files, f)) - Uses(files[s], f) + Uses(fds, f)
    BY <2>1, CountReplaced
  <2>3. QED
    BY <1>2, <2>1, <2>2
<1>4. file_table[f].refcnt = c /\ (c = 0 => file_table[f] = EmptyFile)
  BY <1>2 DEF Counted
<1>5. (n = 0 /\ t[f] = file_table[f]) \/ (c = 0 /\ n > 0 /\ t[f].refcnt = n)
  BY <1>2, <1>4 DEF Opened
<1>6. QED
  BY <1>3, <1>4, <1>5

\* A creation that fails leaves the table it found: what it opened it closes again.
LEMMA FailedCounted ==
    ASSUME TypeOK, NEW s \in Slots, files[s] = NoFds, Counted(file_table, files), Failed(s)
    PROVE  Counted(file_table', files') /\ files' = files
<1>1. PICK t, fds : Begun(t, fds) /\ creation_fails(s, t, fds)
  BY DEF Failed
<1>2. /\ t \in [Files -> FileRecord] /\ fds \in FdTable /\ files \in [Slots -> FdTable]
      /\ file_table \in [Files -> FileRecord]
  BY <1>1, BegunTypes DEF TypeOK
<1>3. PICK fs : fs = [files EXCEPT ![s] = fds]
  OBVIOUS
<1>4. Counted(t, fs)
  <2>1. CASE t = file_table /\ fds = NoFds
    <3>1. fs = files
      BY <1>2, <1>3, <2>1
    <3>2. QED
      BY <2>1, <3>1
  <2>2. CASE t = open_console_files(file_table).table /\ fds = open_console_files(file_table).fds
    <3>1. Opened(file_table, t, fds)
      BY <1>2, <2>2, ConsoleOpened
    <3>2. QED
      BY <1>2, <1>3, <3>1, OpenCounted
  <2>3. ASSUME NEW p \in Slots, t = duplicate_all_files(file_table, files[p]), fds = files[p]
        PROVE  Counted(t, fs)
    BY <1>2, <1>3, <2>3, DuplicateCounted
  <2>4. QED
    BY <1>1, <2>1, <2>2, <2>3 DEF Begun
<1>5. fs \in [Slots -> FdTable] /\ fs[s] = fds
  BY <1>2, <1>3
<1>6. Counted(close_all_files(t, fs[s]), [fs EXCEPT ![s] = NoFds])
  BY <1>2, <1>4, <1>5, CloseAllCounted
<1>7. [fs EXCEPT ![s] = NoFds] = files /\ [files EXCEPT ![s] = NoFds] = files
  BY <1>2, <1>3
<1>8. file_table' = close_all_files(t, fds) /\ files' = [files EXCEPT ![s] = NoFds]
  BY <1>1 DEF creation_fails, free_process_resources
<1>9. QED
  BY <1>5, <1>6, <1>7, <1>8

\* A process that is not alive has no open files.
FileInv == RefcntExact /\ \A s \in Slots : state[s] \in {"Unused", "Zombie"} => files[s] = NoFds

\* Every step counts the fds it opens and closes.
LEMMA FileInductive ==
    ASSUME TypeOK, ProcInv, ForkedMayReturn = FALSE, FileInv, [Next]_vars
    PROVE  FileInv'
<1>0. /\ files \in [Slots -> FdTable] /\ file_table \in [Files -> FileRecord]
      /\ Counted(file_table, files)
      /\ \A s \in Slots : state[s] \in {"Unused", "Zombie"} => files[s] = NoFds
  BY DEF TypeOK, FileInv, RefcntExact, Counted, At
<1>1. Counted(file_table', files') => RefcntExact'
  BY DEF RefcntExact, Counted, At
<1>2. ASSUME StaysPut
      PROVE  FileInv'
  <2>1. UNCHANGED <<files, file_table>>
        /\ \A s \in Slots : state'[s] \in {"Unused", "Zombie"} => state[s] \in {"Unused", "Zombie"}
    BY <1>2 DEF StaysPut, SameTable
  <2>2. QED
    BY <1>0, <1>1, <2>1 DEF FileInv
<1>3. ASSUME NEW s \in Slots, create_thread(s), Created(s)
      PROVE  FileInv'
  <2>1. files[s] = NoFds
    BY <1>0, <1>3 DEF Created
  <2>2. RefcntExact'
    <3>1. PICK c : c = open_console_files(file_table)
      OBVIOUS
    <3>2. Opened(file_table, c.table, c.fds)
      BY <1>0, <3>1, ConsoleOpened
    <3>3. file_table' = c.table /\ files' = [files EXCEPT ![s] = c.fds]
      BY <1>3, <3>1 DEF create_thread
    <3>4. QED
      BY <1>0, <1>1, <2>1, <3>2, <3>3, OpenCounted
  <2>3. \A t \in Slots : t # s => state'[t] = state[t] /\ files'[t] = files[t]
    BY <1>0, <1>3 DEF Created, create_thread
  <2>4. QED
    BY <1>0, <1>3, <2>2, <2>3 DEF FileInv, Created
<1>4. ASSUME NEW s \in Slots, Failed(s)
      PROVE  FileInv'
  <2>1. files[s] = NoFds /\ UNCHANGED state
    BY <1>0, <1>4, FailedKeeps
  <2>2. QED
    BY <1>0, <1>1, <1>4, <2>1, FailedCounted DEF FileInv
<1>5. ASSUME NEW p \in Slots, NEW s \in Slots, Created(s),
             files' = [files EXCEPT ![s] = files[p]],
             file_table' = duplicate_all_files(file_table, files[p])
      PROVE  FileInv'
  <2>1. files[s] = NoFds
    BY <1>0, <1>5 DEF Created
  <2>2. RefcntExact'
    BY <1>0, <1>1, <1>5, <2>1, DuplicateCounted
  <2>3. QED
    BY <1>0, <1>5, <2>2 DEF FileInv, Created
<1>6. ASSUME NEW p \in Slots, Died(p)
      PROVE  FileInv'
  <2>1. RefcntExact'
    BY <1>0, <1>1, <1>6, CloseAllCounted DEF Died
  <2>2. QED
    BY <1>0, <1>6, <2>1 DEF FileInv, Died
<1>7. ASSUME NEW p \in Slots, NEW c \in Slots, Reaps(p, c)
      PROVE  FileInv'
  <2>1. RefcntExact'
    BY <1>0, <1>1, <1>7, CloseAllCounted DEF Reaps, wait_reaps, free_process_resources
  <2>2. \A s \in Slots : s # c => state'[s] = state[s] /\ files'[s] = files[s]
    BY <1>0, <1>7 DEF Reaps, wait_reaps, free_process_resources, TypeOK
  <2>3. files'[c] = NoFds
    BY <1>0, <1>7 DEF Reaps, wait_reaps, free_process_resources
  <2>4. QED
    BY <1>0, <2>1, <2>2, <2>3 DEF FileInv
<1>8. ASSUME NEW p \in Slots, NEW fd \in Fds, SameTable, sys_close(p, fd)
      PROVE  FileInv'
  <2>1. RefcntExact'
    BY <1>0, <1>1, <1>8, CloseCounted DEF sys_close
  <2>2. state[p] = "Running" /\ UNCHANGED state
    BY <1>8 DEF sys_close, Acting, ProcInv, RunsAsItself
  <2>3. \A s \in Slots : s # p => files'[s] = files[s]
    BY <1>0, <1>8 DEF sys_close
  <2>4. QED
    BY <1>0, <2>1, <2>2, <2>3 DEF FileInv
<1>9. QED
  BY <1>2, <1>3, <1>4, <1>5, <1>6, <1>7, <1>8, StepKinds DEF Exits, Returns

\* fork(), exit(), wait(), close() and the creation of a thread count references exactly, and
\* free_process_resources() closes what a creation opened before it failed: a File's refcnt is
\* the number of fds that point to it, for every table size.
THEOREM FileRefcntsExact ==
    ASSUME ForkedMayReturn = FALSE
    PROVE  Spec => []RefcntExact
<1>1. Init => FileInv
  <2>1. SUFFICES ASSUME Init
                 PROVE  FileInv
    OBVIOUS
  <2>2. ASSUME NEW f \in Files
        PROVE  {x \in Slots \X Fds : files[x[1]][x[2]] = f} = {}
    BY <2>1, FileConstants DEF Init, NoFds, NoFile, Files
  <2>3. \A f \in Files : file_table[f] = EmptyFile /\ EmptyFile.refcnt = 0
    BY <2>1 DEF Init, EmptyFile
  <2>4. RefcntExact
    BY <2>2, <2>3, FS_EmptySet DEF RefcntExact
  <2>5. QED
    BY <2>1, <2>4 DEF FileInv, Init
<1>2. TypeOK /\ ProcInv /\ FileInv /\ [Next]_vars => FileInv'
  BY FileInductive
<1>3. FileInv => RefcntExact
  BY DEF FileInv
<1>4. QED
  BY <1>1, <1>2, <1>3, TypeCorrect, ProcInvariant, PTL DEF Spec

-----------------------------------------------------------------------------
(* What follows *)

\* A Zombie leaves the table only when its parent, in wait(), collects it.
THEOREM ZombiesWait ==
    ASSUME ForkedMayReturn = FALSE
    PROVE  Spec => ZombieWaitsForParent
<1>1. ASSUME TypeOK, ProcInv, [Next]_vars
      PROVE  [\A s \in Slots : state[s] = "Zombie" /\ state'[s] # "Zombie"
                => /\ state'[s] = "Unused"
                   /\ current = parent[s]
                   /\ pc'[current] = "run"]_vars
  <2>1. SUFFICES ASSUME NEW s \in Slots, state[s] = "Zombie", state'[s] # "Zombie"
                 PROVE  state'[s] = "Unused" /\ current = parent[s] /\ pc'[current] = "run"
    OBVIOUS
  <2>2. PICK p \in Slots, c \in Slots : Reaps(p, c)
    BY <1>1, <2>1, StepKinds, FailedKeeps DEF StaysPut, SameTable, Created, Exits, Returns, Died
  <2>3. QED
    BY <1>1, <2>1, <2>2 DEF Reaps, wait_reaps, free_process_resources, ZombieChildren, Children, TypeOK
<1>2. QED
  BY <1>1, TypeCorrect, ProcInvariant, PTL DEF Spec, ZombieWaitsForParent

\* The CPU runs the process cpu.current names, in its own address space: every switch keeps
\* the state of the table, cpu.current and CR3 in step.
THEOREM CurrentRunsAsItself ==
    ASSUME ForkedMayReturn = FALSE
    PROVE  Spec => []RunsAsItself
<1>1. ProcInv => RunsAsItself
  BY DEF ProcInv
<1>2. QED
  BY <1>1, ProcInvariant, PTL

\* exit() and wait() lose no wakeup.
THEOREM NoWakeupIsLost ==
    ASSUME ForkedMayReturn = FALSE
    PROVE  Spec => []NoLostWakeup
<1>1. ProcInv => NoLostWakeup
  BY DEF ProcInv
<1>2. QED
  BY <1>1, ProcInvariant, PTL

\* wait() never frees a slot that a child's parent pointer still names.
THEOREM ParentsStay ==
    ASSUME ForkedMayReturn = FALSE
    PROVE  Spec => []ParentNotFreed
<1>1. ProcInv => ParentNotFreed
  BY DEF ProcInv
<1>2. QED
  BY <1>1, ProcInvariant, PTL

\* wait() never frees the page tables in CR3 and the kernel stack in TSS.rsp0.
THEOREM NothingFreedInUse ==
    ASSUME ForkedMayReturn = FALSE
    PROVE  Spec => []LoadedNotFreed
<1>1. ProcInv => LoadedNotFreed
  BY DEF ProcInv
<1>2. QED
  BY <1>1, ProcInvariant, PTL

\* The code after trampoline()'s yield() is unreachable.
THEOREM TrampolineEnds ==
    ASSUME ForkedMayReturn = FALSE
    PROVE  Spec => []TrampolineNeverResumes
<1>1. ProcInv => TrampolineNeverResumes
  BY DEF ProcInv, RunsAsItself, SavedContexts, TrampolineNeverResumes
<1>2. QED
  BY <1>1, ProcInvariant, PTL
=============================================================================
