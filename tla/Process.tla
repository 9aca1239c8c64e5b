------------------------------ MODULE Process ------------------------------
(***************************************************************************)
(* The process table and the cooperative scheduler (include/process.cpp):  *)
(* create_process, yield, sleep/wakeup, fork, exit, wait and the           *)
(* trampoline, with the fd tables and File reference counts they move.     *)
(*                                                                         *)
(* One CPU, no preemption: the timer interrupt only counts ticks and no    *)
(* interrupt handler reads or writes the process table, so the code a      *)
(* process runs between two calls of schedule() is one atomic step.  A     *)
(* process that lost the CPU resumes where its saved context points,       *)
(* which is pc[s].                                                         *)
(*                                                                         *)
(* The clients of the API are arbitrary: whoever runs (the kernel context, *)
(* a kernel thread, a ring-3 process) may make any call open to it.        *)
(***************************************************************************)
EXTENDS File

CONSTANTS MAX_PROCESSES,     \* slots of ptable.procs
          Channels,          \* sleep channels other than Process pointers
          ExitStatuses,      \* arguments of exit()
          HasInit,           \* TRUE: the normal build, with an init process;
                             \* FALSE: the ENABLE_TESTS build, threads made at boot
          ForkedMayReturn,   \* may the entry function return in a forked thread?
          Closable,          \* bound: the fds clients pass to close()
          MaxPid             \* bound on next_pid

ASSUME ProcessConstants ==
    /\ MAX_PROCESSES \in Nat \ {0}
    /\ Channels \cap Int = {}
    /\ ExitStatuses \subseteq Nat
    /\ HasInit \in BOOLEAN
    /\ ForkedMayReturn \in BOOLEAN
    /\ Closable \subseteq Fds
    /\ MaxPid \in Nat \ {0}

Slots  == 0 .. MAX_PROCESSES - 1
NoProc == -1                 \* a null Process pointer, and a null channel

States == {"Unused", "Embryo", "Runnable", "Running", "Sleeping", "Zombie"}

VARIABLES
    state,        \* Process::state
    pid,          \* Process::pid
    parent,       \* Process::parent
    channel,      \* Process::sleep_channel
    exit_status,  \* Process::exit_status
    files,        \* Process::files, the fd table
    kind,         \* "entry": kernel thread of create_process(); "forked": of
                  \* fork_kernel(); "user": in ring 3, trap_frame is set
    frame,        \* the local variable proc of the trampoline() frame at the
                  \* base of the slot's kernel stack
    pc,           \* where Process::context resumes: "run" in the client's code,
                  \* "sleep" in sleep(), "wait" in the sleep() of wait(), "scan"
                  \* at the head of wait()'s loop, "dead" after trampoline()'s yield()
    file_table,   \* the table of module File
    next_pid,     \* ptable.next_pid
    current,      \* cpu.current
    loaded,       \* the slot whose pml4 is in CR3 and whose stack is in TSS.rsp0
    init_proc,    \* the process that adopts orphans
    exits,        \* history: <<pid, status>> of every exit()
    reaps         \* history: <<pid, status>> of every successful wait()

procVars == <<state, pid, parent, channel, exit_status, files, kind, frame, pc>>
vars == <<procVars, file_table, next_pid, current, loaded, init_proc, exits, reaps>>

Init ==
    /\ state       = [s \in Slots |-> "Unused"]
    /\ pid         = [s \in Slots |-> 0]
    /\ parent      = [s \in Slots |-> NoProc]
    /\ channel     = [s \in Slots |-> NoProc]
    /\ exit_status = [s \in Slots |-> 0]
    /\ files       = [s \in Slots |-> NoFds]
    /\ kind        = [s \in Slots |-> "entry"]
    /\ frame       = [s \in Slots |-> NoProc]
    /\ pc          = [s \in Slots |-> "run"]
    /\ file_table  = [f \in Files |-> EmptyFile]
    /\ next_pid    = 1
    /\ current     = NoProc
    /\ loaded      = NoProc
    /\ init_proc   = NoProc
    /\ exits       = {}
    /\ reaps       = {}

-----------------------------------------------------------------------------
(* Scheduling *)

\* Mutant of NextRunnable: the index runs off the end instead of wrapping around.
NextRunnableNoWrap(st, prev) ==
    LET runnable == {s \in Slots : st[s] = "Runnable"}
        after    == {s \in runnable : s > prev}
    IN  IF after # {} THEN First(after)
        ELSE IF runnable # {} THEN MAX_PROCESSES
        ELSE NoProc

\* Mutant of NextRunnable: every scan starts at slot 0.
NextRunnableFromZero(st, prev) ==
    LET runnable == {s \in Slots : st[s] = "Runnable"}
    IN  IF runnable # {} THEN First(runnable) ELSE NoProc

\* The round-robin scan: the first Runnable slot after prev, wrapping around to
\* prev itself.  From the kernel context prev is NoProc and the scan starts at 0.
NextRunnable(st, prev) ==
    LET runnable == {s \in Slots : st[s] = "Runnable"}
        after    == {s \in runnable : s > prev}
    IN  IF after # {} THEN First(after)
        ELSE IF runnable # {} THEN First(runnable)
        ELSE NoProc

\* schedule(prev), called with the table in the state st.  When nobody is Runnable
\* the kernel context gets the CPU and CR3 keeps the address space it holds.
schedule(st, prev) ==
    LET next == NextRunnable(st, prev)
    IN  /\ current' = next
        /\ state' = [s \in Slots |-> IF s = next THEN "Running" ELSE st[s]]
        /\ loaded' = IF next \in {NoProc, prev} THEN loaded ELSE next

\* Mutant of schedule_from_zombie: CR3 and TSS.rsp0 are left alone.
schedule_from_zombie_same_space(st, p) ==
    LET next == NextRunnable(st, p)
    IN  /\ current' = next
        /\ state' = [s \in Slots |-> IF s = next THEN "Running" ELSE st[s]]
        /\ UNCHANGED loaded

\* schedule_from_zombie(): the caller's context is discarded.
schedule_from_zombie(st, p) ==
    LET next == NextRunnable(st, p)
    IN  /\ current' = next
        /\ state' = [s \in Slots |-> IF s = next THEN "Running" ELSE st[s]]
        /\ loaded' = IF next = NoProc THEN loaded ELSE next

\* wakeup(c) on the table st: every sleeper on c becomes Runnable.
wakeup(st, c) ==
    [s \in Slots |-> IF st[s] = "Sleeping" /\ channel[s] = c THEN "Runnable" ELSE st[s]]

\* p is executing client code and may make a call.
Acting(p) == current = p /\ pc[p] = "run"

KernelThread(p) == Acting(p) /\ kind[p] # "user"

\* The kernel context (kernel_main's loop, or a test run from it) calls yield().
kernel_yield ==
    /\ current = NoProc
    /\ schedule(state, NoProc)
    /\ UNCHANGED <<pid, parent, channel, exit_status, files, kind, frame, pc,
                   file_table, next_pid, init_proc, exits, reaps>>

\* Mutant of yielding: a Zombie is made Runnable too.
yielding_unchecked(st, p) == [st EXCEPT ![p] = "Runnable"]

\* yield()'s guard: only a Running process becomes Runnable.
yielding(st, p) == IF st[p] = "Running" THEN [st EXCEPT ![p] = "Runnable"] ELSE st

\* yield() of a kernel thread; ring 3 has no such system call.
yield(p) ==
    /\ KernelThread(p)
    /\ schedule(yielding(state, p), p)
    /\ UNCHANGED <<pid, parent, channel, exit_status, files, kind, frame, pc,
                   file_table, next_pid, init_proc, exits, reaps>>

\* sleep(c) of p, up to its call of schedule(); at is where the caller continues.
sleep_on(p, c, at) ==
    /\ channel' = [channel EXCEPT ![p] = c]
    /\ pc' = [pc EXCEPT ![p] = at]
    /\ schedule([state EXCEPT ![p] = "Sleeping"], p)
    /\ UNCHANGED <<pid, parent, exit_status, files, kind, frame,
                   file_table, next_pid, init_proc, exits, reaps>>

sleep(p, c) == KernelThread(p) /\ sleep_on(p, c, "sleep")

\* The end of sleep(), when p has been woken and scheduled again.
sleep_return(p) ==
    /\ current = p
    /\ pc[p] \in {"sleep", "wait"}
    /\ channel' = [channel EXCEPT ![p] = NoProc]
    /\ pc' = [pc EXCEPT ![p] = IF @ = "wait" THEN "scan" ELSE "run"]
    /\ UNCHANGED <<state, pid, parent, exit_status, files, kind, frame,
                   file_table, next_pid, current, loaded, init_proc, exits, reaps>>

\* A kernel thread calls wakeup(c).
call_wakeup(p, c) ==
    /\ KernelThread(p)
    /\ state' = wakeup(state, c)
    /\ UNCHANGED <<pid, parent, channel, exit_status, files, kind, frame, pc,
                   file_table, next_pid, current, loaded, init_proc, exits, reaps>>

-----------------------------------------------------------------------------
(* Creation *)

Unused == {s \in Slots : state[s] = "Unused"}

\* allocate_process() takes the first Unused slot and a pid.  With a full table it
\* returns nullptr and nothing changes.
allocate_process(s) ==
    /\ Unused # {}
    /\ s = First(Unused)
    /\ next_pid <= MaxPid
    /\ next_pid' = next_pid + 1
    /\ pid' = [pid EXCEPT ![s] = next_pid]

\* open_console_files() on the table t: fd 0 reads the console, fd 1 and 2 share one
\* File that writes it.  When one of the two is not to be had the other stays open.
open_console_files(t) ==
    LET in  == file_open_console(t, TRUE, FALSE)
        out == file_open_console(in.table, FALSE, TRUE)
        ok  == in.file # NoFile /\ out.file # NoFile
    IN  [ok    |-> ok,
         table |-> IF ok THEN [out.table EXCEPT ![out.file].refcnt = @ + 1] ELSE out.table,
         fds   |-> [NoFds EXCEPT ![0] = in.file, ![1] = out.file,
                                 ![2] = IF ok THEN out.file ELSE NoFile]]

\* Mutant of free_process_resources: the fds are forgotten, not closed.
free_process_resources_keeps_files(s, t, fds) ==
    /\ file_table' = t
    /\ files' = [files EXCEPT ![s] = NoFds]
    /\ parent' = [parent EXCEPT ![s] = NoProc]
    /\ channel' = [channel EXCEPT ![s] = NoProc]
    /\ exit_status' = [exit_status EXCEPT ![s] = 0]
    /\ state' = [state EXCEPT ![s] = "Unused"]

\* free_process_resources() of the process in slot s, which has the fds fds into the
\* table t.  Its kernel stack and its page tables are those of modules Heap and Vmm.
free_process_resources(s, t, fds) ==
    /\ file_table' = close_all_files(t, fds)
    /\ files' = [files EXCEPT ![s] = NoFds]
    /\ parent' = [parent EXCEPT ![s] = NoProc]
    /\ channel' = [channel EXCEPT ![s] = NoProc]
    /\ exit_status' = [exit_status EXCEPT ![s] = 0]
    /\ state' = [state EXCEPT ![s] = "Unused"]

\* A creation that took slot s fails, with the fds it opened until then in the table t.
\* allocate_process() cleared the trap_frame of the slot; the pid is used up.
creation_fails(s, t, fds) ==
    /\ allocate_process(s)
    /\ free_process_resources(s, t, fds)
    /\ kind' = [kind EXCEPT ![s] = "entry"]
    /\ UNCHANGED <<frame, pc, current, loaded, init_proc, exits, reaps>>

\* create_process(): a kernel thread with the console open.  It has no parent.
create_thread(s) ==
    LET console == open_console_files(file_table)
    IN  /\ allocate_process(s)
        /\ console.ok
        /\ file_table' = console.table
        /\ files' = [files EXCEPT ![s] = console.fds]
        /\ state' = [state EXCEPT ![s] = "Runnable"]
        /\ parent' = [parent EXCEPT ![s] = NoProc]
        /\ channel' = [channel EXCEPT ![s] = NoProc]
        /\ kind' = [kind EXCEPT ![s] = "entry"]
        /\ frame' = [frame EXCEPT ![s] = s]
        /\ pc' = [pc EXCEPT ![s] = "run"]
        /\ UNCHANGED <<exit_status, current, loaded, exits, reaps>>

\* create_process() returns nullptr: no memory for the kernel stack or the PML4, or a
\* File short.
create_thread_fails(s) ==
    LET console == open_console_files(file_table)
    IN  \/ creation_fails(s, file_table, NoFds)
        \/ ~console.ok /\ creation_fails(s, console.table, console.fds)

\* The kernel context creates a thread (the test build).
create_process(s) ==
    /\ ~HasInit
    /\ current = NoProc
    /\ \/ create_thread(s) /\ UNCHANGED init_proc
       \/ create_thread_fails(s)

\* kernel_main calls create_init_process() once, before its loop.
create_init_process(s) ==
    /\ HasInit
    /\ current = NoProc
    /\ next_pid = 1
    /\ \/ create_thread(s) /\ init_proc' = s
       \/ create_thread_fails(s)

\* A kernel thread goes to ring 3 (usermode::enter does not return); from then on
\* handle_syscall() sets its trap_frame at every system call.
enter_usermode(p) ==
    /\ KernelThread(p)
    /\ kind' = [kind EXCEPT ![p] = "user"]
    /\ UNCHANGED <<state, pid, parent, channel, exit_status, files, frame, pc,
                   file_table, next_pid, current, loaded, init_proc, exits, reaps>>

\* The child of fork() shares the Files.  fork_kernel() copies the kernel stack with the
\* trampoline frame in it; fork_user() starts the child at fork_return.
fork_child(p, s) ==
    /\ allocate_process(s)
    /\ state' = [state EXCEPT ![s] = "Runnable"]
    /\ parent' = [parent EXCEPT ![s] = p]
    /\ channel' = [channel EXCEPT ![s] = NoProc]
    /\ files' = [files EXCEPT ![s] = files[p]]
    /\ file_table' = duplicate_all_files(file_table, files[p])
    /\ kind' = [kind EXCEPT ![s] = IF kind[p] = "user" THEN "user" ELSE "forked"]
    /\ frame' = [frame EXCEPT ![s] = IF kind[p] = "user" THEN NoProc ELSE frame[p]]
    /\ pc' = [pc EXCEPT ![s] = "run"]
    /\ UNCHANGED <<exit_status, current, loaded, init_proc, exits, reaps>>

\* fork() returns -1: no memory for the kernel stack or the PML4, or, in fork_user(), for
\* the user pages, when the child already has the parent's Files.
fork_fails(p, s) ==
    \/ creation_fails(s, file_table, NoFds)
    \/ /\ kind[p] = "user"
       /\ creation_fails(s, duplicate_all_files(file_table, files[p]), files[p])

fork(p, s) == Acting(p) /\ (fork_child(p, s) \/ fork_fails(p, s))

-----------------------------------------------------------------------------
(* Termination *)

\* Mutant of wakeup_parent and wakeup_init: nobody is woken.
no_wakeup(st, p) == st

\* exit() wakes the parent, which sleeps on its own Process pointer if it is in wait().
wakeup_parent(st, p) == IF parent[p] # NoProc THEN wakeup(st, parent[p]) ELSE st

\* Mutant of reparent: Zombies are not handed over.
reparent_live(p) == [s \in Slots |-> IF state[s] \notin {"Unused", "Zombie"} /\ parent[s] = p
                                     THEN init_proc ELSE parent[s]]

\* exit()'s reparenting loop hands p's children to init_proc (a null pointer in the
\* test build)...
reparent(p) == [s \in Slots |-> IF state[s] # "Unused" /\ parent[s] = p
                                THEN init_proc ELSE parent[s]]

\* ...and wakes init_proc when it inherits a Zombie.
wakeup_init(st, p) ==
    IF init_proc # NoProc /\ \E s \in Slots : st[s] = "Zombie" /\ parent[s] = p
    THEN wakeup(st, init_proc) ELSE st

\* exit(status): p becomes a Zombie first, then its parent is woken.
exit(p, status) ==
    LET zombie == [state EXCEPT ![p] = "Zombie"]
    IN  /\ Acting(p)
        /\ file_table' = close_all_files(file_table, files[p])
        /\ files' = [files EXCEPT ![p] = NoFds]
        /\ exit_status' = [exit_status EXCEPT ![p] = status]
        /\ parent' = reparent(p)
        /\ exits' = exits \cup {<<pid[p], status>>}
        /\ schedule_from_zombie(wakeup_init(wakeup_parent(zombie, p), p), p)
        /\ UNCHANGED <<pid, channel, kind, frame, pc, next_pid, init_proc, reaps>>

\* The entry function of a kernel thread returns into trampoline(), whose variable
\* proc is frame[p].
trampoline(p) ==
    LET proc   == frame[p]
        zombie == [state EXCEPT ![proc] = "Zombie"]
    IN  /\ KernelThread(p)
        /\ kind[p] = "forked" => ForkedMayReturn
        /\ file_table' = close_all_files(file_table, files[proc])
        /\ files' = [files EXCEPT ![proc] = NoFds]
        /\ pc' = [pc EXCEPT ![p] = "dead"]
        /\ schedule(yielding(zombie, p), p)
        /\ UNCHANGED <<pid, parent, channel, exit_status, kind, frame,
                       next_pid, init_proc, exits, reaps>>

\* Mutant of Children: any other process counts as a child.
ChildrenOfAnyone(p) == {s \in Slots : state[s] # "Unused" /\ s # p}

\* The slots wait() does not skip.
Children(p) == {s \in Slots : state[s] # "Unused" /\ parent[s] = p}
ZombieChildren(p) == {s \in Children(p) : state[s] = "Zombie"}

\* Mutant of wait_reaps: the status is read after the slot was freed.
wait_reaps_freed(p, c) ==
    /\ free_process_resources(c, file_table, files[c])
    /\ reaps' = reaps \cup {<<pid[c], exit_status'[c]>>}
    /\ pc' = [pc EXCEPT ![p] = "run"]
    /\ UNCHANGED <<pid, kind, frame, next_pid, current, loaded, init_proc, exits>>

\* wait() finds a Zombie child: its slot is Unused again.
wait_reaps(p, c) ==
    /\ free_process_resources(c, file_table, files[c])
    /\ reaps' = reaps \cup {<<pid[c], exit_status[c]>>}
    /\ pc' = [pc EXCEPT ![p] = "run"]
    /\ UNCHANGED <<pid, kind, frame, next_pid, current, loaded, init_proc, exits>>

\* One round of wait()'s loop: reap the first Zombie child, return nullopt without
\* children, or sleep on p's own Process pointer.
wait(p) ==
    /\ current = p
    /\ pc[p] \in {"run", "scan"}
    /\ \/ /\ ZombieChildren(p) # {}
          /\ wait_reaps(p, First(ZombieChildren(p)))
       \/ /\ Children(p) = {}
          /\ pc' = [pc EXCEPT ![p] = "run"]
          /\ UNCHANGED <<state, pid, parent, channel, exit_status, files, kind, frame,
                         file_table, next_pid, current, loaded, init_proc, exits, reaps>>
       \/ /\ Children(p) # {}
          /\ ZombieChildren(p) = {}
          /\ sleep_on(p, p, "wait")

\* The system call close(fd); a closed fd is an error and changes nothing.
sys_close(p, fd) ==
    /\ Acting(p)
    /\ files[p][fd] # NoFile
    /\ files' = [files EXCEPT ![p][fd] = NoFile]
    /\ file_table' = file_close(file_table, files[p][fd])
    /\ UNCHANGED <<state, pid, parent, channel, exit_status, kind, frame, pc,
                   next_pid, current, loaded, init_proc, exits, reaps>>

-----------------------------------------------------------------------------

Step(p) ==
    \/ yield(p)
    \/ \E c \in Channels : sleep(p, c)
    \/ \E c \in Channels : call_wakeup(p, c)
    \/ sleep_return(p)
    \/ enter_usermode(p)
    \/ \E s \in Slots : fork(p, s)
    \/ \E status \in ExitStatuses : exit(p, status)
    \/ trampoline(p)
    \/ wait(p)
    \/ \E fd \in Closable : sys_close(p, fd)

Next ==
    \/ kernel_yield
    \/ \E s \in Slots : create_process(s) \/ create_init_process(s)
    \/ \E p \in Slots : Step(p)

Spec == Init /\ [][Next]_vars

\* The CPU does not stop between instructions of the kernel, and clients keep the
\* cooperative contract: a kernel thread calls yield() again and again, a ring-3
\* process (which cannot) finally exits or blocks in wait().
Fairness ==
    /\ WF_vars(kernel_yield)
    /\ \A p \in Slots :
        /\ WF_vars(yield(p))
        /\ WF_vars(sleep_return(p))
        /\ WF_vars(pc[p] = "scan" /\ wait(p))
        /\ WF_vars(kind[p] = "user" /\ \E status \in ExitStatuses : exit(p, status))

FairSpec == Spec /\ Fairness

-----------------------------------------------------------------------------
(* Properties *)

\* The table's fields are what their declarations say: every pointer is null or a slot of
\* the table, so the scan of schedule() never leaves it.
TypeOK ==
    /\ state \in [Slots -> States]
    /\ pid \in [Slots -> Nat]
    /\ parent \in [Slots -> Slots \cup {NoProc}]
    /\ channel \in [Slots -> Slots \cup Channels \cup {NoProc}]
    /\ exit_status \in [Slots -> Nat]
    /\ files \in [Slots -> FdTable]
    /\ kind \in [Slots -> {"entry", "forked", "user"}]
    /\ frame \in [Slots -> Slots \cup {NoProc}]
    /\ pc \in [Slots -> {"run", "sleep", "wait", "scan", "dead"}]
    /\ file_table \in [Files -> FileRecord]
    /\ next_pid \in 1 .. MaxPid + 1
    /\ current \in Slots \cup {NoProc}
    /\ loaded \in Slots \cup {NoProc}
    /\ init_proc \in Slots \cup {NoProc}
    /\ exits \subseteq Nat \X Nat
    /\ reaps \subseteq Nat \X Nat

\* Exactly cpu.current is Running, in its own address space and on its own kernel
\* stack: a switch through any of yield, sleep, exit, trampoline and the kernel
\* context keeps the three in step.
RunsAsItself ==
    /\ \A s \in Slots : state[s] = "Running" <=> s = current
    /\ current # NoProc => loaded = current

\* The address space in CR3 and the stack in TSS.rsp0 are never freed under the CPU:
\* after an exit the kernel context keeps running on the Zombie's page tables, so a
\* Zombie may be reaped only once somebody else's are loaded.
LoadedNotFreed == loaded # NoProc => state[loaded] # "Unused"

\* No lost wakeup between exit() and wait(): a process asleep in wait() has a child
\* and none of its children is a Zombie, orphans inherited by init included.
NoLostWakeup ==
    \A s \in Slots : state[s] = "Sleeping" /\ pc[s] = "wait"
        => Children(s) # {} /\ ZombieChildren(s) = {}

\* Process::parent never dangles: a slot is not freed (and cannot be given to a new
\* process) while a child still points to it, whatever the order of exits and waits.
ParentNotFreed ==
    \A s \in Slots : parent[s] # NoProc
        => state[s] # "Unused" /\ state[parent[s]] # "Unused"

\* Every exit(status) is either still a Zombie holding that status or was returned by
\* one wait() with that pid and status: none is lost, altered or reported twice.
ExitsConserved ==
    LET kept == {<<pid[s], exit_status[s]>> : s \in {z \in Slots :
                    state[z] = "Zombie" /\ <<pid[z], exit_status[z]>> \in exits}}
    IN  /\ exits = reaps \cup kept
        /\ reaps \cap kept = {}

\* File::refcnt is the number of fds, over all processes, that point to the File, and
\* a File nobody points to is an empty slot.
RefcntExact ==
    \A f \in Files :
        /\ file_table[f].refcnt =
             Cardinality({x \in Slots \X Fds : files[x[1]][x[2]] = f})
        /\ file_table[f].refcnt = 0 => file_table[f] = EmptyFile

\* The comment after trampoline()'s yield(): "unreachable ... The process will be in
\* Zombie state, and won't be scheduled again".
TrampolineNeverResumes == \A s \in Slots : current = s => pc[s] # "dead"

\* What keeps the properties above true from step to step.  Only a process without a
\* parent can be a Zombie with children: a thread whose entry function returned (it is
\* not reparented by trampoline()), or init.
ZombieParentsAreRoots ==
    \A s \in Slots : parent[s] # NoProc /\ state[parent[s]] = "Zombie"
        => parent[parent[s]] = NoProc

\* init is never freed and has no parent.
InitIsRoot == init_proc # NoProc => state[init_proc] # "Unused" /\ parent[init_proc] = NoProc

\* A thread of create_process() has no parent and its own trampoline() frame.
EntryThreadsAreRoots ==
    \A s \in Slots : state[s] # "Unused" /\ kind[s] = "entry"
        => parent[s] = NoProc /\ frame[s] = s

\* A Sleeping process will resume in sleep(), one that waits sleeps on itself, and one
\* that left trampoline() is not alive.
SavedContexts ==
    \A s \in Slots :
        /\ state[s] = "Sleeping" => pc[s] \in {"sleep", "wait"}
        /\ state[s] = "Sleeping" /\ pc[s] = "wait" => channel[s] = s
        /\ pc[s] = "dead" => state[s] \in {"Zombie", "Unused"}

\* The inductive invariant of the process table, for clients in which no forked
\* kernel thread returns from its entry function.
ProcInv ==
    /\ RunsAsItself
    /\ LoadedNotFreed
    /\ NoLostWakeup
    /\ ParentNotFreed
    /\ ZombieParentsAreRoots
    /\ InitIsRoot
    /\ EntryThreadsAreRoots
    /\ SavedContexts

\* A pid names one process for ever.
PidsUnique ==
    /\ \A s \in Slots : state[s] # "Unused" => pid[s] < next_pid
    /\ \A s, t \in Slots : state[s] # "Unused" /\ state[t] # "Unused" /\ s # t
        => pid[s] # pid[t]

\* What the history of exits says about the processes still in the table.
ExitInv ==
    /\ PidsUnique
    /\ \A e \in exits : e[1] < next_pid
    /\ \A e \in exits, s \in Slots : state[s] # "Unused" /\ pid[s] = e[1]
        => state[s] = "Zombie" /\ exit_status[s] = e[2] /\ e \notin reaps
    /\ \A s \in Slots : state[s] = "Zombie" /\ parent[s] # NoProc
        => <<pid[s], exit_status[s]>> \in exits
    /\ ExitsConserved

\* A Zombie keeps its slot, pid and status until its own parent collects it in wait().
ZombieWaitsForParent ==
    [][\A s \in Slots : state[s] = "Zombie" /\ state'[s] # "Zombie"
        => /\ state'[s] = "Unused"
           /\ current = parent[s]
           /\ pc'[current] = "run"]_vars

\* Round robin starves nobody: if every process keeps the cooperative contract, a
\* Runnable process gets the CPU.
NoStarvation == \A s \in Slots : state[s] = "Runnable" ~> state[s] # "Runnable"

\* A wait() whose caller has a Zombie child returns.
WaitReturns ==
    \A s \in Slots : (pc[s] \in {"wait", "scan"} /\ ZombieChildren(s) # {}) ~> pc[s] = "run"
=============================================================================
