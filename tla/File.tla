-------------------------------- MODULE File --------------------------------
(***************************************************************************)
(* The system-wide table of open files (include/file.cpp) as operators on  *)
(* the value of file_table.  The process table (module Process) owns the   *)
(* fd tables that point into it: Process::files[fd] -> File.               *)
(*                                                                         *)
(* No system call opens an inode, so every File a process can reach is a   *)
(* console File; inode and offset belong to the file-system modules.       *)
(***************************************************************************)
EXTENDS Integers, FiniteSets

CONSTANTS NUM_FILES,      \* slots of file_table
          NUM_OPEN_FILES  \* fds of one process

\* open_console_files() writes fd 0, 1 and 2.
ASSUME FileConstants ==
    /\ NUM_FILES \in Nat \ {0}
    /\ NUM_OPEN_FILES \in Nat
    /\ NUM_OPEN_FILES >= 3

Files  == 0 .. NUM_FILES - 1
Fds    == 0 .. NUM_OPEN_FILES - 1
NoFile == -1              \* nullptr in an fd table

\* struct File.
FileRecord == [refcnt : Nat, type : {"kNone", "kConsole"},
               readable : BOOLEAN, writable : BOOLEAN]

\* What file_close() leaves behind when the last reference is gone.
EmptyFile == [refcnt |-> 0, type |-> "kNone", readable |-> FALSE, writable |-> FALSE]

NoFds   == [fd \in Fds |-> NoFile]
FdTable == [Fds -> Files \cup {NoFile}]

\* The lowest element, the one a scan of an array in index order meets first.
First(S) == CHOOSE i \in S : \A j \in S : i <= j

FreeFiles(t) == {f \in Files : t[f].refcnt = 0}

\* How many fds of one process point to f.
Uses(fds, f) == Cardinality({fd \in Fds : fds[fd] = f})

\* file_open_console(): the File it returns, the first free one of t, and the table it
\* leaves.  With no File free file_allocate() and the caller get nullptr.
file_open_console(t, readable, writable) ==
    LET f == First(FreeFiles(t))
    IN  IF FreeFiles(t) = {} THEN [file |-> NoFile, table |-> t]
        ELSE [file |-> f,
              table |-> [t EXCEPT ![f] = [refcnt |-> 1, type |-> "kConsole",
                                          readable |-> readable, writable |-> writable]]]

\* n calls of file_close() on the File f.
Drop(file, n) ==
    IF n = 0 \/ file.refcnt = 0 THEN file
    ELSE IF file.refcnt > n THEN [file EXCEPT !.refcnt = @ - n]
    ELSE EmptyFile

file_close(t, f) == [t EXCEPT ![f] = Drop(@, 1)]

\* file_close() on every entry of one fd table (process.cpp empties the table itself).
close_all_files(t, fds) == [f \in Files |-> Drop(t[f], Uses(fds, f))]

\* file_duplicate() on every entry of one fd table, as fork() does.
duplicate_all_files(t, fds) ==
    [f \in Files |-> [t[f] EXCEPT !.refcnt = @ + Uses(fds, f)]]
=============================================================================
