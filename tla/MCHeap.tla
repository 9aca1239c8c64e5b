------------------------------- MODULE MCHeap -------------------------------
(***************************************************************************)
(* Instances of Heap: boot loader reports of a machine with pages of 8     *)
(* bytes.                                                                  *)
(***************************************************************************)
EXTENDS Heap

Region(base, length, available) == [base |-> base, length |-> length, available |-> available]

\* Memory from 0, the multiboot2 information behind the kernel and across a page boundary.
FromZero == [map |-> <<Region(0, 88, TRUE)>>,
             kernel_end |-> 20, info_start |-> 30, info_end |-> 33]

\* Regions that do not begin or end on a page, with a hole and an end beyond pages_.
WithHole == [map |-> <<Region(4, 33, TRUE), Region(37, 3, FALSE), Region(44, 46, TRUE),
                       Region(90, 30, FALSE)>>,
             kernel_end |-> 20, info_start |-> 0, info_end |-> 0]

\* One page for everything: the constructor of the heap fails.
Tiny == [map |-> <<Region(0, 32, TRUE)>>, kernel_end |-> 24, info_start |-> 0, info_end |-> 0]

MCBoots == {FromZero, WithHole, Tiny}
=============================================================================
