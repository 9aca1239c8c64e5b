------------------------------- MODULE MCVmm -------------------------------
(***************************************************************************)
(* Instances of Vmm: a kernel of six pages and some memory behind it.      *)
(***************************************************************************)
EXTENDS Vmm

MCBoots == {[map |-> <<[base |-> 0, length |-> 8 * n, available |-> TRUE]>>,
             kernel_end |-> 48, info_start |-> 0, info_end |-> 0] : n \in {13, 14, 15, 17, 20}}

\* Below the PD of the stack, in a PT of its own.
MCMappable == {<<0, 0, 1, 0>>}
=============================================================================
