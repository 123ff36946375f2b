----------------------------- MODULE PageTable -----------------------------
(***************************************************************************)
(* Page table entries (memmap/page_table.rs), used by both stages: the     *)
(* G-stage table hikami builds (GStage) and the guest's own table it walks *)
(* when it emulates a shadow stack (Zicfiss).                              *)
(***************************************************************************)

Flags == {"V", "R", "W", "X", "U"}
Null == [ppn |-> 0, flags |-> {}]
PageTableEntry(ppn, flags) == [ppn |-> ppn, flags |-> flags]

\* Mutant: a leaf is an executable page.
is_leaf_exec(e) == "X" \in e.flags

\* Mutant: the test of the privileged specification without shadow stacks.
is_leaf_rx(e) == "R" \in e.flags \/ "X" \in e.flags

\* W alone is a leaf too: the encoding of a shadow stack page.
is_leaf(e) ==
    \/ "R" \in e.flags
    \/ "X" \in e.flags
    \/ e.flags \cap {"R", "W", "X"} = {"W"}
already_created(e) == "V" \in e.flags
=============================================================================
