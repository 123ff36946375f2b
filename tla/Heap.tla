-------------------------------- MODULE Heap --------------------------------
(***************************************************************************)
(* The heap of main.rs (external: linked_list_allocator, first fit) and    *)
(* what the boot asks of it.  Addresses and sizes are in units of 8 bytes. *)
(* A hole is a free interval.  The part of a hole in front of an aligned   *)
(* allocation stays a hole; no piece smaller than MIN_HOLE is left over.   *)
(***************************************************************************)
EXTENDS Integers, Sequences, FiniteSets, FiniteSetsExt

PAGE_UNITS == 512
MIN_HOLE == 2

Hole(at, len) == [at |-> at, len |-> len]
AlignUp(n, align) == ((n + align - 1) \div align) * align

\* Where an allocation would start in a hole, and whether it fits there.
StartIn(h, align) == IF h.at % align = 0 THEN h.at ELSE AlignUp(h.at + MIN_HOLE, align)
Fits(h, size, align) ==
    LET end == StartIn(h, align) + size IN
    end = h.at + h.len \/ end + MIN_HOLE <= h.at + h.len

Candidates(holes, size, align) == {h \in holes : Fits(h, size, align)}
FirstFit(holes, size, align) ==
    CHOOSE h \in Candidates(holes, size, align) :
        \A g \in Candidates(holes, size, align) : h.at <= g.at

\* The address and the holes after it.
allocate(holes, size, align) ==
    LET h == FirstFit(holes, size, align)
        at == StartIn(h, align)
        rest == {Hole(h.at, at - h.at), Hole(at + size, h.at + h.len - at - size)}
    IN [at |-> at, holes |-> (holes \ {h}) \cup {r \in rest : r.len > 0}]

\* Freed memory joins the holes next to it.
deallocate(holes, at, size) ==
    LET near == {h \in holes : h.at + h.len = at \/ h.at = at + size}
        from == Min({at} \cup {h.at : h \in near})
        to == Max({at + size} \cup {h.at + h.len : h \in near})
    IN (holes \ near) \cup {Hole(from, to - from)}
=============================================================================
