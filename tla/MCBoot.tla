------------------------------- MODULE MCBoot -------------------------------
(* Machines with up to 23 virtio nodes and 7 PCI ranges; tables of 2 pages. *)
EXTENDS Boot

Qemu == [dtb |-> 2, virtio |-> 8, ranges |-> <<"low", "high">>, heap |-> 40 * PAGE_UNITS,
         iommu |-> "ok", rereads |-> TRUE, expired |-> FALSE]

\* Heaps: enough, and one that ends in the middle of the guest's memory, of the
\* IOMMU's pages, at its last page.
MCConfigs ==
    {[Qemu EXCEPT !.virtio = n, !.dtb = d, !.ranges = r] :
        n \in {0, 1, 4, 5, 8, 16, 22, 23}, d \in {1, 2}, r \in {<<>>, <<"low">>, <<"low", "high", "high">>}}
    \cup {[Qemu EXCEPT !.virtio = n, !.ranges = <<"low">> \o [i \in 1..k |-> "high"]] :
             n \in {0, 4, 12, 22}, k \in {5, 6}}
    \cup {[Qemu EXCEPT !.heap = h] : h \in {9 * PAGE_UNITS + 7, 17 * PAGE_UNITS, 19 * PAGE_UNITS}}
    \cup {[Qemu EXCEPT !.iommu = i, !.ranges = r] :
             i \in {"none", "old", "ok"}, r \in {<<>>, <<"high">>, <<"low">>}}
    \cup {[Qemu EXCEPT !.rereads = FALSE], [Qemu EXCEPT !.expired = TRUE],
          [Qemu EXCEPT !.expired = TRUE, !.iommu = "none"]}
=============================================================================
