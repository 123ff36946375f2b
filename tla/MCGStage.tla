------------------------------ MODULE MCGStage ------------------------------
(* GStage scaled down: pages of 2 units, tables of 4 entries (a 2 MiB block *)
(* is 8 units, a 1 GiB block 32), 64 guest pages.  The layout is that of    *)
(* the virt machine of guest_image/host.dts.                                *)
EXTENDS GStage

Region(s, l) == [start |-> s, len |-> l]

\* The device regions with the initrd (the guest image) at start, of len.
Tree(start, len) ==
    [virtio |-> <<Region(2, 2), Region(4, 2)>>,
     uart |-> Region(0, 1),
     initrd |-> Region(start, len),
     plic |-> Region(8, 10),
     clint |-> Region(18, 3),
     pci |-> Region(24, 8),
     rtc |-> Region(6, 2),
     ranges |-> <<[kind |-> "io", start |-> 22, len |-> 2],
                  [kind |-> "mem", start |-> 32, len |-> 32]>>]

\* QEMU with 2 GiB puts the image behind the guest's memory
\* (.cargo/config.toml, initrd.rs:24): page-sized and block-sized images,
\* some of them not aligned for the page size their length selects.
MCHostTrees == {Tree(s, l) : s \in {80, 82, 88}, l \in {1, 2, 5, 8, 9, 13}}

\* The image of guest_image/host.dts (feature embedded_host_dtb):
\* 0x8800_0000..0x9812_b230, with the guest's memory at 0x9000_0000.
EmbeddedTree == {Tree(72, 18)}

Seg(p, o, f, a, pm) == [paddr |-> p, offset |-> o, filesz |-> f, align |-> a, perm |-> pm]

\* Images whose segments ascend and share no page of their file contents;
\* rounding to p_align may run into the next segment.
MCElfs ==
    {<<Seg(0, 2, 3, 2, "rx")>>,
     <<Seg(0, 2, 3, 4, "rx"), Seg(4, 6, 2, 2, "r"), Seg(8, 8, 0, 2, "rw")>>,
     <<Seg(0, 2, 2, 4, "rx"), Seg(2, 4, 4, 4, "rw")>>,
     <<Seg(0, 2, 2, 8, "rwx"), Seg(4, 4, 3, 2, "r")>>,
     <<Seg(2, 2, 2, 2, "rx"), Seg(6, 4, 2, 2, "rw")>>,
     <<Seg(0, 2, 2, 1, "rx")>>,
     <<Seg(1, 2, 2, 2, "rx")>>,
     <<Seg(0, 2, 2, 2, "w")>>}

\* A gap between two segments.
GapElf == {<<Seg(0, 2, 2, 2, "rx"), Seg(8, 4, 5, 2, "rw")>>}

\* A heap that suffices, and two that run out while loading and filling.
MCHeaps == {100..130, 100..108, 100..103}
LargeHeap == {100..130}
FarTree == {Tree(96, 9)}
=============================================================================
