------------------------------- MODULE GStage -------------------------------
(***************************************************************************)
(* Building the guest's second-stage page table (Sv39x4) at boot:          *)
(* vsmode_setup (hypervisor_init.rs) creates the Guest, which maps its     *)
(* device tree, loads the guest ELF, fills the rest of the guest's memory  *)
(* and maps the devices one to one, each through generate_page_table       *)
(* (memmap/page_table/sv39x4.rs).                                          *)
(*                                                                         *)
(* One action is one turn of a mapping loop.  Host memory appears twice:   *)
(* pt is the memory used as page tables, data the memory handed to the     *)
(* guest.  Addresses are in units of PAGE_SIZE / 2 or finer, so regions    *)
(* that end inside a page are not rounded away.                            *)
(***************************************************************************)
EXTENDS Integers, Sequences, FiniteSets, FiniteSetsExt, PageTable

CONSTANTS
    PAGE_SIZE,                \* 4096
    PAGE_TABLE_LEN,           \* 512
    FIRST_LV_PAGE_TABLE_LEN,  \* 2048
    DRAM_BASE,                \* guest_memory::DRAM_BASE
    DRAM_SIZE_PER_GUEST,
    GUEST_DTB_SIZE_PER_HART,
    CONTEXT_BASE,             \* of the PLIC: how much of it is passed through
    HartId,
    GuestDtbLen,              \* bytes of guest.dtb
    ROOT,                     \* host page of ROOT_PAGE_TABLE
    Heaps,                    \* sets of host pages the heap may consist of
    HostTrees,                \* host device trees: the device regions
    Elfs                      \* guest images: sequences of PT_LOAD segments

ASSUME SizeAssumption ==
    /\ {PAGE_SIZE, PAGE_TABLE_LEN, FIRST_LV_PAGE_TABLE_LEN} \subseteq Nat \ {0}
    /\ PAGE_TABLE_LEN > 1
    /\ {DRAM_BASE, DRAM_SIZE_PER_GUEST, GUEST_DTB_SIZE_PER_HART} \subseteq Nat
    /\ {HartId, GuestDtbLen, CONTEXT_BASE} \subseteq Nat
    \* The dtb areas of all harts fit below the first guest's memory.
    /\ (HartId + 1) * GUEST_DTB_SIZE_PER_HART <= DRAM_SIZE_PER_GUEST
    /\ GuestDtbLen < GUEST_DTB_SIZE_PER_HART
    /\ DRAM_BASE % PAGE_SIZE = 0 /\ DRAM_SIZE_PER_GUEST % PAGE_SIZE = 0
    /\ GUEST_DTB_SIZE_PER_HART % PAGE_SIZE = 0
ASSUME HeapAssumption == ROOT \in Nat /\ \A h \in Heaps : h \subseteq Nat \ {0} /\ ROOT \notin h

VARIABLES
    step,     \* what vsmode_setup is doing, or how it stopped
    idx, off, \* loop counters: segment or device, and offset within it
    elf_end,  \* end of the loaded image
    heap,     \* host pages not allocated yet
    pt,       \* page tables: host page -> index -> entry
    data,     \* what the host pages given to the guest hold
    elf, tree \* the inputs of this boot

vars == <<step, idx, off, elf_end, heap, pt, data, elf, tree>>
inputs == <<elf, tree>>

----------------------------------------------------------------------------
(* Addresses and memory maps: page_table.rs, memmap.rs                     *)

\* Pages that an entry of a level covers: 0 for 4 KiB, 1 for 2 MiB, 2 for 1 GiB.
Span(level) ==
    CASE level = 0 -> 1
      [] level = 1 -> PAGE_TABLE_LEN
      [] level = 2 -> PAGE_TABLE_LEN * PAGE_TABLE_LEN
size(level) == PAGE_SIZE * Span(level)
vpn(page, level) ==
    IF level = 2 THEN (page \div Span(2)) % FIRST_LV_PAGE_TABLE_LEN
    ELSE (page \div Span(level)) % PAGE_TABLE_LEN

\* A guest page that Sv39x4 can express.
GuestPages == 0..(FIRST_LV_PAGE_TABLE_LEN * Span(2) - 1)

\* MemoryMap: a guest range, where it lies in the host, and its permissions.
MemoryMap(start, len, phys, flags) ==
    [start |-> start, len |-> len, phys |-> phys, flags |-> flags]

RoundUp(n, by) == ((n + by - 1) \div by) * by

\* The loops run over 0, step, 2 * step, ... below the length.
Turns(len, by) == {o \in 0..(len - 1) : o % by = 0}

----------------------------------------------------------------------------
(* The heap (external): the lowest free page.  PageBlock asks for a whole  *)
(* page; a table is a Box of entries that asks for 8-byte alignment only,  *)
(* and is taken to be a whole page too (page_number would truncate its     *)
(* address otherwise).                                                     *)

alloc(free) == Min(free)
EmptyTable == [i \in 0..(PAGE_TABLE_LEN - 1) |-> Null]

\* A page table update in progress: what it has made of pt and heap.
Working(p, h) == [pt |-> p, heap |-> h, end |-> "ok", table |-> ROOT]
WithTable(p, t, c) == [x \in DOMAIN p \cup {t} |-> IF x = t THEN c ELSE p[x]]

----------------------------------------------------------------------------
(* generate_page_table                                                     *)

\* "decide page level from memory range"
trans_page_level(len) ==
    IF len < size(1) THEN 0 ELSE IF len < size(2) THEN 1 ELSE 2

Aligned(mm) ==
    /\ mm.start % size(trans_page_level(mm.len)) = 0
    /\ mm.phys % size(trans_page_level(mm.len)) = 0

\* Mutant: the new table is not taken from the heap.
next_table_untaken(w, i) ==
    LET e == w.pt[w.table][i]
        n == alloc(w.heap)
    IN IF w.end # "ok" THEN w
       ELSE IF already_created(e) THEN [w EXCEPT !.table = e.ppn]
       ELSE [w EXCEPT !.pt = [WithTable(w.pt, n, EmptyTable) EXCEPT
                                 ![w.table][i] = PageTableEntry(n, {"V"})],
                      !.table = n]

\* "Create next level page table", or follow the entry that is there.  Only
\* its V bit is looked at: below a leaf the walk would go on in the page the
\* leaf maps ("scribble").
next_table(w, i) ==
    LET e == w.pt[w.table][i] IN
    IF w.end # "ok" THEN w
    ELSE IF already_created(e)
    THEN IF e.ppn \in DOMAIN w.pt THEN [w EXCEPT !.table = e.ppn]
         ELSE [w EXCEPT !.end = "scribble"]
    ELSE IF w.heap = {} THEN [w EXCEPT !.end = "panic"]
    ELSE LET n == alloc(w.heap) IN
         [pt |-> [WithTable(w.pt, n, EmptyTable) EXCEPT
                     ![w.table][i] = PageTableEntry(n, {"V"})],
          heap |-> w.heap \ {n}, end |-> "ok", table |-> n]

\* "End of translation"
set_entry(w, i, e) ==
    IF w.end = "ok" THEN [w EXCEPT !.pt[w.table][i] = e] ELSE w

\* Mutant: the entry holds the address where the page number belongs.
map_block_address(p, h, mm, o) ==
    LET page == (mm.start + o) \div PAGE_SIZE
        w1 == next_table(Working(p, h), vpn(page, 2))
        w0 == next_table(w1, vpn(page, 1))
    IN set_entry(w0, vpn(page, 0), PageTableEntry(mm.phys + o, mm.flags))

\* Mutant: every block is mapped to the start of the region.
map_block_no_offset(p, h, mm, o) ==
    LET level == trans_page_level(mm.len)
        page == (mm.start + o) \div PAGE_SIZE
        e == PageTableEntry(mm.phys \div PAGE_SIZE, mm.flags)
        w2 == Working(p, h)
        w1 == next_table(w2, vpn(page, 2))
        w0 == next_table(w1, vpn(page, 1))
    IN CASE level = 2 -> set_entry(w2, vpn(page, 2), e)
         [] level = 1 -> set_entry(w1, vpn(page, 1), e)
         [] level = 0 -> set_entry(w0, vpn(page, 0), e)

\* One turn of the inner loop for the memory map mm at offset o.
map_block(p, h, mm, o) ==
    LET level == trans_page_level(mm.len)
        page == (mm.start + o) \div PAGE_SIZE
        e == PageTableEntry((mm.phys + o) \div PAGE_SIZE, mm.flags)
        w2 == Working(p, h)
        w1 == next_table(w2, vpn(page, 2))
        w0 == next_table(w1, vpn(page, 1))
    IN CASE level = 2 -> set_entry(w2, vpn(page, 2), e)
         [] level = 1 -> set_entry(w1, vpn(page, 1), e)
         [] level = 0 -> set_entry(w0, vpn(page, 0), e)

generate_page_table(p, h, mm, o) ==
    IF Aligned(mm) THEN map_block(p, h, mm, o) ELSE [Working(p, h) EXCEPT !.end = "panic"]

----------------------------------------------------------------------------
(* Translation.  A result is a host page or one of these.                  *)

Fault == -1       \* the hardware raises a guest-page fault
Stop == -2        \* an assert! or unreachable! of trans_addr
Wild == -3        \* trans_addr reads entries from memory that is no table

At(p, t, i) == IF t \in DOMAIN p THEN p[t][i] ELSE Null

\* sv39x4::trans_addr: V is never looked at, a missing entry leads to host
\* page 0.
trans_addr(p, page) ==
    LET e2 == At(p, ROOT, vpn(page, 2))
        e1 == At(p, e2.ppn, vpn(page, 1))
        e0 == At(p, e1.ppn, vpn(page, 0))
        inSpan(e, level) ==
            IF e.ppn % Span(level) = 0 THEN e.ppn + (page % Span(level)) ELSE Stop
    IN IF is_leaf(e2) THEN inSpan(e2, 2)
       ELSE IF e2.ppn \notin DOMAIN p THEN Wild
       ELSE IF is_leaf(e1) THEN inSpan(e1, 1)
       ELSE IF e1.ppn \notin DOMAIN p THEN Wild
       ELSE IF is_leaf(e0) THEN e0.ppn
       ELSE Stop

\* The hart's own walk (external): entries must be valid, leaves for the
\* guest, and superpages aligned.
hw_walk(p, page) ==
    LET e2 == At(p, ROOT, vpn(page, 2))
        e1 == At(p, e2.ppn, vpn(page, 1))
        e0 == At(p, e1.ppn, vpn(page, 0))
        leaf(e) == e.flags \cap {"R", "X"} # {}
        inSpan(e, level) ==
            IF "U" \in e.flags /\ e.ppn % Span(level) = 0
            THEN e.ppn + (page % Span(level)) ELSE Fault
    IN IF "V" \notin e2.flags THEN Fault
       ELSE IF leaf(e2) THEN inSpan(e2, 2)
       ELSE IF "V" \notin e1.flags THEN Fault
       ELSE IF leaf(e1) THEN inSpan(e1, 1)
       ELSE IF "V" \notin e0.flags \/ ~leaf(e0) THEN Fault
       ELSE inSpan(e0, 0)

----------------------------------------------------------------------------
(* vsmode_setup and Guest                                                  *)

guest_id == HartId + 1
guest_memory_begin == DRAM_BASE + guest_id * DRAM_SIZE_PER_GUEST
guest_memory_end == guest_memory_begin + DRAM_SIZE_PER_GUEST
guest_dtb_gpa == DRAM_BASE + HartId * GUEST_DTB_SIZE_PER_HART
aligned_dtb_size == RoundUp(GuestDtbLen, PAGE_SIZE)

\* Guest::new has zero-filled the root table.
Init ==
    /\ step = "dtb" /\ idx = 1 /\ off = 0 /\ elf_end = 0
    /\ heap \in Heaps
    /\ pt = [t \in {ROOT} |-> [i \in 0..(FIRST_LV_PAGE_TABLE_LEN - 1) |-> Null]]
    /\ data = [p \in {} |-> <<"any", 0>>]
    /\ elf \in Elfs
    /\ tree \in HostTrees

\* Mutant: the block is free again before its mapping is made.
map_new_page_freed(gpa, content, flags) ==
    /\ heap # {}
    /\ LET b == alloc(heap)
           w == generate_page_table(pt, heap,
                    MemoryMap(gpa, PAGE_SIZE, b * PAGE_SIZE, flags), 0)
       IN /\ pt' = w.pt /\ heap' = w.heap
          /\ data' = WithTable(data, b, content)
    /\ UNCHANGED step

\* Mutant: the block is dropped at the end of the loop body.
map_new_page_dropped(gpa, content, flags) ==
    /\ heap # {}
    /\ LET b == alloc(heap)
           w == generate_page_table(pt, heap \ {b},
                    MemoryMap(gpa, PAGE_SIZE, b * PAGE_SIZE, flags), 0)
       IN /\ pt' = w.pt /\ heap' = w.heap \cup {b}
          /\ data' = WithTable(data, b, content)
    /\ UNCHANGED step

\* PageBlock::alloc, a copy of content into the block, and its mapping.  The
\* block is not cleared: <<"any", 0>> is memory as the heap left it.
map_new_page(gpa, content, flags) ==
    IF heap = {} THEN step' = "panic" /\ UNCHANGED <<heap, pt, data>>
    ELSE LET b == alloc(heap)
             mm == MemoryMap(gpa, PAGE_SIZE, b * PAGE_SIZE, flags)
             w == generate_page_table(pt, heap \ {b}, mm, 0)
         IN /\ pt' = w.pt /\ heap' = w.heap
            /\ data' = WithTable(data, b, content)
            /\ step' = IF w.end = "ok" THEN step ELSE w.end

\* Guest::map_guest_dtb
map_guest_dtb ==
    /\ step = "dtb" /\ off < aligned_dtb_size
    /\ map_new_page(guest_dtb_gpa + off, <<"dtb", off>>, {"W", "R", "U", "V"})
    /\ off' = off + PAGE_SIZE
    /\ UNCHANGED <<idx, elf_end, inputs>>

\* Guest::new returns, the image is parsed.
guest_created ==
    /\ step = "dtb" /\ off >= aligned_dtb_size
    /\ step' = "elf" /\ off' = 0
    /\ UNCHANGED <<idx, elf_end, heap, pt, data, inputs>>

\* The permissions of a segment: executable code may be patched, and data
\* may be executed.
SegmentFlags(perm) ==
    IF perm = "r" THEN {"R", "U", "V"} ELSE {"R", "W", "X", "U", "V"}

Segment == elf[idx]

\* Images have something to load, and fit the guest's memory.
ASSUME ElfAssumption ==
    /\ guest_memory_end <= FIRST_LV_PAGE_TABLE_LEN * size(2)
    /\ \A e \in Elfs :
          /\ e \in Seq([paddr : Nat, offset : Nat, filesz : Nat, align : Nat, perm : STRING])
          /\ \E i \in 1..Len(e) : e[i].filesz > 0
          /\ \A i \in 1..Len(e) : e[i].align >= PAGE_SIZE
                => e[i].paddr + RoundUp(e[i].filesz, e[i].align) <= DRAM_SIZE_PER_GUEST

\* Mutant: the end of the image is the start of its last page.
load_guest_elf_short ==
    /\ step = "elf" /\ idx <= Len(elf)
    /\ Segment.filesz > 0
    /\ Segment.align >= PAGE_SIZE
    /\ Segment.perm \in {"r", "rx", "rw", "rwx"}
    /\ off < RoundUp(Segment.filesz, Segment.align)
    /\ LET gpa == guest_memory_begin + Segment.paddr + off IN
       /\ elf_end' = Max({elf_end, gpa})
       /\ map_new_page(gpa, <<"elf", Segment.offset + off>>, SegmentFlags(Segment.perm))
    /\ off' = off + PAGE_SIZE
    /\ UNCHANGED <<idx, inputs>>

\* load_guest_elf: the next page of a segment
load_guest_elf ==
    /\ step = "elf" /\ idx <= Len(elf)
    /\ Segment.filesz > 0
    /\ Segment.align >= PAGE_SIZE
    /\ Segment.perm \in {"r", "rx", "rw", "rwx"}
    /\ off < RoundUp(Segment.filesz, Segment.align)
    /\ LET gpa == guest_memory_begin + Segment.paddr + off IN
       /\ elf_end' = Max({elf_end, gpa + PAGE_SIZE})
       /\ map_new_page(gpa, <<"elf", Segment.offset + off>>, SegmentFlags(Segment.perm))
    /\ off' = off + PAGE_SIZE
    /\ UNCHANGED <<idx, inputs>>

\* ... the asserted alignment, or an unsupported permission, once a page of
\* such a segment is to be loaded
load_guest_elf_panic ==
    /\ step = "elf" /\ idx <= Len(elf)
    /\ Segment.filesz > 0
    /\ Segment.align < PAGE_SIZE \/ Segment.perm \notin {"r", "rx", "rw", "rwx"}
    /\ step' = "panic"
    /\ UNCHANGED <<idx, off, elf_end, heap, pt, data, inputs>>

\* ... the next segment (one with an empty file image is skipped)
next_segment ==
    /\ step = "elf" /\ idx <= Len(elf)
    /\ \/ Segment.filesz = 0
       \/ Segment.align >= PAGE_SIZE /\ off >= RoundUp(Segment.filesz, Segment.align)
    /\ idx' = idx + 1 /\ off' = 0
    /\ UNCHANGED <<step, elf_end, heap, pt, data, inputs>>

elf_loaded ==
    /\ step = "elf" /\ idx > Len(elf)
    /\ step' = "fill" /\ idx' = 1 /\ off' = elf_end
    /\ UNCHANGED <<elf_end, heap, pt, data, inputs>>

\* filling_memory_region(elf_end..guest_memory_end)
filling_memory_region ==
    /\ step = "fill" /\ off < guest_memory_end
    /\ map_new_page(off, <<"any", 0>>, {"X", "W", "R", "U", "V"})
    /\ off' = off + PAGE_SIZE
    /\ UNCHANGED <<idx, elf_end, inputs>>

memory_filled ==
    /\ step = "fill" /\ off >= guest_memory_end
    /\ step' = "devices" /\ off' = 0
    /\ UNCHANGED <<idx, elf_end, heap, pt, data, inputs>>

PTE_FLAGS_FOR_DEVICE == {"W", "R", "U", "V"}

\* Pci::new keeps the memory ranges and ignores the I/O space.
pci_memory_maps(t) == SelectSeq(t.ranges, LAMBDA r : r.kind = "mem")

\* Mutant: all of the PLIC is passed through.
plic_memmap_whole(t) == t.plic

\* The PLIC is passed through below its context registers.
plic_memmap(t) == [start |-> t.plic.start, len |-> CONTEXT_BASE]

\* Devices::create_device_map
create_device_map(t) ==
    t.virtio \o <<t.uart, t.initrd, plic_memmap(t), t.clint, t.pci, t.rtc>>
             \o pci_memory_maps(t)

Device == create_device_map(tree)[idx]

\* The whole blocks a device is mapped with, and the host pages of a range.
Blocks(r) == [start |-> r.start, len |-> RoundUp(r.len, size(trans_page_level(r.len)))]
HostPages(r) == {a \div PAGE_SIZE : a \in r.start..(r.start + r.len - 1)}

\* Devices lie in the space that Sv39x4 can express, and apart from the memory
\* that memory.x gives to the hypervisor.
ASSUME DeviceAssumption ==
    \A t \in HostTrees :
        LET ds == create_device_map(t) IN
        /\ Len(ds) \in Nat
        /\ \A i \in 1..Len(ds) :
              /\ ds[i].start \in Nat /\ ds[i].len \in Nat
              /\ HostPages(Blocks(ds[i])) \subseteq GuestPages
              /\ \A h \in Heaps : HostPages(Blocks(ds[i])) \cap (h \cup {ROOT}) = {}

\* Mutant: the loop includes its end.
device_mapping_g_stage_inclusive ==
    /\ step = "devices" /\ idx <= Len(create_device_map(tree))
    /\ off <= Device.len
    /\ LET mm == MemoryMap(Device.start, Device.len, Device.start, PTE_FLAGS_FOR_DEVICE)
           w == generate_page_table(pt, heap, mm, off)
       IN /\ pt' = w.pt /\ heap' = w.heap
          /\ step' = IF w.end = "ok" THEN step ELSE w.end
    /\ off' = off + size(trans_page_level(Device.len))
    /\ UNCHANGED <<idx, elf_end, data, inputs>>

\* device_mapping_g_stage: the next block of a device, one to one
device_mapping_g_stage ==
    /\ step = "devices" /\ idx <= Len(create_device_map(tree))
    /\ off < Device.len
    /\ LET mm == MemoryMap(Device.start, Device.len, Device.start, PTE_FLAGS_FOR_DEVICE)
           w == generate_page_table(pt, heap, mm, off)
       IN /\ pt' = w.pt /\ heap' = w.heap
          /\ step' = IF w.end = "ok" THEN step ELSE w.end
    /\ off' = off + size(trans_page_level(Device.len))
    /\ UNCHANGED <<idx, elf_end, data, inputs>>

next_device ==
    /\ step = "devices" /\ idx <= Len(create_device_map(tree))
    /\ off >= Device.len
    /\ idx' = idx + 1 /\ off' = 0
    /\ UNCHANGED <<step, elf_end, heap, pt, data, inputs>>

\* hgatp is set: the guest may run on this table.
devices_mapped ==
    /\ step = "devices" /\ idx > Len(create_device_map(tree))
    /\ step' = "guest"
    /\ UNCHANGED <<idx, off, elf_end, heap, pt, data, inputs>>

Next ==
    \/ map_guest_dtb \/ guest_created
    \/ load_guest_elf \/ load_guest_elf_panic \/ next_segment \/ elf_loaded
    \/ filling_memory_region \/ memory_filled
    \/ device_mapping_g_stage \/ next_device \/ devices_mapped

Spec == Init /\ [][Next]_vars

----------------------------------------------------------------------------

RamPages == {g \in GuestPages : g * PAGE_SIZE \in guest_memory_begin..(guest_memory_end - 1)}
DtbPages == {(guest_dtb_gpa + o) \div PAGE_SIZE : o \in Turns(aligned_dtb_size, PAGE_SIZE)}
PagesOf(r) == GuestPages \cap HostPages(r)
DeviceRange == {create_device_map(tree)[i] : i \in 1..Len(create_device_map(tree))}
DevicePages == UNION {HostPages(Blocks(r)) : r \in DeviceRange}

\* An entry holds the page number of a table, of a page given to the guest or of
\* a device (sv39x4.rs, generate_page_table).
TypeOK ==
    /\ step \in {"dtb", "elf", "fill", "devices", "guest", "panic", "scribble"}
    /\ idx \in Nat /\ off \in Nat /\ elf_end \in Nat
    /\ heap \subseteq Nat
    /\ ROOT \in DOMAIN pt
    /\ LET pages == {0} \cup DOMAIN pt \cup DOMAIN data \cup DevicePages
           last(t) == (IF t = ROOT THEN FIRST_LV_PAGE_TABLE_LEN ELSE PAGE_TABLE_LEN) - 1
       IN \A t \in DOMAIN pt : pt[t] \in [0..last(t) -> [ppn : pages, flags : SUBSET Flags]]

\* No host page is a page table and, at the same time, free or the guest's.
\* Otherwise a later turn of any loop, or the guest, rewrites the table.
OwnersDisjoint ==
    /\ DOMAIN pt \cap DOMAIN data = {}
    /\ heap \cap (DOMAIN pt \cup DOMAIN data) = {}

\* Isolation: at every moment of the construction, whatever guest address is
\* used, the guest reaches no page table and no page the heap may hand out.
GuestIsolated ==
    \A g \in GuestPages : hw_walk(pt, g) \notin DOMAIN pt \cup heap

\* The software walk that the shadow-stack emulation relies on finds the
\* same page as the hardware, for every page that is mapped
\* (sv39x4.rs:156-212 against 79-152).
WalksAgree ==
    \A g \in GuestPages :
        hw_walk(pt, g) # Fault => trans_addr(pt, g) = hw_walk(pt, g)

\* Mapping never walks through a leaf: already_created (page_table.rs:95)
\* does not tell a table from a superpage, so the order and the sizes of the
\* regions have to.
NeverScribbles == step # "scribble"

\* When the guest starts, each page of its image and of its device tree is
\* mapped to a page that holds those bytes: no later segment, fill or device
\* has replaced it.
ImageLoaded ==
    step = "guest" =>
        /\ \A i \in 1..Len(elf) : \A o \in Turns(elf[i].filesz, PAGE_SIZE) :
              LET h == hw_walk(pt, (guest_memory_begin + elf[i].paddr + o) \div PAGE_SIZE)
              IN h \in DOMAIN data /\ data[h] = <<"elf", elf[i].offset + o>>
        /\ \A o \in Turns(aligned_dtb_size, PAGE_SIZE) :
              LET h == hw_walk(pt, (guest_dtb_gpa + o) \div PAGE_SIZE)
              IN h \in DOMAIN data /\ data[h] = <<"dtb", o>>

\* Two pages of the guest's memory never share a host page.
RamPrivate ==
    \A a, b \in RamPages \cup DtbPages :
        a # b /\ hw_walk(pt, a) # Fault => hw_walk(pt, a) # hw_walk(pt, b)

\* When the guest starts, every page of every device is mapped one to one,
\* whichever page size the mapping used (device.rs:121).
DevicesPassThrough ==
    step = "guest" => \A r \in DeviceRange : \A g \in PagesOf(r) : hw_walk(pt, g) = g

\* The PLIC's context registers stay unmapped, so that each guest access to
\* them is a fault the emulation of module Plic sees (plic.rs:157-158).
ContextRegistersTrap ==
    \A g \in PagesOf([start |-> tree.plic.start + CONTEXT_BASE,
                      len |-> tree.plic.len - CONTEXT_BASE]) : hw_walk(pt, g) = Fault

\* The guest reaches its own memory, its device tree and whole blocks of
\* devices, and nothing else.
NothingElseMapped ==
    \A g \in GuestPages :
        hw_walk(pt, g) # Fault =>
            g \in RamPages \cup DtbPages \cup UNION {PagesOf(Blocks(r)) : r \in DeviceRange}

\* "filling remain memory region" (hypervisor_init.rs:130): when the guest
\* starts, all of the memory its device tree describes is there.
WholeMemoryMapped ==
    step = "guest" => \A g \in RamPages : hw_walk(pt, g) # Fault
=============================================================================
