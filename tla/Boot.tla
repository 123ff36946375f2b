-------------------------------- MODULE Boot --------------------------------
(***************************************************************************)
(* The way from reset to the guest on one hart: _start (main.rs), mstart   *)
(* and mret (machine_init.rs), hstart, vsmode_setup and hart_entry         *)
(* (hypervisor_init.rs), with what it allocates on the heap, the IOMMU it  *)
(* programs (device/iommu.rs) and the interrupts that may come meanwhile.  *)
(* What the page table contains is in module GStage; here a table is an    *)
(* allocation, and what matters is where the allocator puts it.            *)
(***************************************************************************)
EXTENDS Heap

CONSTANTS
    HeapStart,          \* _start_heap, aligned to 1 MiB by memory.x
    Configs,            \* the machines: see Machine
    ElfPages, FillPages,    \* pages of the image, and of the memory after it
    PagesPerTable,      \* 512: pages below one table of the last level
    DeviceTables,       \* tables the device mapping creates
    MaxFaultPages       \* bound on the pages of fault records observed

\* A machine: pages of guest device tree, virtio nodes, where its PCI memory
\* ranges lie (below or above 4 GiB), the units of heap, the IOMMU ("old" lacks
\* a capability the code asserts), whether the build reads a register that is
\* not volatile again on every turn of a loop, and whether stimecmp, which
\* nobody initialises, has expired.
Machine == [dtb : Nat, virtio : Nat, ranges : Seq({"low", "high"}), heap : Nat \ {0},
            iommu : {"none", "old", "ok"}, rereads : BOOLEAN, expired : BOOLEAN]

ASSUME BootAssumption ==
    /\ HeapStart \in Nat /\ HeapStart % PAGE_UNITS = 0
    /\ \A c \in Configs : c \in Machine
    /\ {ElfPages, FillPages, DeviceTables, MaxFaultPages} \subseteq Nat
    /\ ElfPages + FillPages > 0 /\ PagesPerTable \in Nat \ {0}

VARIABLES
    m,          \* the machine
    pc,         \* what the boot does next, or how it stopped
    reqs,       \* what the current function still asks of the heap
    mem,        \* heap: its holes, the vectors, tables and guest pages in it
    timer,      \* mtimecmp: "due", "armed" by the guest, or "off"
    mie,        \* mie.MTIE
    stce, stip, \* menvcfg.STCE, and mip.STIP as software wrote it
    sie,        \* sie.STIE
    sstatus_sie,
    stvec,
    frames,     \* HS boot code has frames on its stack, the M-mode trap stack
    smashed,    \* a trap saved registers over them
    hgatp,
    mem_enable, \* the IOMMU answers at its base address register
    queue,      \* its queues: [base, en, on]
    ddt,        \* device directory: its page, and iohgatp in its entries
    ddtp,       \* iommu_mode
    fqt         \* pages of fault records the IOMMU has written

interrupts == <<timer, mie, stce, stip, sie, sstatus_sie, stvec>>
stack == <<frames, smashed>>
translation == <<hgatp, mem_enable, queue, ddt, ddtp, fqt>>
vars == <<m, pc, reqs, mem, interrupts, stack, translation>>

----------------------------------------------------------------------------
(* What the functions of the boot ask of the heap, in order.               *)

\* A page for the guest, with the tables that mapping it opens; a table alone.
Page(tables) == [op |-> "page", tables |-> tables]
Table == [op |-> "table"]
Grow(name, units) == [op |-> "grow", name |-> name, len |-> units]
Drop(name) == [op |-> "drop", name |-> name]

None == [at |-> 0, len |-> 0]

\* An allocation that fails panics.
take(h, size, align) ==
    IF h.ok /\ Candidates(h.holes, size, align) # {}
    THEN LET a == allocate(h.holes, size, align)
         IN [h EXCEPT !.holes = a.holes, !.last = a.at]
    ELSE [h EXCEPT !.ok = FALSE]

\* Mutant: the block is not declared aligned.
alloc_unaligned(h) == take(h, PAGE_UNITS, 1)

\* Mutant: the block is dropped, and freed, where it was allocated.
alloc_dropped(h) == [take(h, PAGE_UNITS, PAGE_UNITS) EXCEPT !.holes = h.holes]

\* PageBlock::alloc: one page, aligned.
alloc(h) == take(h, PAGE_UNITS, PAGE_UNITS)

\* Box of 512 entries: aligned as one entry is.
new_table(h) ==
    LET b == take(h, PAGE_UNITS, 1)
    IN IF b.ok THEN [b EXCEPT !.tables = @ \cup {b.last}] ELSE b

guest_page(h) ==
    LET b == alloc(h) IN IF b.ok THEN [b EXCEPT !.ram = @ \cup {b.last}] ELSE b

release(h, v) == IF v.len = 0 THEN h ELSE [h EXCEPT !.holes = deallocate(@, v.at, v.len)]

\* A growing vector takes its new buffer before it frees the old one.
grow(h, name, len) ==
    LET b == take(h, len, 1)
    IN IF b.ok THEN [release(b, b.vecs[name]) EXCEPT !.vecs[name] = [at |-> b.last, len |-> len]]
       ELSE b

Serve(h, r) ==
    CASE r.op = "page" -> guest_page(h)
      [] r.op = "table" -> new_table(h)
      [] r.op = "grow" -> grow(h, r.name, r.len)
      [] r.op = "drop" -> [release(h, h.vecs[r.name]) EXCEPT !.vecs[r.name] = None]

\* What a request is followed by: a page by the tables to map it.
FollowedBy(r) == IF r.op = "page" THEN [i \in 1..r.tables |-> Table] ELSE <<>>

\* Units of an element: struct VirtIo and struct MemoryMap.
VIRTIO == 3
MEMORY_MAP == 5

\* Pushing n elements one by one: the capacities are taken in turn until one
\* suffices.  No device tree has more nodes than the last.
CAPACITIES == <<4, 8, 16, 32, 64, 128, 256, 512, 1024>>
PushAll(name, unit, n) ==
    LET needed == {k \in 1..Len(CAPACITIES) : n > (IF k = 1 THEN 0 ELSE CAPACITIES[k - 1])}
    IN [k \in 1..Cardinality(needed) |-> Grow(name, unit * CAPACITIES[k])]

\* The capacity after extend_from_slice, and the request it makes.
Extended(cap, len, more) == IF len + more <= cap THEN cap ELSE Max({2 * cap, len + more})
Regrow(name, unit, old, new) == IF new = old THEN <<>> ELSE <<Grow(name, unit * new)>>

\* The first page of the device tree finds an empty root table.
map_guest_dtb(pages) == [i \in 1..pages |-> Page(IF i = 1 THEN 2 ELSE 0)]

\* Pages first, first + 1, ... of the guest's memory; every PagesPerTable-th
\* opens a table.
MapPages(first, pages) ==
    [i \in 1..pages |-> Page(IF (first + i - 1) % PagesPerTable = 0 THEN 1 ELSE 0)]

load_guest_elf == MapPages(0, ElfPages)
filling_memory_region == MapPages(ElfPages, FillPages)

VirtIoList_new(n) == PushAll("virtio", VIRTIO, n)
Pci_new(ranges) == PushAll("pci", MEMORY_MAP, Len(ranges))

\* The virtio regions are collected at their exact number; then six devices
\* and the PCI ranges are appended.
create_device_map(n, ranges) ==
    LET six == Extended(n, n, 6)
        all == Extended(six, n + 6, Len(ranges))
    IN Regrow("map", MEMORY_MAP, 0, n) \o Regrow("map", MEMORY_MAP, n, six)
         \o Regrow("map", MEMORY_MAP, six, all)

device_mapping_g_stage(n, ranges) ==
    create_device_map(n, ranges) \o [i \in 1..DeviceTables |-> Table] \o <<Drop("map")>>

----------------------------------------------------------------------------
(* The boot                                                                *)

Init ==
    /\ m \in Configs
    /\ pc = "_start" /\ reqs = <<>>
    /\ mem = [holes |-> {}, last |-> 0, tables |-> {}, ram |-> {}, ok |-> TRUE,
              vecs |-> [v \in {"virtio", "pci", "map"} |-> None]]
    \* mtimecmp is 0 after reset (device/clint.rs), or the timer is not running.
    /\ timer \in {"due", "off"}
    /\ mie = FALSE /\ stce = FALSE /\ stip = FALSE /\ sie = FALSE /\ sstatus_sie = FALSE
    /\ stvec = "reset" /\ frames = FALSE /\ smashed = FALSE
    /\ hgatp = "Bare" /\ mem_enable = FALSE
    /\ queue = [q \in {"cq", "fq", "pq"} |-> [base |-> 0, en |-> FALSE, on |-> FALSE]]
    /\ ddt = [at |-> 0, iohgatp |-> "invalid"] /\ ddtp = "Off" /\ fqt = 0

Stopped == {"panic", "_start in HS-mode", "hstrap_vector without a stack", "spin"}
MachineMode == {"_start", "mstart", "enter_hypervisor_mode"}

\* Both are taken before the next instruction.  With STCE set, STIP is the
\* comparison with stimecmp and what M-mode writes to it is ignored.
MTimerPending == timer = "due" /\ mie /\ pc \notin MachineMode \cup Stopped
STimerPending ==
    /\ sie /\ sstatus_sie /\ (IF stce THEN m.expired ELSE stip)
    /\ pc \notin {"guest"} \cup Stopped

Interrupted == MTimerPending \/ STimerPending
At(step) == pc = step /\ reqs = <<>> /\ ~Interrupted

\* One request of the current function.
Request ==
    /\ reqs # <<>> /\ pc # "panic" /\ ~Interrupted
    /\ mem' = Serve(mem, Head(reqs))
    /\ reqs' = FollowedBy(Head(reqs)) \o Tail(reqs)
    /\ pc' = IF mem'.ok THEN pc ELSE "panic"
    /\ UNCHANGED <<m, interrupts, stack, translation>>

\* A function that makes the requests rs and is followed by step.
Allocating(rs, step) ==
    /\ reqs' = rs
    /\ pc' = step
    /\ UNCHANGED <<m, mem, interrupts, stack, translation>>

\* Mutant: the allocator is given the end of the heap for its size.
_start_end ==
    /\ At("_start")
    /\ mem' = [mem EXCEPT !.holes = {Hole(HeapStart, HeapStart + m.heap)}]
    /\ stvec' = "DRAM_BASE"
    /\ pc' = "mstart"
    /\ UNCHANGED <<m, reqs, timer, mie, stce, stip, sie, sstatus_sie, stack, translation>>

_start ==
    /\ At("_start")
    /\ mem' = [mem EXCEPT !.holes = {Hole(HeapStart, m.heap)}]
    /\ stvec' = "DRAM_BASE"
    /\ pc' = "mstart"
    /\ UNCHANGED <<m, reqs, timer, mie, stce, stip, sie, sstatus_sie, stack, translation>>

\* Mutant: Sstc is left to the hypervisor.
mstart_without_sstc ==
    /\ At("mstart")
    /\ mie' = TRUE
    /\ pc' = "enter_hypervisor_mode"
    /\ UNCHANGED <<m, reqs, mem, timer, stce, stip, sie, sstatus_sie, stvec, stack, translation>>

mstart ==
    /\ At("mstart")
    /\ mie' = TRUE
    /\ stce' = TRUE
    /\ pc' = "enter_hypervisor_mode"
    /\ UNCHANGED <<m, reqs, mem, timer, stip, sie, sstatus_sie, stvec, stack, translation>>

\* mret: sp is the M-mode trap stack, nothing is on it yet.
enter_hypervisor_mode ==
    /\ At("enter_hypervisor_mode")
    /\ pc' = "hstart"
    /\ UNCHANGED <<m, reqs, mem, interrupts, stack, translation>>

hstart ==
    /\ At("hstart")
    /\ frames' = TRUE
    /\ sie' = TRUE
    /\ pc' = "Guest::new"
    /\ UNCHANGED <<m, reqs, mem, timer, mie, stce, stip, sstatus_sie, stvec, smashed, translation>>

Guest_new ==
    /\ At("Guest::new")
    /\ Allocating(map_guest_dtb(m.dtb), "Devices::new")

Devices_new ==
    /\ At("Devices::new")
    /\ Allocating(VirtIoList_new(m.virtio) \o Pci_new(m.ranges), "load_guest_elf")

LoadGuestElf ==
    /\ At("load_guest_elf")
    /\ Allocating(load_guest_elf, "filling_memory_region")

FillMemoryRegion ==
    /\ At("filling_memory_region")
    /\ Allocating(filling_memory_region, "device_mapping")

DeviceMapping ==
    /\ At("device_mapping")
    /\ Allocating(device_mapping_g_stage(m.virtio, m.ranges), "hgatp")

\* Mutant: hgatp is left to the entry into the guest.
SetHgatp_later ==
    /\ At("hgatp")
    /\ pc' = "init_iommu"
    /\ UNCHANGED <<m, reqs, mem, interrupts, stack, translation>>

SetHgatp ==
    /\ At("hgatp")
    /\ hgatp' = "ROOT_PAGE_TABLE"
    /\ pc' = "init_iommu"
    /\ UNCHANGED <<m, reqs, mem, interrupts, stack, mem_enable, queue, ddt, ddtp, fqt>>

----------------------------------------------------------------------------
(* device/iommu.rs                                                         *)

\* Without an IOMMU nothing is done.  Its registers are put at the first PCI
\* memory range, whose address must exist and fit 32 bits; then the memory space
\* is enabled and the capabilities are asserted.
FirstRange == IF m.ranges = <<>> THEN "none" ELSE m.ranges[1]

init_iommu ==
    /\ At("init_iommu")
    /\ \/ m.iommu = "none" /\ pc' = "sstatus" /\ UNCHANGED mem_enable
       \/ m.iommu # "none" /\ FirstRange # "low" /\ pc' = "panic" /\ UNCHANGED mem_enable
       \/ /\ m.iommu # "none" /\ FirstRange = "low"
          /\ mem_enable' = TRUE
          /\ pc' = IF m.iommu = "old" THEN "panic" ELSE "cq"
    /\ UNCHANGED <<m, reqs, mem, interrupts, stack, hgatp, queue, ddt, ddtp, fqt>>

PollOf == [cq |-> "cqon", fq |-> "fqon", pq |-> "pqon"]
AfterQueue == [cq |-> "fq", fq |-> "pq", pq |-> "ddt"]

\* Mutant: the queue is not enabled.
set_queue_off(q) ==
    /\ At(q)
    /\ mem' = alloc(mem)
    /\ pc' = IF mem'.ok THEN PollOf[q] ELSE "panic"
    /\ queue' = IF mem'.ok THEN [queue EXCEPT ![q].base = mem'.last] ELSE queue
    /\ UNCHANGED <<m, reqs, interrupts, stack, hgatp, mem_enable, ddt, ddtp, fqt>>

\* A page for the queue, its base (asserted aligned), its tail, and xqen.
set_queue(q) ==
    /\ At(q)
    /\ mem' = alloc(mem)
    /\ pc' = IF mem'.ok /\ mem'.last % PAGE_UNITS = 0 THEN PollOf[q] ELSE "panic"
    /\ queue' = IF pc' = PollOf[q]
                THEN [queue EXCEPT ![q].base = mem'.last, ![q].en = TRUE] ELSE queue
    /\ UNCHANGED <<m, reqs, interrupts, stack, hgatp, mem_enable, ddt, ddtp, fqt>>

\* The loop tests a register of an ordinary struct: a build that reads it only
\* once spins for ever if the queue was not on yet.
poll_queue(q) ==
    /\ At(PollOf[q])
    /\ \/ queue[q].on /\ pc' = AfterQueue[q]
       \/ ~queue[q].on /\ ~m.rereads /\ pc' = "spin"
    /\ UNCHANGED <<m, reqs, mem, interrupts, stack, translation>>

\* The directory at a page: every entry is valid and has the hart's hgatp.
init_page_table(at) == [at |-> at, iohgatp |-> hgatp]

set_ddtp ==
    /\ At("ddt")
    /\ mem' = alloc(mem)
    /\ IF mem'.ok
       THEN /\ ddt' = init_page_table(mem'.last)
            /\ ddtp' = "Lv1"
            /\ pc' = "sstatus"
       ELSE pc' = "panic" /\ UNCHANGED <<ddt, ddtp>>
    /\ UNCHANGED <<m, reqs, interrupts, stack, hgatp, mem_enable, queue, fqt>>

----------------------------------------------------------------------------
(* Into the guest                                                          *)

SetSstatus ==
    /\ At("sstatus")
    /\ sstatus_sie' = TRUE
    /\ pc' = "stvec"
    /\ UNCHANGED <<m, reqs, mem, timer, mie, stce, stip, sie, stvec, stack, translation>>

SetStvec ==
    /\ At("stvec")
    /\ stvec' = "hstrap_vector"
    /\ pc' = "hart_entry"
    /\ UNCHANGED <<m, reqs, mem, timer, mie, stce, stip, sie, sstatus_sie, stack, translation>>

\* The stack of the HS-mode trap handlers goes to sscratch, sret.
hart_entry ==
    /\ At("hart_entry")
    /\ frames' = FALSE
    /\ pc' = "guest"
    /\ UNCHANGED <<m, reqs, mem, interrupts, smashed, translation>>

----------------------------------------------------------------------------
(* Interrupts, the guest and the IOMMU                                     *)

\* Mutant: mtimecmp is set to the next tick.
mtrap_vector_rearms ==
    /\ MTimerPending
    /\ smashed' = (smashed \/ frames)
    /\ stip' = TRUE
    /\ timer' = "armed"
    /\ UNCHANGED <<m, pc, reqs, mem, mie, stce, sie, sstatus_sie, stvec, frames, translation>>

\* The registers are saved from the top of the M-mode stack down; the timer arm.
\* The others cannot be meant during the boot: mip.MSIP is 0 until the guest
\* writes the CLINT, and mie.MEIE is never set (see TrapFlow for all of them).
mtrap_vector ==
    /\ MTimerPending
    /\ smashed' = (smashed \/ frames)
    /\ stip' = TRUE
    /\ timer' = "off"
    /\ UNCHANGED <<m, pc, reqs, mem, mie, stce, sie, sstatus_sie, stvec, frames, translation>>

\* Where a supervisor timer interrupt would lead before the guest runs.
StrayTrap ==
    /\ ~MTimerPending /\ STimerPending
    /\ pc' = IF stvec = "DRAM_BASE" THEN "_start in HS-mode"
             ELSE "hstrap_vector without a stack"
    /\ UNCHANGED <<m, reqs, mem, interrupts, stack, translation>>

\* The guest has the CLINT mapped.
GuestSetTimer ==
    /\ At("guest") /\ timer = "off"
    /\ timer' = "armed"
    /\ UNCHANGED <<m, pc, reqs, mem, mie, stce, stip, sie, sstatus_sie, stvec, stack, translation>>

TimerExpires ==
    /\ timer = "armed"
    /\ timer' = "due"
    /\ UNCHANGED <<m, pc, reqs, mem, mie, stce, stip, sie, sstatus_sie, stvec, stack, translation>>

\* A queue that was enabled is eventually on.
QueueOn(q) ==
    /\ mem_enable /\ queue[q].en /\ ~queue[q].on
    /\ queue' = [queue EXCEPT ![q].on = TRUE]
    /\ UNCHANGED <<m, pc, reqs, mem, interrupts, stack, hgatp, mem_enable, ddt, ddtp, fqt>>

\* The base registers announce 4096 entries; a fault record has 4 units.
QUEUE_ENTRIES == 4096
FAULT_RECORD == 4

\* Devices fault often enough to fill one more page with records, which nobody
\* reads.  Only the first of these pages was allocated.
DmaFaults ==
    /\ At("guest") /\ ddtp = "Lv1" /\ queue["fq"].on
    /\ fqt < MaxFaultPages /\ fqt < (QUEUE_ENTRIES * FAULT_RECORD) \div PAGE_UNITS
    /\ fqt' = fqt + 1
    /\ ddt' = IF queue["fq"].base + fqt * PAGE_UNITS = ddt.at
              THEN [ddt EXCEPT !.iohgatp = "record"] ELSE ddt
    /\ UNCHANGED <<m, pc, reqs, mem, interrupts, stack, hgatp, mem_enable, queue, ddtp>>

BootStep ==
    \/ Request
    \/ _start \/ mstart \/ enter_hypervisor_mode \/ hstart
    \/ Guest_new \/ Devices_new \/ LoadGuestElf \/ FillMemoryRegion \/ DeviceMapping
    \/ SetHgatp \/ init_iommu \/ set_ddtp
    \/ \E q \in {"cq", "fq", "pq"} : set_queue(q) \/ poll_queue(q)
    \/ SetSstatus \/ SetStvec \/ hart_entry

Next ==
    \/ BootStep \/ mtrap_vector \/ StrayTrap
    \/ GuestSetTimer \/ TimerExpires \/ DmaFaults
    \/ \E q \in {"cq", "fq", "pq"} : QueueOn(q)

\* The hart executes and takes its interrupts; the IOMMU turns its queues on.
Fairness ==
    /\ WF_vars(BootStep)
    /\ WF_vars(mtrap_vector)
    /\ \A q \in {"cq", "fq", "pq"} : WF_vars(QueueOn(q))

Spec == Init /\ [][Next]_vars /\ Fairness

----------------------------------------------------------------------------
(* Properties                                                              *)

\* The page blocks: the guest's memory, the IOMMU's queues and its directory.
PageBlocks ==
    mem.ram \cup {queue[q].base : q \in {q \in DOMAIN queue : queue[q].en}}
      \cup (IF ddtp = "Off" THEN {} ELSE {ddt.at})

\* The pages in use: those and the tables.
PagesInUse == mem.tables \cup PageBlocks

\* Everything the boot takes from the heap lies inside the region the linker
\* script reserved for it: holes, page tables, page blocks and the buffers of the
\* vectors.  Page blocks are on page boundaries (main.rs, _start and
\* PageBlock::alloc).
TypeOK ==
    /\ m \in Configs
    /\ timer \in {"due", "armed", "off"}
    /\ {mie, stce, stip, sie, sstatus_sie, frames, smashed, mem_enable, mem.ok} \subseteq BOOLEAN
    /\ stvec \in {"reset", "DRAM_BASE", "hstrap_vector"}
    /\ hgatp \in {"Bare", "ROOT_PAGE_TABLE"} /\ ddtp \in {"Off", "Lv1"}
    /\ ddt.iohgatp \in {"invalid", "Bare", "ROOT_PAGE_TABLE", "record"}
    /\ \A h \in mem.holes : h.at >= HeapStart /\ h.at + h.len <= HeapStart + m.heap
    /\ \A b \in PagesInUse : b >= HeapStart /\ b + PAGE_UNITS <= HeapStart + m.heap
    /\ \A b \in PageBlocks : b % PAGE_UNITS = 0
    /\ \A v \in DOMAIN mem.vecs : mem.vecs[v].len # 0 =>
           /\ mem.vecs[v].at >= HeapStart
           /\ mem.vecs[v].at + mem.vecs[v].len <= HeapStart + m.heap
    /\ fqt \in 0..MaxFaultPages

\* The vectors of the device list leave a hole in front of the guest's pages that
\* is large enough for the list of regions: there is a vector at all, and not
\* more virtio nodes than 22 nor PCI ranges than 6.
HoleForDeviceMap == m.virtio + Len(m.ranges) > 0 /\ m.virtio <= 22 /\ Len(m.ranges) <= 6

\* Page tables are boxes of entries that the allocator only has to align to 8
\* bytes, while PageTableAddress::page_number drops the low 12 bits.  They are
\* page aligned all the same as long as the list of device regions finds room
\* in front of the guest's pages (sv39x4.rs, generate_page_table; device.rs,
\* create_device_map).
TablesAligned == HoleForDeviceMap => \A t \in mem.tables : t % PAGE_UNITS = 0

\* No two pages of tables, guest memory or IOMMU ever overlap each other or the
\* free memory, through all the growing and freeing of the device lists
\* (main.rs, PageBlock::alloc; sv39x4.rs, generate_page_table; iommu.rs).
PagesDisjoint ==
    /\ mem.tables \cap mem.ram = {}
    /\ \A a, b \in PagesInUse : a = b \/ a + PAGE_UNITS <= b \/ b + PAGE_UNITS <= a
    /\ \A a \in PagesInUse, h \in mem.holes : a + PAGE_UNITS <= h.at \/ h.at + h.len <= a

\* HS-mode boots on the stack whose top the M-mode trap handler saves registers
\* to.  The timer interrupt that is pending since reset is taken before hstart
\* has a frame there, and the handler puts mtimecmp out of reach, so that no
\* later one comes before hart_entry leaves that stack (machine_init.rs,
\* trap/machine/interrupt.rs).
BootStackIntact == ~smashed

\* vsmode_setup enables interrupts before it sets stvec and before hart_entry
\* sets sscratch.  Although the M-mode handler turned the timer interrupt of the
\* reset into STIP, no supervisor timer interrupt is taken in that window: mstart
\* has handed STIP to stimecmp.  Only an stimecmp that has expired can do it.
NoStrayTrap ==
    m.expired \/ pc \notin {"_start in HS-mode", "hstrap_vector without a stack"}

\* Once the IOMMU translates, the directory sends every device through the page
\* table of the guest, and none of the IOMMU's pages is the guest's; as long as
\* the fault records fit the page allocated for them (iommu.rs,
\* init_page_table).
DmaConfined ==
    ddtp = "Lv1" /\ fqt <= 1 =>
        /\ ddt.iohgatp = hgatp /\ hgatp = "ROOT_PAGE_TABLE"
        /\ ddt.at \notin mem.ram
        /\ \A q \in DOMAIN queue : queue[q].on /\ queue[q].base \notin mem.ram \cup {ddt.at}

\* Pages the boot takes, with three more than cover every vector of Configs.
Demand ==
    m.dtb + 2 + ElfPages + FillPages + AlignUp(ElfPages + FillPages, PagesPerTable) \div PagesPerTable
      + DeviceTables + 4 + 3

\* A machine with enough memory whose stimecmp has not expired, and without an
\* IOMMU or with a suitable one whose registers the build reads again, reaches
\* the guest (hypervisor_init.rs, vsmode_setup; the polling loops of iommu.rs).
BootCompletes ==
    /\ ~m.expired /\ m.heap >= Demand * PAGE_UNITS
    /\ m.iommu = "none" \/ (m.iommu = "ok" /\ m.rereads /\ FirstRange = "low")
    => <>(pc = "guest")
=============================================================================
