# A TLA+ model of hikami

hikami is a bare-metal RISC-V hypervisor for one hart and one guest: it boots in
M-mode, sets up HS-mode, loads a Linux image from the initrd into guest memory and
runs it in VS-mode. It emulates the context registers of the PLIC, the Zicfiss
shadow-stack extension and some SBI calls; everything else is passed through.

This directory models the parts of it that keep state over several steps, checks
them with TLC, and proves the main invariants with TLAPS. Paths such as `plic.rs`
are under `src/src/`.

## Inventory

| Component | State | Operations | Interacts with |
|---|---|---|---|
| PLIC emulation (`device/plic.rs`, `page_fault_handler.rs`, `interrupt.rs`) | `claim_complete` per context; `hvip.VSEIP`; the hardware PLIC | HS external interrupt, emulated load and store | trap handling calls it under `HYPERVISOR_DATA` |
| HS trap handling (`trap/hypervisor_supervisor*`) | the context saved on the hypervisor stack, guest CSRs, locks | `hstrap_vector`, one handler per cause, `hstrap_exit` | PLIC, Zicfiss, SBI (by ecall to M-mode) |
| M trap handling (`trap/machine*`) | M context, `mip`, the `SBI` lock | timer and software interrupt, ecall, `forward_exception` | reads the guest context that HS saved |
| G-stage page table (`memmap/page_table*`) | the tables | `generate_page_table`, `trans_addr` | guest creation, device mapping, Zicfiss |
| Guest creation (`guest.rs`, `hypervisor_init.rs`) | guest memory, heap | `map_guest_dtb`, `load_guest_elf`, `filling_memory_region` | page table, heap |
| Device mapping (`device.rs` and below) | regions of the device tree | `create_device_map`, `device_mapping_g_stage` | page table |
| Zicfiss (`emulate_extension*`) | `ssp`, `henv_sse`, `senv_sse` | SSPUSH, SSPOPCHK, SSRDP, CSR access, `pseudo_vs_exception` | both page-table walks, trap exit |
| SBI services (`sbi*`, `sbi_handler.rs`) | none of their own | base, remote fences, FWFT | M-mode |
| Boot (`main.rs`, `machine_init.rs`, `hypervisor_init.rs`) | heap, boot stack, interrupt enables, vectors | `_start`, `mstart`, `hstart`, `vsmode_setup`, `hart_entry` | everything |
| IOMMU (`device/iommu*`) | three queues, device directory | `init`, `init_page_table` | heap, `hgatp`, PCI ranges |
| UART, RTC, PCI configuration, CSR accessors | device registers | I/O | - |

There is one hart, so nothing runs in parallel. The hard behaviours are of another
kind: an M interrupt between any two HS instructions; spin locks that the same hart
may ask for twice; handlers that leave through functions that never return, past the
guards they hold; a guest that may access an emulated register at any time; devices
that raise interrupts while the guest is in the middle of claiming another; emulated
instructions that fault half-way and are executed again, under a kernel that moves
pages and switches threads meanwhile; and a boot sequence whose later mappings may
destroy earlier ones, whose page tables are aligned by the luck of first fit, and
which shares its stack with the trap handler.

What makes each part correct:

* PLIC: the emulated claim agrees with the hardware; an injected interrupt has a
  claim; no source is lost, every source is served.
* Traps: no lock survives into the guest; the hart never waits for itself; the guest
  goes on at the right address; every trap ends.
* Page table: every mapped page goes where it should, nothing else is mapped, no
  guest address reaches a table or free memory, the software walk agrees with the
  hardware.
* Zicfiss: each thread has a stack of its own return addresses, a wrong return is
  caught and a right one is not, also after a fault; the hypervisor stops for no page
  that is there.
* SBI: the call that M-mode executes is the call the guest made.
* Boot: no interrupt arrives before there is a vector for it, none destroys the boot
  stack, tables are page aligned, and the guest is reached.
* IOMMU: devices are translated by the guest's page table.

`PROJECT.json` lists the hazards line by line, each with the property that covers it.

## Modules

| Module | Models |
|---|---|
| `Plic` | the PLIC emulation with an arbitrary guest |
| `DirectPlic` | what a guest may expect of a controller of its own (abstract) |
| `PlicDriver` | `Plic` with a claim/complete driver as guest; implements `DirectPlic` |
| `PlicProofs` | theorems about `Plic` |
| `PlicDriverProofs` | theorems about `PlicDriver`, with the refinement of `DirectPlic` |
| `TrapFlow` | one hart through the HS and M trap handlers, with the three locks |
| `TrapFlowProofs` | theorems about `TrapFlow` |
| `PageTable` | page table entries, used by both stages |
| `GStage` | building and walking the G-stage page table at boot |
| `GStageProofs` | theorems about `GStage` |
| `Zicfiss` | the shadow stack emulation and the VS-stage walks |
| `ZicfissGuest` | `Zicfiss` with a guest kernel and its threads; implements `ShadowStacks` |
| `ZicfissProofs` | theorems about `ZicfissGuest`, with the refinement of `ShadowStacks` |
| `ShadowStacks` | a stack of return addresses per thread (abstract) |
| `Heap` | the first-fit allocator (external) |
| `HeapProofs` | what the allocator promises, as lemmas |
| `Boot` | from reset to the guest: allocations, stack, interrupts, IOMMU |
| `BootProofs` | theorems about `Boot` |
| `BootLayoutProofs` | where the boot's allocations lie, and that tables are page aligned |
| `MCPlic`, `MCPlicDriver`, `MCTrapFlow`, `MCGStage`, `MCZicfiss`, `MCBoot` | small instances |

An operator named `X_y` with the comment "Mutant:" is a variant of `X` with a
plausible bug. No specification uses it; it is there to show that a property
notices the bug.

### Plic, PlicDriver, DirectPlic

`claim_complete`, `threshold` and `vseip` are the registers of the same name.
`line`, `pending` and `in_service` are the hardware PLIC (external): asserted wires,
requests latched by the gateway, sources claimed and not completed. `config` is the
registers passed through to the guest (`Plic::memmap`): the enable bits of each context and
the priorities, which an arbitrary guest may set to any of `GuestConfigs` at any time. What
the PLIC signals to the supervisor context (`Deliverable`) follows from them. A completion of
a source that is not enabled in that context is ignored by the PLIC specification and
taken by QEMU's PLIC; `HwComplete` leaves both open. Enable bits of the machine contexts
have no effect of their own, since `mie.MEIE` is never set.

`hart` is `"guest"` until the hypervisor stops: `"panic"` for a failed
`unwrap` or index, `"spin"` for a refused access (why it spins is in `TrapFlow`).

`SupervisorExternal` is the whole arm of `trap_interrupt`. `load_guest_page_fault` and
`store_guest_page_fault` are the handlers with `emulate_read` / `emulate_write` and
`context_read` / `context_write` inlined as operators; the threshold, completion and
rejected arms are `write_threshold`, `write_complete` and `write_rejected`. Offsets
keep their arithmetic, so the bound check that is one too wide (`plic.rs:65`) and the
product in `CONTEXT_END` (`plic.rs:20`) are there. A store that passes the range check but
lies past the last context goes to host memory (`StrayStore`): a threshold store returns as
if nothing had happened, a completion panics afterwards. In the model it may change any
claim register; page tables and the rest of the hypervisor's memory, which it may reach
as well, are not part of this module. `intact` is true until the first such store, and the
properties of the arbitrary guest are stated under it. `foreign` is the set of values the
guest stored as completions through other contexts since the last external interrupt. Both
are history: no action reads them.

`PlicDriver` adds `gpc`, where the driver is: it takes the interrupt, loads the claim,
services the device, stores the completion, and loads again until it reads 0, and it
may mask its context between interrupts. It has enabled every source for its supervisor
context and no other, all with priority 1 (`DriverConfig`). `DirectPlic` is the same driver on a
controller without a hypervisor. The refinement maps its pending set to the claim
the driver has not read yet (`Unread`) and its active set to the one it is working on.

### TrapFlow

`mode` is the privilege the hart runs in; `hs` and `m` name the function that runs
next in the HS and M handler. `lock` maps `HYPERVISOR_DATA`, `ZICFISS_DATA` and `SBI`
to their holder. `ctx` is the saved `sepc` and `sstatus.SPP`, `vs` is `vsepc` and the
`SPP`, `SIE`, `SPIE` bits of `vsstatus`, `pc` the guest's program counter. A lock taken
and dropped within one statement is a guard of the step (`Free`); a guard kept in a
variable is held over steps (`Take`, `Drop`). A step that needs a lock that is held
is not enabled, which is what a spinning hart looks like (`Spinning`).

Registers and CSR values are abstracted away, and so is what the emulated instruction
computes; the outcomes it can have (done, fault, panic) are separate actions.
Between traps `scause`, `stval`, `htinst` and SPP are reset (`NoTrap`): nothing reads
them before the next trap writes them.

### GStage

`step` follows `vsmode_setup`: `dtb`, `elf`, `fill`, `devices`, `guest`. `idx` and `off` are the
loop counters, one action is one turn of a loop. `pt` holds the tables by host page,
`data` what was copied into the pages given to the guest. `generate_page_table` takes
and returns tables and heap; `trans_addr` is the software walk, `hw_walk` the
hardware's (external). The flags A and D are left out, and so are offsets within a
page. A walk that would go on in a page that is no table ends as `scribble`.

`ElfAssumption` keeps images to what the ELF header can say and guest memory can hold;
`DeviceAssumption` puts devices inside the Sv39x4 space and outside the memory that
`memory.x` gives the hypervisor. Whether device regions overlap each other or guest
memory is left open: the embedded device tree does.

The heap hands out whole pages, lowest first. The real one is a first-fit allocator
that a table asks for 8-byte alignment only; that page alignment follows all the same
is `TablesAligned` of `Boot`.

### Zicfiss, ZicfissGuest, ShadowStacks

`ssp`, `henv_sse` and `senv_sse` are the fields of `struct Zicfiss`; `senvcfg` is what the
hart's register holds besides. `ptab` is the guest's memory read as tables, `mem` read as
data; a guest page stands for the host page it is mapped to (`WalksAgree` of `GStage`).
`sv39_trans_addr` and `sv57_trans_addr` are the two walks: neither looks at V, a leaf is
an entry with R, W or X, a misaligned superpage is an assert, and where there is no
leaf Sv57 gives the guest a fault while Sv39 is `unreachable!()`. Sv48 is
`unimplemented!()`. `hw_walk` is what the hardware would do for a shadow stack access.

`csr` has the six arms of an access to `ssp`. Its operand is what the slot of rs1 holds among
the saved registers; that of x0 is a slot like the others, written by `set_xreg` and never
refreshed by `hstrap_vector`, so reading `ssp` with CSRRS and x0 changes it. The kernel of
`ZicfissGuest` writes `ssp` with CSRRW from a real register, sets `senvcfg.SSE` with CSRRW or
CSRRS and clears it with CSRRC. A CSRRW that clears the bit leaves it set (`csr_field`).

`instruction` is `Zicfiss::instruction` for SSPUSH and SSPOPCHK, with `ss_push` and
`ss_pop` moving the pointer where the code does: before the translation, before the
comparison. `Result` says what the guest gets. SSRDP is `ssrdp`; SSAMOSWAP is a `todo!()`
and only in `TrapFlow`.

`ZicfissGuest` is the guest (external): threads that call and return, now and then to a
wrong address; a kernel that enables the extension for those that use it, saves and
restores `ssp` when it switches, moves pages out and in, handles the faults and has the
instruction executed again, restarts a thread after a software check, and asks by FWFT
for a shadow stack of its own. `calls` is the history of each thread's calls that have
not returned. `Pinned` says that the kernel keeps the pages a thread may still push to in
memory. `LayoutAssumption` says what page tables the kernel starts with: each page of a
shadow stack has an entry of its own in a table of the last level, lies in an aligned
superpage, or is not mapped, and no two of them share a frame.

The refinement maps the abstract stack of a thread to the words between its pointer and
the base of its region, read from the frames the kernel keeps its pages in (`frame`) or
from where a page was moved out to.

### Boot, Heap

`pc` names the function or statement that comes next. `m` is the machine: device lists,
heap size, kind of IOMMU, and two things the code leaves to chance: whether the build
reads a polled register again, and whether `stimecmp` has expired. `mem` is the heap with
everything taken from it, in units of 8 bytes; each function gives the sequence of its
requests (`map_guest_dtb`, `load_guest_elf`, ...): a page with the tables that mapping
it opens (`Page`), a table alone (`Table`), a vector that grows or is dropped (`Grow`,
`Drop`). `Request` serves one. `Heap` follows
linked_list_allocator: first fit, padding in front of an aligned block stays free, no
remainder below 16 bytes; a growing vector takes the new buffer before it frees the old.

`timer` is due at reset where mtimecmp is 0 (`clint.rs:14`). A pending interrupt precedes
the next step. Of the M-mode handler only the timer arm is here: `mip.MSIP` is 0 until the
guest writes the CLINT and `mie.MEIE` is never set; `TrapFlow` has the whole handler. With `stce` set, what M-mode writes to `mip.STIP` has no effect. `frames`
says that HS boot code has frames on its stack, `smashed` that a trap was taken then.

`queue`, `ddt`, `ddtp` are the IOMMU's queues, directory and mode. `set_queue` takes a page
for a queue and enables it, `poll_queue` is the loop after it; `QueueOn` and `DmaFaults` are
the device (external).

## Runs

| Run | Result | What it shows |
|---|---|---|
| `plic_any_guest` | pass, 933 k states | two sources, two contexts, any guest access and three setups of the passed-through registers besides that of reset: claim, injection and service stay in step |
| `plic_driver` | pass, 176 states | sources that do not overlap: nothing lost, everything served, refinement of `DirectPlic` |
| `plic_overlap` | violation | two overlapping sources: the second claim overwrites the first (`plic.rs:59`) |
| `trap_flow` | pass, 291 k states | all handlers with M interrupts anywhere |
| `trap_deadlock` | violation | a refused access deadlocks (`page_fault_handler.rs:41`, `73`) |
| `trap_vector` | violation | M-mode forwards an instruction guest-page fault into VS-mode at `hstrap_vector` |
| `gstage` | pass, 5.2 k states | 144 combinations of image and device tree, three heap sizes |
| `gstage_embedded` | violation | `host.dtb` of the repository: the initrd mapping replaces the loaded image |
| `gstage_gap` | violation | a gap between segments stays unmapped |
| `zicfiss` | pass, 37 k states | two threads, three modes, three page table layouts, pages moved out and in |
| `zicfiss_retry` | violation | a push that faults and is repeated moves the pointer twice (`zicfiss.rs:64`) |
| `boot` | pass, 6.6 k states | 69 machines from reset to the guest |

What the properties say:

* Until a store goes past the context registers: `ClaimIsInService`, the emulated claim
  names a source the hardware has in service, unless the guest completed that very source
  through another context; `InjectedHasClaim`, VSEIP is up only with a claim;
  `ClaimIsAnnounced`, it stays up as long as there is one, unless the guest completed
  something through another context, which withdraws it (`plic.rs:107`);
  `OtherContextsSilent`, no context but the supervisor's ever holds a claim.
  `ReleasedOnlyByCompletion`, without that condition: a source leaves service only by the
  guest's store of that source to a claim register.
* `NothingLost`: every source in service waits in the claim register or is in the
  driver's hands. `DriverNeverStops`: the driver's accesses never reach a panic or a
  refusal. `EverySourceServed`: a raised source is handled. `ImplementsDirectPlic`: the
  guest cannot tell the emulation from a PLIC of its own.
* `LocksFreeInGuest`, `SpinsOnlyOnRefusedAccess`, `TrapEnds`: no lock outlives a trap,
  and a trap ends unless it is the refused access of `trap_deadlock`, where
  `NoSelfDeadlock` fails. `ResumeAddress`, `PseudoEntry`: the guest resumes at the right
  instruction, and a pseudo exception enters its vector in VS-mode, with SIE clear and the
  mode in SPP (SPIE, which the code only ever sets, is left open).
  `GuestKeepsOutOfVector` fails in `trap_vector`.
* `OwnersDisjoint`, `GuestIsolated`, `RamPrivate`, `NothingElseMapped`: no host page has two
  owners, and the translation takes the guest to its own memory and its devices only (an
  emulated PLIC store past the contexts goes elsewhere, see `Plic`). `WalksAgree`: the
  software walk gives what the hardware's does. `NeverScribbles`: mapping never follows
  a superpage leaf as a table. `ImageLoaded`, `DevicesPassThrough`,
  `ContextRegistersTrap`: what the guest finds when it starts. `WholeMemoryMapped` fails
  in `gstage_gap`, `ImageLoaded` in `gstage_embedded`.
* `NoFalseAlarm`: a thread that returns to where it was called from never gets a software
  check. `ReturnsChecked`: a thread that returns elsewhere never gets away with it.
  `PointerExact`: pointer and enable bit are those of the thread that runs, through
  switches, faults and the kernel's own calls. `StopsOnlyOnMissingPage`: the walks stop the
  hypervisor only for a page that is not there, or in a mode they do not know.
  `ImplementsShadowStacks`: together, a stack per thread.
* `TypeOK` of `Boot`: tables, page blocks, vectors and holes lie in the heap, and page blocks
  (guest memory, queues, directory) on page boundaries. `PagesDisjoint`: no page of the guest, of a table or of the IOMMU overlaps another
  or free memory. `TablesAligned`: the allocator puts every table on a page. It needs
  `HoleForDeviceMap`: the vectors of `Devices::new` leave a hole in front of the guest's
  pages, and the list of regions that `create_device_map` makes just before the device
  tables must fit there. With 23 virtio nodes, or with 12 nodes and 7 PCI ranges, it does
  not, and with neither nodes nor ranges there is no hole; then the tables are misaligned.
  `BootStackIntact`, `NoStrayTrap`: what the timer interrupt pending since reset does not do.
  `DmaConfined`: the directory holds the guest's `hgatp`, for as long as the fault records
  fit the page allocated. `BootCompletes`: the guest is reached.

Bounds and why they are enough:

* `plic_any_guest`: contexts are alike except for the supervisor context the hypervisor
  claims for, so one hart's two contexts are all kinds. The offsets are one of each:
  below the PLIC, each register of both contexts, the first context past the array,
  the one after it, past `CONTEXT_END`. Two sources are enough to have one overwrite
  another. The setups have a source enabled for the supervisor context, for both, and for
  the machine context alone, and equal and different priorities. The theorems have no
  such bounds.
* `plic_driver`: `MaxOutstanding = 1` is the condition under which it holds;
  `plic_overlap` is the same model with 2.
* `trap_flow`: two guest addresses, so that a return to the wrong one is visible; the
  theorems hold for any set.
* `gstage`: pages of two units, so a region may end within a page; tables of four
  entries; 64 guest pages. The layout keeps the order and the relative sizes of the
  `virt` machine: devices below 4 KiB, of several pages, of exactly one and of more
  than one 2 MiB block, and a 1 GiB range; guest memory and device tree under one root
  entry. Images have one to three segments with alignments up to four pages, so that
  rounding runs into the next segment; some are refused. Three initrd positions and
  six lengths give page, block and misaligned mappings. Two heaps run out.
* `zicfiss`: pages of two words and tables of two entries, so that one thread's stack of
  three words crosses a page and the two threads' tables part at the level above. The
  second thread's pages are in a table, in a superpage, or under no table. Two return
  addresses make a right and a wrong one. Stacks of three words and one let calls nest,
  run to the end of a page, and fill the region.
* `boot`: the sizes that matter are real (pages, elements, alignment); only the number of
  guest pages is scaled down, with two pages to a table, so that tables and pages
  alternate. The virtio counts are those where a vector grows (4 to 5), QEMU's 8, and
  both sides of the limit (22, 23); the PCI ranges too (6, 7). Heaps end in the image, in the queues and before the
  directory. `MaxFaultPages` 3 is one more than it takes to reach the directory.

`CHECK_DEADLOCK FALSE` is set where the hart may really stop (panic, spin) or the boot
ends. `plic_driver` checks deadlock.

Fairness:

* `DriverFairness`: the gateway forwards (weak), the guest executes its driver (weak on
  each step), a pending interrupt that is enabled again and again is taken (strong:
  the hart looks before each instruction, and masking now and then does not clear
  it). Nothing is assumed of devices, nor that the guest masks.
* `FairSpec`: the hart executes instructions, so the handler that runs takes its next
  step unless it spins (weak).
* `Fairness` of `Boot`: the hart executes and takes its interrupts, and an enabled queue
  comes on (weak), which is what the IOMMU's specification promises. Nothing is assumed
  of the guest or of devices.

## Proofs

Each theorem holds for every value of the constants that satisfies the named
assumptions of its module; the runs evaluate those assumptions on their instances.

`PlicProofs`: for every set of sources, number of harts, register layout and set of
guest accesses (`IrqAssumption`, `SizeAssumption`, `GuestAssumption`).
The invariant is the type invariant and the four state properties together: a completion
through another context withdraws VSEIP and clears nothing of the supervisor context, so
`InjectedHasClaim` needs `OtherContextsSilent`, and `ClaimIsInService` and
`ClaimIsAnnounced` need `foreign` to remember it. All four are conditional on `intact`; the
action property `ReleasedOnlyByCompletion` is not.

`PlicDriverProofs`: that the driver's register addresses decode to the context and
register it means (`Decoded`) is arithmetic over any register layout; from it
`DriverNeverStops` for any number of overlapping sources. `NothingLost` and the
refinement of `DirectPlic` are proved for `MaxOutstanding = 1`, the condition that
`plic_overlap` shows to be needed. Their invariant (`SingleIInv`) adds that the one source
the devices have raised is in one place only: pending, in the claim register, or in the
driver's hands. The refinement is the safety part: initial states map to initial
states and every step maps to a step or a stutter of `DirectPlic`.

`TrapFlowProofs`: for every set of guest addresses and vectors that satisfies
`AddressAssumption`. The inductive invariant gives, for each label of the handlers,
which locks are held there (`LockInv`) and what the saved context is
relative to the trapped instruction (`ContextInv`). From it follow `LocksFreeInGuest`,
`SpinsOnlyOnRefusedAccess`, `ResumeAddress` and `PseudoEntry`.

`HeapProofs`: what an allocation hands out was free, is aligned as asked, and is apart
from what stays free; a release gives back that piece and nothing else. First fit
chooses a least element, which exists by well-founded induction on the naturals.

`BootProofs`: for every machine, heap, image and table size (`BootAssumption`). The
invariant has a part for each concern. `InterruptsInv` says which bits the boot has set
by which step, so that no enabled interrupt is pending while there is no vector or
while HS boot code has frames on its stack; `IommuInv` gives the order of `hgatp`, queues,
directory and mode; `MemoryInv` says that everything taken from the heap (`Owners`) is
pairwise apart and apart from the holes, and page blocks aligned (`OwnersOK`). From it follow `TypeOK`, `PagesDisjoint`,
`BootStackIntact`, `NoStrayTrap` and `DmaConfined`.

`BootLayoutProofs`: `TablesAligned`, for every `HeapStart` on a page boundary, heap size,
device tree size, number of pages and tables, and every machine of `HoleForDeviceMap`.
Where a table lies depends on every allocation before it, so the invariant (`LayoutInv`)
describes the holes at each stage of the boot (`StageOK`).

* Before the device lists the heap is one hole that begins on a page boundary, and pages
  and tables are cut off its front (`Fresh`).
* The virtio list grows by doubling. A new buffer is always larger than what the former
  ones left, so it goes behind, and the freed ones join into one hole in front (`Ladder`).
  The PCI list then finds room in that hole, or goes behind (`Growing`); its reach from the
  page boundary is bounded by the number of nodes (`Reach`, at most 180 units).
* The first page of guest memory is aligned by request. It closes the page that holds the
  lists: behind it every hole begins on a page boundary again (`Open`, `Closed`), and no
  page or table fits into the part of the page that is left.
* The list of regions grows at most three times, and the sum of its capacities fits in
  what is left of that page (`CapacitiesFit`, `MapRequests`), so the device tables are
  taken behind it, from page boundaries.

The last step is where the bounds of `HoleForDeviceMap` come from. That of 6 PCI ranges was
found by the proof: 22 virtio nodes alone are not enough, as 12 nodes with 7 ranges show,
and the run has that machine since. That the guest has memory at all (`BootAssumption`)
is needed because without a page of it nothing closes the page of the lists.

`GStageProofs`: for every page size, table length, heap, image and device tree
(`SizeAssumption`, `HeapAssumption`, `ElfAssumption`, `DeviceAssumption`). The argument is
in two layers. Below, about `generate_page_table` as an operator: if the tables form a
tree of three levels (`Sound`), a call either stops, or leaves a tree again in which the
translation (`Mapping`) of the block it maps is the new entry and that of every other
guest page is what it was (`SetBlock`, `NewTable`, `GenerateFacts`); and on such a tree
the software walk and the hardware walk both compute `Mapping` (`WalkFacts`). Above, the
invariant of the boot: tables, copied pages and free heap are disjoint (`Memory`), every
mapped page goes to a page of the guest or of a device (`Maps`), and the loop counters say
what has been mapped so far (`Loops`, `Passes`). From it follow, without conditions,
`TypeOK`, `OwnersDisjoint`, `GuestIsolated`, `WalksAgree`, `RamPrivate`, `NothingElseMapped`
and `DevicesPassThrough`. Three properties depend on the device tree or the image, and
their theorems say on what:

* `NeverScribbles` if no superpage of a device covers a block of a device mapped later
  with smaller pages (`LargerApart`);
* `ContextRegistersTrap` if no region covers the PLIC's context registers (`ContextApart`);
* `ImageLoaded` if no device block covers guest memory or the guest's device tree
  (`DevicesApart`) and no segment, rounded up, covers file contents of an earlier one
  (`SegmentsApart`).

All four hold on every tree and image of the `gstage` run; the embedded tree of
`gstage_embedded` violates `DevicesApart`, and there `ImageLoaded` fails.

`ZicfissProofs`: for every number of threads, set of return addresses, size and place of the
stacks, page and table sizes, and page tables of the kernel (`ZicfissAssumption`,
`GuestAssumption`, `LayoutAssumption`). The invariant has two halves.

* `PagesInv`, whatever the kernel moves out and in: each page of a stack is still where
  the first layout put it (`Placed`), in an entry that is on no other page's way
  (`OwnEntry`), and resident pages have frames of their own. The lemmas below it say that
  a change of one last-level entry changes one walk (`WalkUnchanged`, `EntrySet`), and
  that on such tables the two software walks find the frame that the hardware finds, or
  nothing where the hardware finds nothing (`WalksFind`, `WalksMiss`, `Translated`).
* `StackInv`, if `Pinned`: the enable bit is that of the running thread, its pointer is its
  base less its calls, each word there is the call it stands for, and the pages below
  are resident, so only pops ever fault and are repeated. A store changes one word and
  no word of another thread (`WordStored`, `DifferentWords`).

`TypeOK` and `PagesInv` hold without conditions. `NoFalseAlarm`, `ReturnsChecked`,
`PointerExact`, `StopsOnlyOnMissingPage` and the refinement of `ShadowStacks` are proved
for kernels with `Pinned`; `zicfiss_retry` shows a false alarm without it. The refinement
follows from `StackInv`: what is read back is `calls` (`Remembers`), and each step is a call, a
return, a rejected return, a restart, or none of these.

Only model-checked: liveness under fairness (`EverySourceServed`, `TrapEnds`,
`BootCompletes`), which is out of the prover's reach. Every invariant and every action
property of the passing runs is stated by a theorem, under the conditions named above.

## Findings

1. `plic.rs:59`: overlapping interrupts lose one (`plic_overlap`).
2. `page_fault_handler.rs:41`, `73`: a refused access deadlocks (`trap_deadlock`).
3. `machine/exception.rs:83`: MPV is left set (`trap_vector`).
4. `host.dtb`: the initrd overlaps guest memory (`gstage_embedded`).
5. `guest.rs:213`: gaps in the image stay unmapped (`gstage_gap`).
6. `zicfiss.rs:64`: a repeated push moves the pointer twice (`zicfiss_retry`).

Conditions under which a passing run holds, and which the code does not ensure: no guest
store past the PLIC's context registers (`plic.rs:92`, `101`), at most
22 virtio nodes and 6 PCI ranges, and one of either (`sv39x4.rs:138`), one page of fault records (`iommu.rs:142` announces 32), a
build that reads polled registers again (`iommu.rs:130`), an `stimecmp` that has not
expired at reset (`hypervisor_init.rs:160`).

## Plan

1. The arguments of an ecall on its way from the guest through HS to M-mode.

## Not modelled

* The UART, the RTC and the accessors of `h_extension/csrs.rs` read or write one register
  and keep nothing.
* PCI configuration addresses and device tree parsing: a machine is given by what the
  parsing yields.
* PMP, counter and delegation registers are written once; of the delegation, what
  `TrapFlow` needs (`GuestInstructionFault`).
* The registers of the guest and the arguments of SBI calls.
* Harts other than 0: `hstart` asserts that there is none.
* IOMMU commands and page requests: the code never issues or reads any.
