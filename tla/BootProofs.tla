----------------------------- MODULE BootProofs -----------------------------
(***************************************************************************)
(* The boot is safe for every machine, size of heap, guest image and       *)
(* moment at which an interrupt arrives: its stack is not overwritten, no  *)
(* trap is taken before there is a handler, pages never overlap, and the   *)
(* IOMMU sends every device through the guest's page table.                *)
(***************************************************************************)
EXTENDS Boot, HeapProofs, FiniteSetTheorems, SequenceTheorems

Vecs == {"virtio", "pci", "map"}
Queues == {"cq", "fq", "pq"}
HeapEnd == HeapStart + m.heap

----------------------------------------------------------------------------
(* The inductive invariant                                                 *)

\* The values of the control variables.
FlagsOK ==
    /\ mie \in BOOLEAN /\ stce \in BOOLEAN /\ stip \in BOOLEAN /\ sie \in BOOLEAN
    /\ sstatus_sie \in BOOLEAN /\ frames \in BOOLEAN /\ smashed \in BOOLEAN
    /\ mem_enable \in BOOLEAN
ScalarsOK ==
    /\ m \in Configs
    /\ timer \in {"due", "armed", "off"}
    /\ stvec \in {"reset", "DRAM_BASE", "hstrap_vector"}
    /\ hgatp \in {"Bare", "ROOT_PAGE_TABLE"} /\ ddtp \in {"Off", "Lv1"}
    /\ ddt.iohgatp \in {"invalid", "Bare", "ROOT_PAGE_TABLE", "record"}
    /\ ddt = [at |-> ddt.at, iohgatp |-> ddt.iohgatp]
    /\ fqt \in 0..MaxFaultPages

\* Before hstart has run there is nothing on the stack, nor taken from the heap.
Early == {"_start", "mstart", "enter_hypervisor_mode", "hstart"}

\* The timer that is due since reset is dealt with before hstart has a frame,
\* and can be armed again by the guest only; sie is set after Sstc.
InterruptsInv ==
    /\ reqs # <<>> => pc \notin Early
    /\ frames => timer = "off" /\ pc # "guest"
    /\ timer = "armed" => pc \notin Early
    /\ pc \in {"enter_hypervisor_mode", "hstart"} => mie
    /\ pc \in {"_start", "mstart"} => ~sie
    /\ pc \notin {"_start", "mstart"} => stce
    /\ BootStackIntact
    /\ NoStrayTrap

\* The steps that program the IOMMU.
Programming == {"init_iommu", "cq", "cqon", "fq", "fqon", "pq", "pqon", "ddt"}

\* The directory is set up with every queue on and hgatp written.
IommuInv ==
    /\ queue \in [Queues -> [base : Nat, en : BOOLEAN, on : BOOLEAN]]
    /\ \A q \in Queues : queue[q].on => queue[q].en
    /\ pc \in {"fq", "fqon", "pq", "pqon", "ddt"} => queue["cq"].on
    /\ pc \in {"pq", "pqon", "ddt"} => queue["fq"].on
    /\ pc = "ddt" => queue["pq"].on
    /\ pc \in Programming => hgatp = "ROOT_PAGE_TABLE"
    /\ ddtp = "Lv1" =>
         /\ hgatp = "ROOT_PAGE_TABLE"
         /\ \A q \in Queues : queue[q].on
         /\ fqt <= 1 => ddt.iohgatp = "ROOT_PAGE_TABLE"

\* The pieces of the heap in use, by what they are used for.
Owner(kind, at, len) == [kind |-> kind, at |-> at, len |-> len]
HeapOwners(h) ==
    {Owner("table", t, PAGE_UNITS) : t \in h.tables}
      \cup {Owner("ram", r, PAGE_UNITS) : r \in h.ram}
      \cup {Owner(v, h.vecs[v].at, h.vecs[v].len) : v \in {v \in Vecs : h.vecs[v].len # 0}}
IommuOwners ==
    {Owner(q, queue[q].base, PAGE_UNITS) : q \in {q \in Queues : queue[q].en}}
      \cup {Owner("ddt", ddt.at, PAGE_UNITS) : d \in {ddtp} \ {"Off"}}
Owners == HeapOwners(mem) \cup IommuOwners

\* The kinds that are page blocks.
PageKinds == {"ram", "ddt"} \cup Queues

\* Each lies in the heap, apart from the others and from every hole, and page
\* blocks are on page boundaries.
OwnersOK(own, holes, end) ==
    /\ HolesOK(holes, HeapStart, end)
    /\ \A x \in own : /\ x.at \in Nat /\ x.len \in Nat \ {0}
                      /\ HeapStart <= x.at /\ x.at + x.len <= end
                      /\ ApartFromAll(x, holes)
    /\ \A x, y \in own : x = y \/ Apart(x, y)
    /\ \A x \in own : x.kind \in PageKinds => x.at % PAGE_UNITS = 0

Requests ==
    {Table} \cup {Page(n) : n \in 0..2}
      \cup {Grow(v, n) : v \in Vecs, n \in Nat \ {0}} \cup {Drop(v) : v \in Vecs}

MemType ==
    [holes : SUBSET Piece, last : Nat, tables : SUBSET Nat, ram : SUBSET Nat,
     ok : BOOLEAN, vecs : [Vecs -> [at : Nat, len : Nat]]]

MemoryInv ==
    /\ mem \in MemType
    /\ reqs \in Seq(Requests)
    /\ OwnersOK(Owners, mem.holes, HeapEnd)
    /\ pc = "_start" => Owners = {}

IInv == FlagsOK /\ ScalarsOK /\ InterruptsInv /\ IommuInv /\ MemoryInv

LEMMA MachineFacts ==
    ASSUME ScalarsOK
    PROVE  m.dtb \in Nat /\ m.virtio \in Nat /\ m.heap \in Nat \ {0}
           /\ m.ranges \in Seq({"low", "high"}) /\ HeapStart \in Nat /\ HeapEnd \in Nat
BY BootAssumption DEF ScalarsOK, Machine, HeapEnd

----------------------------------------------------------------------------
(* Interrupts and the IOMMU                                                *)

USE DEF At, Interrupted, interrupts, stack, translation


LEMMA QueueOrder ==
    /\ PollOf["cq"] = "cqon" /\ PollOf["fq"] = "fqon" /\ PollOf["pq"] = "pqon"
    /\ AfterQueue["cq"] = "fq" /\ AfterQueue["fq"] = "pq" /\ AfterQueue["pq"] = "ddt"
BY DEF PollOf, AfterQueue

LEMMA FlagsStep == ASSUME FlagsOK, [Next]_vars PROVE FlagsOK'
<1> USE DEF FlagsOK
<1>1. CASE UNCHANGED vars
  BY <1>1, Zenon DEF vars
<1>2. CASE BootStep
  <2>1. CASE Request
    BY <2>1, Zenon DEF Request
  <2>2. CASE _start
    BY <2>2, Zenon DEF _start
  <2>3. CASE mstart
    BY <2>3, Zenon DEF mstart
  <2>4. CASE enter_hypervisor_mode \/ SetHgatp
    BY <2>4, Zenon DEF enter_hypervisor_mode, SetHgatp
  <2>5. CASE hstart
    BY <2>5, Zenon DEF hstart
  <2>6. CASE Guest_new \/ Devices_new \/ LoadGuestElf \/ FillMemoryRegion \/ DeviceMapping
    BY <2>6, Zenon DEF Guest_new, Devices_new, LoadGuestElf, FillMemoryRegion, DeviceMapping, Allocating
  <2>7. CASE init_iommu
    BY <2>7, Zenon DEF init_iommu
  <2>8. CASE set_ddtp
    BY <2>8, Zenon DEF set_ddtp
  <2>9. CASE \E q \in Queues : set_queue(q) \/ poll_queue(q)
    BY <2>9, Zenon DEF set_queue, poll_queue
  <2>10. CASE SetSstatus \/ SetStvec
    BY <2>10, Zenon DEF SetSstatus, SetStvec
  <2>11. CASE hart_entry
    BY <2>11, Zenon DEF hart_entry
  <2>12. QED
    BY <1>2, <2>1, <2>2, <2>3, <2>4, <2>5, <2>6, <2>7, <2>8, <2>9, <2>10, <2>11, Zenon DEF BootStep, Queues
<1>3. CASE mtrap_vector
  BY <1>3, Zenon DEF mtrap_vector
<1>4. CASE StrayTrap
  BY <1>4, Zenon DEF StrayTrap
<1>5. CASE GuestSetTimer \/ TimerExpires
  BY <1>5, Zenon DEF GuestSetTimer, TimerExpires
<1>6. CASE DmaFaults
  BY <1>6, Zenon DEF DmaFaults
<1>7. CASE \E q \in Queues : QueueOn(q)
  BY <1>7, Zenon DEF QueueOn
<1>8. QED
  BY <1>1, <1>2, <1>3, <1>4, <1>5, <1>6, <1>7, Zenon DEF Next, Queues

LEMMA ScalarsStep == ASSUME ScalarsOK, [Next]_vars PROVE ScalarsOK'
<1> USE DEF ScalarsOK
<1>1. CASE UNCHANGED vars
  BY <1>1, Zenon DEF vars
<1>2. CASE BootStep
  <2>1. CASE Request
    BY <2>1, Zenon DEF Request
  <2>2. CASE _start
    BY <2>2, Zenon DEF _start
  <2>3. CASE mstart \/ enter_hypervisor_mode \/ hstart
    BY <2>3, Zenon DEF mstart, enter_hypervisor_mode, hstart
  <2>4. CASE Guest_new \/ Devices_new \/ LoadGuestElf \/ FillMemoryRegion \/ DeviceMapping
    BY <2>4, Zenon DEF Guest_new, Devices_new, LoadGuestElf, FillMemoryRegion, DeviceMapping, Allocating
  <2>5. CASE SetHgatp
    BY <2>5, Zenon DEF SetHgatp
  <2>6. CASE init_iommu
    BY <2>6, Zenon DEF init_iommu
  <2>7. CASE set_ddtp
    <3>1. mem'.ok => /\ ddt'.iohgatp = hgatp /\ ddtp' = "Lv1"
                     /\ ddt' = [at |-> ddt'.at, iohgatp |-> ddt'.iohgatp]
      BY <2>7 DEF set_ddtp, init_page_table
    <3>2. ~mem'.ok => UNCHANGED <<ddt, ddtp>>
      BY <2>7, Zenon DEF set_ddtp
    <3>3. UNCHANGED <<m, interrupts, stack, hgatp, fqt>>
      BY <2>7, Zenon DEF set_ddtp
    <3>4. QED
      BY <3>1, <3>2, <3>3, Zenon
  <2>8. CASE \E q \in Queues : set_queue(q) \/ poll_queue(q)
    BY <2>8, Zenon DEF set_queue, poll_queue
  <2>9. CASE SetSstatus \/ SetStvec \/ hart_entry
    BY <2>9, Zenon DEF SetSstatus, SetStvec, hart_entry
  <2>10. QED
    BY <1>2, <2>1, <2>2, <2>3, <2>4, <2>5, <2>6, <2>7, <2>8, <2>9, Zenon DEF BootStep, Queues
<1>3. CASE mtrap_vector \/ StrayTrap
  BY <1>3, Zenon DEF mtrap_vector, StrayTrap
<1>4. CASE GuestSetTimer \/ TimerExpires
  BY <1>4, Zenon DEF GuestSetTimer, TimerExpires
<1>5. CASE DmaFaults
  <2>1. fqt' \in 0..MaxFaultPages
    BY <1>5, BootAssumption DEF DmaFaults
  <2>2. ddt' = [ddt EXCEPT !.iohgatp = "record"] \/ ddt' = ddt
    BY <1>5, Zenon DEF DmaFaults
  <2>3. UNCHANGED <<m, interrupts, hgatp, ddtp>>
    BY <1>5, Zenon DEF DmaFaults
  <2>4. /\ ddt'.iohgatp \in {"invalid", "Bare", "ROOT_PAGE_TABLE", "record"}
        /\ ddt' = [at |-> ddt'.at, iohgatp |-> ddt'.iohgatp]
    BY <2>2
  <2>5. QED
    BY <2>1, <2>3, <2>4, Zenon
<1>6. CASE \E q \in Queues : QueueOn(q)
  BY <1>6, Zenon DEF QueueOn
<1>7. QED
  BY <1>1, <1>2, <1>3, <1>4, <1>5, <1>6, Zenon DEF Next, Queues

\* A step of the boot after hstart that leaves interrupts and stack alone.
LEMMA CalmStep ==
    ASSUME InterruptsInv, UNCHANGED <<m, interrupts, stack>>, pc \notin Early,
           pc' \notin Early, pc' # "guest",
           pc' \notin {"_start in HS-mode", "hstrap_vector without a stack"} \/ pc' = pc
    PROVE  InterruptsInv'
BY DEF InterruptsInv, BootStackIntact, NoStrayTrap, Early

LEMMA InterruptsStep ==
    ASSUME FlagsOK, ScalarsOK, InterruptsInv, [Next]_vars PROVE InterruptsInv'
<1> USE DEF InterruptsInv, BootStackIntact, NoStrayTrap, Early
<1>1. CASE UNCHANGED vars
  BY <1>1, Zenon DEF vars
<1>2. CASE BootStep
  <2>1. CASE Request
    <3>1. CASE mem'.ok
      BY <2>1, <3>1 DEF Request
    <3>2. CASE ~mem'.ok
      BY <2>1, <3>2, CalmStep DEF Request
    <3>3. QED
      BY <3>1, <3>2
  <2>2. CASE _start
    BY <2>2 DEF _start
  <2>3. CASE mstart
    BY <2>3 DEF mstart
  <2>4. CASE enter_hypervisor_mode
    BY <2>4 DEF enter_hypervisor_mode
  <2>5. CASE hstart
    BY <2>5 DEF hstart, MTimerPending, MachineMode, Stopped, ScalarsOK
  <2>6. CASE Guest_new \/ Devices_new \/ LoadGuestElf \/ FillMemoryRegion \/ DeviceMapping
    BY <2>6, CalmStep DEF Guest_new, Devices_new, LoadGuestElf, FillMemoryRegion, DeviceMapping, Allocating
  <2>7. CASE SetHgatp
    BY <2>7, CalmStep DEF SetHgatp
  <2>8. CASE init_iommu
    <3>1. pc = "init_iommu" /\ pc' \in {"sstatus", "panic", "cq"}
      BY <2>8 DEF init_iommu
    <3>2. QED
      BY <2>8, <3>1, CalmStep DEF init_iommu
  <2>9. CASE set_ddtp
    <3>1. pc = "ddt" /\ pc' \in {"sstatus", "panic"}
      BY <2>9, Zenon DEF set_ddtp
    <3>2. QED
      BY <2>9, <3>1, CalmStep DEF set_ddtp
  <2>10. CASE \E q \in Queues : set_queue(q) \/ poll_queue(q)
    <3>1. PICK q \in Queues : set_queue(q) \/ poll_queue(q)
      BY <2>10
    <3>2. pc \in {"cq", "fq", "pq", "cqon", "fqon", "pqon"}
      BY <3>1, QueueOrder DEF set_queue, poll_queue, Queues
    <3>3. pc' \in {"cqon", "fqon", "pqon", "fq", "pq", "ddt", "panic", "spin"}
      BY <3>1, QueueOrder DEF set_queue, poll_queue, Queues
    <3>4. UNCHANGED <<m, interrupts, stack>>
      BY <3>1, Zenon DEF set_queue, poll_queue
    <3>5. QED
      BY <3>2, <3>3, <3>4, CalmStep
  <2>11. CASE SetSstatus \/ SetStvec
    <3>1. CASE SetSstatus
      BY <3>1 DEF SetSstatus
    <3>2. CASE SetStvec
      BY <3>2 DEF SetStvec
    <3>3. QED
      BY <2>11, <3>1, <3>2
  <2>12. CASE hart_entry
    BY <2>12 DEF hart_entry
  <2>13. QED
    BY <1>2, <2>1, <2>2, <2>3, <2>4, <2>5, <2>6, <2>7, <2>8, <2>9, <2>10, <2>11, <2>12, Zenon
       DEF BootStep, Queues
<1>3. CASE mtrap_vector
  BY <1>3 DEF mtrap_vector, MTimerPending
<1>4. CASE StrayTrap
  BY <1>4 DEF StrayTrap, STimerPending
<1>5. CASE GuestSetTimer
  BY <1>5 DEF GuestSetTimer
<1>6. CASE TimerExpires
  BY <1>6 DEF TimerExpires
<1>7. CASE DmaFaults
  BY <1>7 DEF DmaFaults
<1>8. CASE \E q \in Queues : QueueOn(q)
  <2>1. UNCHANGED <<m, pc, reqs, interrupts, stack>>
    BY <1>8, Zenon DEF QueueOn
  <2>2. QED
    BY <2>1
<1>9. QED
  BY <1>1, <1>2, <1>3, <1>4, <1>5, <1>6, <1>7, <1>8, Zenon DEF Next, Queues

----------------------------------------------------------------------------
(* The heap                                                                *)

LEMMA OwnersSubset ==
    ASSUME NEW own, NEW holes, NEW end, OwnersOK(own, holes, end), NEW less \in SUBSET own
    PROVE  OwnersOK(less, holes, end)
BY Zenon DEF OwnersOK

\* The heap b after a successful or failed allocation of a piece for kind.
TakenOK(h, b, own, end, kind, size, align) ==
    /\ b \in MemType
    /\ b.tables = h.tables /\ b.ram = h.ram /\ b.vecs = h.vecs
    /\ OwnersOK(own, b.holes, end)
    /\ b.ok => /\ OwnersOK(own \cup {Owner(kind, b.last, size)}, b.holes, end)
               /\ \A x \in own : Apart(x, Owner(kind, b.last, size))
               /\ b.last % align = 0

\* A piece taken from the heap is apart from every piece in use.
LEMMA TakeOK ==
    ASSUME NEW h \in MemType, NEW own, NEW end \in Nat, OwnersOK(own, h.holes, end),
           NEW size \in Nat \ {0}, NEW align \in Nat \ {0}, NEW kind,
           kind \in PageKinds => align = PAGE_UNITS
    PROVE  TakenOK(h, take(h, size, align), own, end, kind, size, align)
<1> DEFINE b == take(h, size, align)
           new == Owner(kind, b.last, size)
           a == allocate(h.holes, size, align)
<1>s. HeapStart \in Nat
  BY BootAssumption
<1>h. h.holes \subseteq Piece /\ HolesOK(h.holes, HeapStart, end)
  BY DEF MemType, OwnersOK
<1>1. CASE ~(h.ok /\ Candidates(h.holes, size, align) # {})
  <2>1. b = [h EXCEPT !.ok = FALSE]
    BY <1>1, Zenon DEF take
  <2>2. b \in MemType /\ b.holes = h.holes /\ ~b.ok
        /\ b.tables = h.tables /\ b.ram = h.ram /\ b.vecs = h.vecs
    BY <2>1 DEF MemType
  <2> HIDE DEF b
  <2>3. TakenOK(h, b, own, end, kind, size, align)
    BY <2>2 DEF TakenOK
  <2>4. QED
    BY <2>3 DEF b
<1>2. CASE h.ok /\ Candidates(h.holes, size, align) # {}
  <2>1. b = [h EXCEPT !.holes = a.holes, !.last = a.at]
    BY <1>2, Zenon DEF take
  <2>2. /\ a.at \in Nat /\ HeapStart <= a.at /\ a.at + size <= end
        /\ a.at % align = 0
        /\ HolesOK(a.holes, HeapStart, end)
        /\ ApartFromAll(Hole(a.at, size), a.holes)
        /\ \A x \in Piece : ApartFromAll(x, h.holes)
               => Apart(x, Hole(a.at, size)) /\ ApartFromAll(x, a.holes)
    BY <1>2, <1>s, <1>h, AllocateFacts
  <2> HIDE DEF a
  <2>3. b \in MemType /\ b.holes = a.holes /\ b.last = a.at
        /\ b.tables = h.tables /\ b.ram = h.ram /\ b.vecs = h.vecs
    BY <2>1, <2>2 DEF MemType, HolesOK
  <2> HIDE DEF b
  <2>4. /\ new.at = a.at /\ new.len = size /\ ApartFromAll(new, b.holes)
        /\ new.kind \in PageKinds => new.at % PAGE_UNITS = 0
    BY <2>2, <2>3 DEF Owner, ApartFromAll, Apart, Hole
  <2>5. ASSUME NEW x \in own
        PROVE  /\ x.at \in Nat /\ x.len \in Nat \ {0}
               /\ HeapStart <= x.at /\ x.at + x.len <= end
               /\ Apart(x, new) /\ Apart(new, x) /\ ApartFromAll(x, b.holes)
    <3>1. /\ x.at \in Nat /\ x.len \in Nat \ {0}
          /\ HeapStart <= x.at /\ x.at + x.len <= end /\ ApartFromAll(x, h.holes)
      BY DEF OwnersOK
    <3>2. Hole(x.at, x.len) \in Piece /\ ApartFromAll(Hole(x.at, x.len), h.holes)
      BY <3>1 DEF Piece, Hole, ApartFromAll, Apart
    <3>3. Apart(Hole(x.at, x.len), Hole(a.at, size)) /\ ApartFromAll(Hole(x.at, x.len), b.holes)
      BY <2>2, <2>3, <3>2
    <3>4. QED
      BY <2>4, <3>1, <3>3 DEF Hole, ApartFromAll, Apart
  <2> HIDE DEF new
  <2>6. OwnersOK(own \cup {new}, b.holes, end)
    <3>1. HolesOK(b.holes, HeapStart, end)
      BY <2>2, <2>3
    <3>2. \A x \in own \cup {new} :
             /\ x.at \in Nat /\ x.len \in Nat \ {0}
             /\ HeapStart <= x.at /\ x.at + x.len <= end /\ ApartFromAll(x, b.holes)
      BY <2>2, <2>4, <2>5
    <3>3. \A x, y \in own \cup {new} : x = y \/ Apart(x, y)
      BY <2>5, Zenon DEF OwnersOK
    <3>4. \A x \in own \cup {new} : x.kind \in PageKinds => x.at % PAGE_UNITS = 0
      BY <2>4, Zenon DEF OwnersOK
    <3>5. QED
      BY <3>1, <3>2, <3>3, <3>4, Zenon DEF OwnersOK
  <2>7. OwnersOK(own, b.holes, end)
    BY <2>6, OwnersSubset
  <2>8. TakenOK(h, b, own, end, kind, size, align)
    BY <2>2, <2>3, <2>5, <2>6, <2>7 DEF TakenOK, new
  <2>9. QED
    BY <2>8 DEF b
<1>3. QED
  BY <1>1, <1>2

\* A piece that is freed overlaps nothing that is still in use.
LEMMA ReleaseOK ==
    ASSUME NEW own, NEW holes, NEW end \in Nat, OwnersOK(own, holes, end), NEW x \in own
    PROVE  OwnersOK(own \ {x}, deallocate(holes, x.at, x.len), end)
<1> DEFINE free == deallocate(holes, x.at, x.len)
<1>1. /\ HolesOK(holes, HeapStart, end) /\ HeapStart \in Nat
      /\ x.at \in Nat /\ x.len \in Nat \ {0} /\ HeapStart <= x.at /\ x.at + x.len <= end
      /\ ApartFromAll(Hole(x.at, x.len), holes)
  BY BootAssumption DEF OwnersOK, ApartFromAll, Apart, Hole
<1>2. /\ HolesOK(free, HeapStart, end)
      /\ \A y \in Piece : Apart(y, Hole(x.at, x.len)) /\ ApartFromAll(y, holes)
                              => ApartFromAll(y, free)
  BY <1>1, DeallocateFacts
<1> HIDE DEF free
<1>3. ASSUME NEW y \in own \ {x}
      PROVE  /\ y.at \in Nat /\ y.len \in Nat \ {0}
             /\ HeapStart <= y.at /\ y.at + y.len <= end /\ ApartFromAll(y, free)
  <2>1. /\ y.at \in Nat /\ y.len \in Nat \ {0} /\ Apart(y, x)
        /\ HeapStart <= y.at /\ y.at + y.len <= end /\ ApartFromAll(y, holes)
    BY Zenon DEF OwnersOK
  <2>2. /\ Hole(y.at, y.len) \in Piece
        /\ Apart(Hole(y.at, y.len), Hole(x.at, x.len))
        /\ ApartFromAll(Hole(y.at, y.len), holes)
    BY <2>1 DEF Piece, Hole, ApartFromAll, Apart
  <2>3. ApartFromAll(Hole(y.at, y.len), free)
    BY <1>2, <2>2
  <2>4. QED
    BY <2>1, <2>3 DEF Hole, ApartFromAll, Apart
<1>4. QED
  BY <1>2, <1>3, Zenon DEF OwnersOK, free

LEMMA HeapOwnersCases ==
    ASSUME NEW h, NEW x \in HeapOwners(h)
    PROVE  \/ \E t \in h.tables : x = Owner("table", t, PAGE_UNITS)
           \/ \E r \in h.ram : x = Owner("ram", r, PAGE_UNITS)
           \/ \E v \in Vecs : h.vecs[v].len # 0 /\ x = Owner(v, h.vecs[v].at, h.vecs[v].len)
BY DEF HeapOwners

\* A request served keeps everything in use apart, what is not of the heap's
\* own structures (other) included.
LEMMA ServeOK ==
    ASSUME NEW h \in MemType, NEW r \in Requests, NEW end \in Nat,
           NEW other, \A x \in other : x.kind \notin Vecs,
           OwnersOK(HeapOwners(h) \cup other, h.holes, end)
    PROVE  /\ Serve(h, r) \in MemType
           /\ OwnersOK(HeapOwners(Serve(h, r)) \cup other, Serve(h, r).holes, end)
<1> DEFINE own == HeapOwners(h) \cup other
<1>0. PAGE_UNITS \in Nat \ {0} /\ 1 \in Nat \ {0} /\ OwnersOK(own, h.holes, end)
  BY DEF PAGE_UNITS
<1>1. CASE r \in {Page(n) : n \in 0..2}
  <2>1. Serve(h, r) = guest_page(h)
    BY <1>1 DEF Page, Serve
  <2> DEFINE b == alloc(h)
  <2>2. /\ b \in MemType /\ b.tables = h.tables /\ b.ram = h.ram /\ b.vecs = h.vecs
        /\ OwnersOK(own, b.holes, end)
        /\ b.ok => OwnersOK(own \cup {Owner("ram", b.last, PAGE_UNITS)}, b.holes, end)
    <3> HIDE DEF own
    <3>1. TakenOK(h, b, own, end, "ram", PAGE_UNITS, PAGE_UNITS)
      BY <1>0, TakeOK DEF alloc
    <3>2. QED
      BY <3>1 DEF TakenOK
  <2>3. guest_page(h) = IF b.ok THEN [b EXCEPT !.ram = @ \cup {b.last}] ELSE b
    BY DEF guest_page
  <2> HIDE DEF b
  <2>4. CASE b.ok
    <3> DEFINE g == [b EXCEPT !.ram = @ \cup {b.last}]
    <3>1. g \in MemType /\ g.holes = b.holes /\ g.tables = h.tables /\ g.vecs = h.vecs
          /\ g.ram = h.ram \cup {b.last}
      BY <2>2 DEF MemType
    <3> HIDE DEF g
    <3>2. HeapOwners(g) \cup other \subseteq own \cup {Owner("ram", b.last, PAGE_UNITS)}
      BY <3>1, Zenon DEF HeapOwners
    <3>3. OwnersOK(HeapOwners(g) \cup other, g.holes, end)
      BY <2>2, <2>4, <3>1, <3>2, OwnersSubset
    <3>4. Serve(h, r) = g
      BY <2>1, <2>3, <2>4, Zenon DEF g
    <3>5. QED
      BY <3>1, <3>3, <3>4
  <2>5. CASE ~b.ok
    <3>1. HeapOwners(b) = HeapOwners(h)
      BY <2>2, Zenon DEF HeapOwners
    <3>2. QED
      BY <2>1, <2>2, <2>3, <2>5, <3>1
  <2>6. QED
    BY <2>4, <2>5
<1>2. CASE r = Table
  <2>1. Serve(h, r) = new_table(h)
    BY <1>2 DEF Table, Serve
  <2> DEFINE b == take(h, PAGE_UNITS, 1)
  <2>2. /\ b \in MemType /\ b.tables = h.tables /\ b.ram = h.ram /\ b.vecs = h.vecs
        /\ OwnersOK(own, b.holes, end)
        /\ b.ok => OwnersOK(own \cup {Owner("table", b.last, PAGE_UNITS)}, b.holes, end)
    <3> HIDE DEF own
    <3>1. TakenOK(h, b, own, end, "table", PAGE_UNITS, 1)
      BY <1>0, TakeOK DEF PageKinds, Queues
    <3>2. QED
      BY <3>1 DEF TakenOK
  <2>3. new_table(h) = IF b.ok THEN [b EXCEPT !.tables = @ \cup {b.last}] ELSE b
    BY DEF new_table
  <2> HIDE DEF b
  <2>4. CASE b.ok
    <3> DEFINE g == [b EXCEPT !.tables = @ \cup {b.last}]
    <3>1. g \in MemType /\ g.holes = b.holes /\ g.ram = h.ram /\ g.vecs = h.vecs
          /\ g.tables = h.tables \cup {b.last}
      BY <2>2 DEF MemType
    <3> HIDE DEF g
    <3>2. HeapOwners(g) \cup other \subseteq own \cup {Owner("table", b.last, PAGE_UNITS)}
      BY <3>1, Zenon DEF HeapOwners
    <3>3. OwnersOK(HeapOwners(g) \cup other, g.holes, end)
      BY <2>2, <2>4, <3>1, <3>2, OwnersSubset
    <3>4. Serve(h, r) = g
      BY <2>1, <2>3, <2>4, Zenon DEF g
    <3>5. QED
      BY <3>1, <3>3, <3>4
  <2>5. CASE ~b.ok
    <3>1. HeapOwners(b) = HeapOwners(h)
      BY <2>2, Zenon DEF HeapOwners
    <3>2. QED
      BY <2>1, <2>2, <2>3, <2>5, <3>1
  <2>6. QED
    BY <2>4, <2>5
<1>3. CASE r \in {Grow(v, n) : v \in Vecs, n \in Nat \ {0}}
  <2>0. PICK v \in Vecs, n \in Nat \ {0} : r = Grow(v, n)
    BY <1>3
  <2>1. Serve(h, r) = grow(h, v, n)
    BY <2>0 DEF Grow, Serve
  <2> DEFINE b == take(h, n, 1)
             new == Owner(v, b.last, n)
             old == b.vecs[v]
  <2>2. /\ b \in MemType /\ b.tables = h.tables /\ b.ram = h.ram /\ b.vecs = h.vecs
        /\ OwnersOK(own, b.holes, end)
        /\ b.ok => /\ OwnersOK(own \cup {new}, b.holes, end)
                   /\ \A x \in own : Apart(x, new)
    <3> HIDE DEF own
    <3>0. v \notin PageKinds
      BY DEF PageKinds, Queues, Vecs
    <3>1. TakenOK(h, b, own, end, v, n, 1)
      BY <1>0, <3>0, TakeOK
    <3>2. QED
      BY <3>1 DEF TakenOK
  <2>3. grow(h, v, n) = IF b.ok THEN [release(b, old) EXCEPT !.vecs[v] = [at |-> b.last, len |-> n]]
                        ELSE b
    BY DEF grow
  <2> HIDE DEF b
  <2>4. CASE b.ok
    <3> DEFINE rel == release(b, old)
               g == [rel EXCEPT !.vecs[v] = [at |-> b.last, len |-> n]]
    <3>1. old.at \in Nat /\ old.len \in Nat /\ b.last \in Nat
      BY <2>2 DEF MemType
    <3>2. CASE old.len = 0
      <4>1. rel = b
        BY <3>2, Zenon DEF release
      <4>2. g \in MemType /\ g.holes = b.holes /\ g.tables = h.tables /\ g.ram = h.ram
            /\ g.vecs = [h.vecs EXCEPT ![v] = [at |-> b.last, len |-> n]]
        BY <2>2, <4>1 DEF MemType
      <4> HIDE DEF g
      <4>3. ASSUME NEW x \in HeapOwners(g) PROVE x \in own \cup {new}
        BY <2>2, <4>2, <4>3, HeapOwnersCases DEF HeapOwners, MemType
      <4>4. QED
        BY <2>1, <2>2, <2>3, <2>4, <4>2, <4>3, OwnersSubset DEF g
    <3>3. CASE old.len # 0
      <4> DEFINE o == Owner(v, old.at, old.len)
                 free == deallocate(b.holes, old.at, old.len)
      <4>1. o \in own /\ o.at = old.at /\ o.len = old.len
        BY <2>2, <3>3 DEF HeapOwners, Owner
      <4>2. OwnersOK((own \cup {new}) \ {o}, free, end)
        BY <2>2, <2>4, <4>1, ReleaseOK
      <4>3. rel = [b EXCEPT !.holes = free]
        BY <3>3, Zenon DEF release
      <4>4. free \subseteq Piece
        BY <4>2 DEF OwnersOK, HolesOK
      <4> HIDE DEF free
      <4>5. g \in MemType /\ g.holes = free /\ g.tables = h.tables /\ g.ram = h.ram
            /\ g.vecs = [h.vecs EXCEPT ![v] = [at |-> b.last, len |-> n]]
        BY <2>2, <4>3, <4>4 DEF MemType
      <4> HIDE DEF g
      <4>6. o # new
        <5>1. Apart(o, new) /\ new.at = b.last /\ new.len = n
          BY <2>2, <2>4, <4>1 DEF Owner
        <5>2. QED
          BY <3>1, <3>3, <4>1, <5>1 DEF Apart
      <4>7. ASSUME NEW x \in HeapOwners(g) PROVE x \in (own \cup {new}) \ {o}
        <5>1. CASE \E t \in g.tables : x = Owner("table", t, PAGE_UNITS)
          BY <4>5, <5>1 DEF HeapOwners, Owner, Vecs
        <5>2. CASE \E t \in g.ram : x = Owner("ram", t, PAGE_UNITS)
          BY <4>5, <5>2 DEF HeapOwners, Owner, Vecs
        <5>3. CASE \E w \in Vecs : g.vecs[w].len # 0 /\ x = Owner(w, g.vecs[w].at, g.vecs[w].len)
          <6>1. PICK w \in Vecs : g.vecs[w].len # 0 /\ x = Owner(w, g.vecs[w].at, g.vecs[w].len)
            BY <5>3
          <6>2. CASE w = v
            <7>1. g.vecs[w] = [at |-> b.last, len |-> n]
              BY <4>5, <6>2, <2>2 DEF MemType
            <7>2. QED
              BY <4>6, <6>1, <6>2, <7>1
          <6>3. CASE w # v
            <7>1. g.vecs[w] = h.vecs[w]
              BY <4>5, <6>3, <2>2 DEF MemType
            <7>2. x \in own /\ x # o
              BY <6>1, <6>3, <7>1 DEF HeapOwners, Owner
            <7>3. QED
              BY <7>2
          <6>4. QED
            BY <6>2, <6>3
        <5>4. QED
          BY <5>1, <5>2, <5>3, HeapOwnersCases
      <4>8. ASSUME NEW x \in other PROVE x # o
        BY DEF Owner
      <4>9. HeapOwners(g) \cup other \subseteq (own \cup {new}) \ {o}
        BY <4>7, <4>8
      <4>10. QED
        BY <2>1, <2>3, <2>4, <4>2, <4>5, <4>9, OwnersSubset DEF g
    <3>4. QED
      BY <3>2, <3>3
  <2>5. CASE ~b.ok
    <3>1. HeapOwners(b) = HeapOwners(h)
      BY <2>2, Zenon DEF HeapOwners
    <3>2. QED
      BY <2>1, <2>2, <2>3, <2>5, <3>1
  <2>6. QED
    BY <2>4, <2>5
<1>4. CASE r \in {Drop(v) : v \in Vecs}
  <2>0. PICK v \in Vecs : r = Drop(v)
    BY <1>4
  <2> DEFINE old == h.vecs[v]
             rel == release(h, old)
             g == [rel EXCEPT !.vecs[v] = None]
  <2>1. Serve(h, r) = g
    BY <2>0 DEF Drop, Serve
  <2>2. old.at \in Nat /\ old.len \in Nat
    BY DEF MemType
  <2>3. CASE old.len = 0
    <3>1. rel = h
      BY <2>3, Zenon DEF release
    <3>2. g \in MemType /\ g.holes = h.holes /\ g.tables = h.tables /\ g.ram = h.ram
          /\ g.vecs = [h.vecs EXCEPT ![v] = None]
      BY <3>1 DEF MemType, None
    <3> HIDE DEF g
    <3>3. ASSUME NEW x \in HeapOwners(g) PROVE x \in own
      BY <3>2, HeapOwnersCases DEF HeapOwners, MemType, None
    <3>4. QED
      BY <2>1, <3>2, <3>3, OwnersSubset
  <2>4. CASE old.len # 0
    <3> DEFINE o == Owner(v, old.at, old.len)
               free == deallocate(h.holes, old.at, old.len)
    <3>1. o \in own /\ o.at = old.at /\ o.len = old.len
      BY <2>4 DEF HeapOwners, Owner
    <3>2. OwnersOK(own \ {o}, free, end)
      BY <3>1, ReleaseOK
    <3>3. rel = [h EXCEPT !.holes = free]
      BY <2>4, Zenon DEF release
    <3>4. free \subseteq Piece
      BY <3>2 DEF OwnersOK, HolesOK
    <3> HIDE DEF free
    <3>5. g \in MemType /\ g.holes = free /\ g.tables = h.tables /\ g.ram = h.ram
          /\ g.vecs = [h.vecs EXCEPT ![v] = None]
      BY <3>3, <3>4 DEF MemType, None
    <3> HIDE DEF g
    <3>6. ASSUME NEW x \in HeapOwners(g) PROVE x \in own \ {o}
      <4>1. CASE \E t \in g.tables : x = Owner("table", t, PAGE_UNITS)
        BY <3>5, <4>1 DEF HeapOwners, Owner, Vecs
      <4>2. CASE \E t \in g.ram : x = Owner("ram", t, PAGE_UNITS)
        BY <3>5, <4>2 DEF HeapOwners, Owner, Vecs
      <4>3. CASE \E w \in Vecs : g.vecs[w].len # 0 /\ x = Owner(w, g.vecs[w].at, g.vecs[w].len)
        <5>1. PICK w \in Vecs : g.vecs[w].len # 0 /\ x = Owner(w, g.vecs[w].at, g.vecs[w].len)
          BY <4>3
        <5>2. w # v /\ g.vecs[w] = h.vecs[w]
          BY <3>5, <5>1 DEF MemType, None
        <5>3. QED
          BY <5>1, <5>2 DEF HeapOwners, Owner
      <4>4. QED
        BY <4>1, <4>2, <4>3, HeapOwnersCases
    <3>7. ASSUME NEW x \in other PROVE x # o
      BY DEF Owner
    <3>8. HeapOwners(g) \cup other \subseteq own \ {o}
      BY <3>6, <3>7
    <3>9. QED
      BY <2>1, <3>2, <3>5, <3>8, OwnersSubset
  <2>5. QED
    BY <2>3, <2>4
<1>5. QED
  BY <1>1, <1>2, <1>3, <1>4 DEF Requests

----------------------------------------------------------------------------
(* The requests                                                            *)

LEMMA RequestTypes ==
    /\ Table \in Requests
    /\ \A n \in 0..2 : Page(n) \in Requests
    /\ \A v \in Vecs, n \in Nat \ {0} : Grow(v, n) \in Requests
    /\ \A v \in Vecs : Drop(v) \in Requests
BY DEF Requests

LEMMA ListOf ==
    ASSUME NEW S, NEW n \in Nat, NEW f, f \in [1..n -> S]
    PROVE  f \in Seq(S)
BY SeqDef

LEMMA PushAllTyped ==
    ASSUME NEW v \in Vecs, NEW unit \in Nat \ {0}, NEW n
    PROVE  PushAll(v, unit, n) \in Seq(Requests)
<1> DEFINE needed == {k \in 1..Len(CAPACITIES) : n > (IF k = 1 THEN 0 ELSE CAPACITIES[k - 1])}
<1>1. Len(CAPACITIES) = 9
  BY DEF CAPACITIES
<1>2. IsFiniteSet(1..9) /\ Cardinality(1..9) = 9
  <2>1. 1 \in Int /\ 9 \in Int /\ 9 = 9 - 1 + 1 /\ ~(1 > 9)
    OBVIOUS
  <2>2. IsFiniteSet(1..9) /\ Cardinality(1..9) = IF 1 > 9 THEN 0 ELSE 9 - 1 + 1
    BY <2>1, FS_Interval, Zenon
  <2>3. QED
    BY <2>1, <2>2
<1>3. needed \subseteq 1..9
  BY <1>1
<1> HIDE DEF needed
<1>4. Cardinality(needed) \in Nat /\ Cardinality(needed) <= 9
  BY <1>2, <1>3, FS_Subset, FS_CardinalityType
<1>5. \A k \in 1..9 : CAPACITIES[k] \in Nat \ {0}
  BY DEF CAPACITIES
<1>6. \A k \in 1..Cardinality(needed) : unit * CAPACITIES[k] \in Nat \ {0}
  BY <1>4, <1>5
<1>7. [k \in 1..Cardinality(needed) |-> Grow(v, unit * CAPACITIES[k])]
        \in [1..Cardinality(needed) -> Requests]
  BY <1>6, RequestTypes
<1>8. QED
  BY <1>4, <1>7, ListOf DEF PushAll, needed

LEMMA RegrowTyped ==
    ASSUME NEW v \in Vecs, NEW unit \in Nat \ {0}, NEW old \in Nat, NEW new \in Nat, old <= new
    PROVE  Regrow(v, unit, old, new) \in Seq(Requests)
<1>1. CASE new = old
  BY <1>1 DEF Regrow
<1>2. CASE new # old
  <2>1. unit * new \in Nat \ {0}
    BY <1>2
  <2>2. Grow(v, unit * new) \in Requests
    BY <2>1, RequestTypes
  <2>3. QED
    BY <1>2, <2>2 DEF Regrow
<1>3. QED
  BY <1>1, <1>2

LEMMA ExtendedFacts ==
    ASSUME NEW cap \in Nat, NEW len \in Nat, NEW more \in Nat
    PROVE  Extended(cap, len, more) \in Nat /\ cap <= Extended(cap, len, more)
<1> DEFINE S == {2 * cap, len + more}
<1>1. S \subseteq Nat /\ \E n \in S : \A k \in S : n >= k
  OBVIOUS
<1>2. Max(S) \in S /\ \A k \in S : Max(S) >= k
  BY <1>1 DEF Max
<1>3. Max(S) \in Nat /\ Max(S) >= 2 * cap
  BY <1>1, <1>2
<1>4. QED
  BY <1>3 DEF Extended

\* Every function of the boot asks for what the heap can serve.
LEMMA ListsTyped ==
    ASSUME ScalarsOK
    PROVE  /\ map_guest_dtb(m.dtb) \in Seq(Requests)
           /\ VirtIoList_new(m.virtio) \o Pci_new(m.ranges) \in Seq(Requests)
           /\ load_guest_elf \in Seq(Requests) /\ filling_memory_region \in Seq(Requests)
           /\ device_mapping_g_stage(m.virtio, m.ranges) \in Seq(Requests)
<1>1. map_guest_dtb(m.dtb) \in Seq(Requests)
  <2>1. m.dtb \in Nat /\ map_guest_dtb(m.dtb) \in [1..m.dtb -> Requests]
    BY MachineFacts, RequestTypes DEF map_guest_dtb
  <2>2. QED
    BY <2>1, ListOf
<1>2. \A first, n \in Nat : MapPages(first, n) \in Seq(Requests)
  <2>1. SUFFICES ASSUME NEW first \in Nat, NEW n \in Nat PROVE MapPages(first, n) \in Seq(Requests)
    OBVIOUS
  <2>2. MapPages(first, n) \in [1..n -> Requests]
    BY RequestTypes DEF MapPages
  <2>3. QED
    BY <2>2, ListOf
<1>3. load_guest_elf \in Seq(Requests) /\ filling_memory_region \in Seq(Requests)
  BY <1>2, BootAssumption DEF load_guest_elf, filling_memory_region
<1>4. VirtIoList_new(m.virtio) \o Pci_new(m.ranges) \in Seq(Requests)
  <2>1. VirtIoList_new(m.virtio) \in Seq(Requests)
    BY PushAllTyped DEF VirtIoList_new, Vecs, VIRTIO
  <2>2. Pci_new(m.ranges) \in Seq(Requests)
    BY PushAllTyped DEF Pci_new, Vecs, MEMORY_MAP
  <2>3. QED
    BY <2>1, <2>2, ConcatProperties
<1>5. device_mapping_g_stage(m.virtio, m.ranges) \in Seq(Requests)
  <2> DEFINE n == m.virtio
             k == Len(m.ranges)
             six == Extended(n, n, 6)
             all == Extended(six, n + 6, k)
  <2>1. n \in Nat /\ k \in Nat /\ "map" \in Vecs /\ MEMORY_MAP \in Nat \ {0}
    BY MachineFacts DEF Vecs, MEMORY_MAP
  <2>2. six \in Nat /\ n <= six
    BY <2>1, ExtendedFacts
  <2> HIDE DEF n, k, six
  <2>3. all \in Nat /\ six <= all
    BY <2>1, <2>2, ExtendedFacts
  <2> HIDE DEF all
  <2>4. /\ Regrow("map", MEMORY_MAP, 0, n) \in Seq(Requests)
        /\ Regrow("map", MEMORY_MAP, n, six) \in Seq(Requests)
        /\ Regrow("map", MEMORY_MAP, six, all) \in Seq(Requests)
    <3>1. 0 \in Nat /\ 0 <= n
      BY <2>1
    <3>2. Regrow("map", MEMORY_MAP, 0, n) \in Seq(Requests)
      BY <2>1, <3>1, RegrowTyped, Zenon
    <3>3. Regrow("map", MEMORY_MAP, n, six) \in Seq(Requests)
      BY <2>1, <2>2, RegrowTyped, Zenon
    <3>4. Regrow("map", MEMORY_MAP, six, all) \in Seq(Requests)
      BY <2>1, <2>2, <2>3, RegrowTyped, Zenon
    <3>5. QED
      BY <3>2, <3>3, <3>4
  <2>5. create_device_map(m.virtio, m.ranges) \in Seq(Requests)
    BY <2>4, ConcatProperties DEF create_device_map, n, k, six, all
  <2>6. [i \in 1..DeviceTables |-> Table] \in Seq(Requests)
    <3>1. DeviceTables \in Nat /\ [i \in 1..DeviceTables |-> Table] \in [1..DeviceTables -> Requests]
      BY BootAssumption, RequestTypes
    <3>2. QED
      BY <3>1, ListOf
  <2>7. <<Drop("map")>> \in Seq(Requests)
    BY RequestTypes DEF Vecs
  <2>8. QED
    BY <2>5, <2>6, <2>7, ConcatProperties DEF device_mapping_g_stage
<1>6. QED
  BY <1>1, <1>3, <1>4, <1>5

LEMMA FollowedTyped ==
    ASSUME NEW rs \in Seq(Requests), rs # <<>>
    PROVE  Head(rs) \in Requests /\ FollowedBy(Head(rs)) \o Tail(rs) \in Seq(Requests)
<1>1. Head(rs) \in Requests /\ Tail(rs) \in Seq(Requests)
  OBVIOUS
<1>2. FollowedBy(Head(rs)) \in Seq(Requests)
  <2>1. CASE Head(rs).op = "page"
    <3>1. PICK n \in 0..2 : Head(rs) = Page(n)
      BY <1>1, <2>1 DEF Requests, Table, Grow, Drop
    <3>2. Head(rs).tables = n /\ n \in Nat
      BY <3>1 DEF Page
    <3>3. [i \in 1..n |-> Table] \in [1..n -> Requests]
      BY RequestTypes
    <3>4. QED
      BY <2>1, <3>2, <3>3, ListOf DEF FollowedBy
  <2>2. CASE Head(rs).op # "page"
    BY <2>2 DEF FollowedBy
  <2>3. QED
    BY <2>1, <2>2
<1>3. QED
  BY <1>1, <1>2, ConcatProperties

----------------------------------------------------------------------------
(* Memory                                                                  *)

LEMMA SameOwners ==
    ASSUME MemoryInv, UNCHANGED <<m, mem>>, IommuOwners' \subseteq IommuOwners,
           reqs' \in Seq(Requests), pc' = "_start" => pc = "_start"
    PROVE  MemoryInv'
<1>1. Owners' \subseteq Owners /\ HeapEnd' = HeapEnd
  BY DEF Owners, HeapOwners, HeapEnd
<1>2. OwnersOK(Owners', mem.holes, HeapEnd)
  BY <1>1, OwnersSubset DEF MemoryInv
<1>3. QED
  BY <1>1, <1>2 DEF MemoryInv, OwnersOK

LEMMA IommuOwnersCases ==
    ASSUME NEW x \in IommuOwners
    PROVE  \/ \E q \in Queues : queue[q].en /\ x = Owner(q, queue[q].base, PAGE_UNITS)
           \/ ddtp # "Off" /\ x = Owner("ddt", ddt.at, PAGE_UNITS)
BY DEF IommuOwners

LEMMA PageTaken ==
    ASSUME ScalarsOK, MemoryInv, NEW b, b = alloc(mem), NEW kind
    PROVE  TakenOK(mem, b, Owners, HeapEnd, kind, PAGE_UNITS, PAGE_UNITS)
<1>1. PAGE_UNITS \in Nat \ {0} /\ HeapEnd \in Nat /\ mem \in MemType
      /\ OwnersOK(Owners, mem.holes, HeapEnd)
  BY MachineFacts DEF PAGE_UNITS, MemoryInv
<1>2. QED
  BY <1>1, TakeOK DEF alloc

\* The IOMMU gets a page: what it then owns is what it owned and that page.
LEMMA PageGiven ==
    ASSUME ScalarsOK, MemoryInv, NEW kind, mem' = alloc(mem),
           IommuOwners' \subseteq IommuOwners
              \/ (mem'.ok /\ IommuOwners' \subseteq
                               IommuOwners \cup {Owner(kind, mem'.last, PAGE_UNITS)}),
           UNCHANGED <<m, reqs>>, pc' # "_start"
    PROVE  MemoryInv'
<1>1. TakenOK(mem, mem', Owners, HeapEnd, kind, PAGE_UNITS, PAGE_UNITS)
  BY PageTaken
<1>2. HeapEnd' = HeapEnd
  BY DEF HeapEnd
<1>3. HeapOwners(mem') = HeapOwners(mem)
  BY <1>1 DEF HeapOwners, TakenOK
<1>4. OwnersOK(Owners', mem'.holes, HeapEnd)
  <2>1. CASE IommuOwners' \subseteq IommuOwners
    <3>1. Owners' \subseteq Owners
      BY <1>3, <2>1 DEF Owners
    <3>2. QED
      BY <1>1, <3>1, OwnersSubset DEF TakenOK
  <2>2. CASE mem'.ok /\ IommuOwners' \subseteq
                            IommuOwners \cup {Owner(kind, mem'.last, PAGE_UNITS)}
    <3>1. Owners' \subseteq Owners \cup {Owner(kind, mem'.last, PAGE_UNITS)}
      BY <1>3, <2>2 DEF Owners
    <3>2. QED
      BY <1>1, <2>2, <3>1, OwnersSubset DEF TakenOK
  <2>3. QED
    BY <2>1, <2>2
<1>5. QED
  BY <1>1, <1>2, <1>4 DEF MemoryInv, TakenOK, OwnersOK

LEMMA MemoryStep == ASSUME IInv, [Next]_vars PROVE MemoryInv'
<1> USE DEF IInv
<1>0. reqs \in Seq(Requests) /\ HeapEnd \in Nat
  BY MachineFacts DEF MemoryInv
<1>u. ASSUME UNCHANGED <<m, mem, queue, ddt, ddtp>>, reqs' \in Seq(Requests),
             pc' = "_start" => pc = "_start"
      PROVE  MemoryInv'
  <2>1. IommuOwners' = IommuOwners
    BY <1>u DEF IommuOwners
  <2>2. QED
    BY <1>u, <2>1, SameOwners
<1>1. CASE UNCHANGED vars
  BY <1>0, <1>1, <1>u DEF vars
<1>2. CASE BootStep
  <2>1. CASE Request
    <3>1. /\ reqs # <<>> /\ mem' = Serve(mem, Head(reqs))
          /\ reqs' = FollowedBy(Head(reqs)) \o Tail(reqs)
          /\ UNCHANGED <<m, queue, ddt, ddtp>>
          /\ pc' \in {pc, "panic"}
      BY <2>1, Zenon DEF Request
    <3>2. Head(reqs) \in Requests /\ reqs' \in Seq(Requests)
      BY <1>0, <3>1, FollowedTyped
    <3>3. \A x \in IommuOwners : x.kind \notin Vecs
      BY IommuOwnersCases DEF Owner, Queues, Vecs
    <3>4. /\ mem' \in MemType
          /\ OwnersOK(HeapOwners(mem') \cup IommuOwners, mem'.holes, HeapEnd)
      BY <1>0, <3>1, <3>2, <3>3, ServeOK DEF MemoryInv, Owners
    <3>5. IommuOwners' = IommuOwners /\ HeapEnd' = HeapEnd
      BY <3>1 DEF IommuOwners, HeapEnd
    <3>6. pc' # "_start"
      BY <3>1 DEF InterruptsInv, Early
    <3>7. QED
      BY <3>2, <3>4, <3>5, <3>6 DEF MemoryInv, Owners, OwnersOK
  <2>2. CASE _start
    <3>1. /\ mem' = [mem EXCEPT !.holes = {Hole(HeapStart, m.heap)}]
          /\ UNCHANGED <<m, reqs, queue, ddt, ddtp>> /\ pc = "_start" /\ pc' = "mstart"
      BY <2>2, Zenon DEF _start
    <3>2. HeapStart \in Nat /\ m.heap \in Nat \ {0} /\ HeapEnd = HeapStart + m.heap
      BY MachineFacts DEF HeapEnd
    <3>3. Hole(HeapStart, m.heap) \in Piece
      BY <3>2 DEF Hole, Piece
    <3>4. /\ mem' \in MemType /\ mem'.holes = {Hole(HeapStart, m.heap)}
          /\ mem'.tables = mem.tables /\ mem'.ram = mem.ram /\ mem'.vecs = mem.vecs
      BY <3>1, <3>3 DEF MemoryInv, MemType
    <3>5. HolesOK(mem'.holes, HeapStart, HeapEnd)
      BY <3>2, <3>3, <3>4 DEF HolesOK, Hole
    <3>6. Owners = {} /\ Owners' = Owners /\ HeapEnd' = HeapEnd
      BY <3>1, <3>4 DEF MemoryInv, Owners, HeapOwners, IommuOwners, HeapEnd
    <3>7. QED
      BY <1>0, <3>1, <3>4, <3>5, <3>6 DEF MemoryInv, OwnersOK
  <2>3. CASE mstart \/ enter_hypervisor_mode \/ hstart
    <3>1. UNCHANGED <<m, mem, queue, ddt, ddtp, reqs>> /\ pc' # "_start"
      BY <2>3 DEF mstart, enter_hypervisor_mode, hstart
    <3>2. QED
      BY <1>0, <1>u, <3>1
  <2>4. CASE Guest_new \/ Devices_new \/ LoadGuestElf \/ FillMemoryRegion \/ DeviceMapping
    <3>1. reqs' \in Seq(Requests)
      BY <2>4, ListsTyped, Zenon
         DEF Guest_new, Devices_new, LoadGuestElf, FillMemoryRegion, DeviceMapping, Allocating
    <3>2. UNCHANGED <<m, mem, queue, ddt, ddtp>> /\ pc' # "_start"
      BY <2>4 DEF Guest_new, Devices_new, LoadGuestElf, FillMemoryRegion, DeviceMapping, Allocating
    <3>3. QED
      BY <1>u, <3>1, <3>2
  <2>5. CASE SetHgatp \/ SetSstatus \/ SetStvec \/ hart_entry
    <3>1. UNCHANGED <<m, mem, queue, ddt, ddtp, reqs>> /\ pc' # "_start"
      BY <2>5 DEF SetHgatp, SetSstatus, SetStvec, hart_entry
    <3>2. QED
      BY <1>0, <1>u, <3>1
  <2>6. CASE init_iommu
    <3>1. UNCHANGED <<m, mem, queue, ddt, ddtp, reqs>> /\ pc' # "_start"
      BY <2>6 DEF init_iommu
    <3>2. QED
      BY <1>0, <1>u, <3>1
  <2>7. CASE set_ddtp
    <3>1. mem' = alloc(mem) /\ UNCHANGED <<m, reqs, queue>> /\ pc' # "_start"
      BY <2>7 DEF set_ddtp
    <3>2. CASE mem'.ok
      <4>1. ddt'.at = mem'.last
        BY <2>7, <3>2 DEF set_ddtp, init_page_table
      <4>2. IommuOwners' \subseteq IommuOwners \cup {Owner("ddt", mem'.last, PAGE_UNITS)}
        BY <3>1, <4>1, Zenon DEF IommuOwners
      <4>3. QED
        BY <3>1, <3>2, <4>2, PageGiven
    <3>3. CASE ~mem'.ok
      <4>1. UNCHANGED <<ddt, ddtp>>
        BY <2>7, <3>3 DEF set_ddtp
      <4>2. IommuOwners' = IommuOwners
        BY <3>1, <4>1 DEF IommuOwners
      <4>3. QED
        BY <3>1, <4>2, PageGiven
    <3>4. QED
      BY <3>2, <3>3
  <2>8. CASE \E q \in Queues : set_queue(q)
    <3>1. PICK q \in Queues : set_queue(q)
      BY <2>8
    <3>2. mem' = alloc(mem) /\ UNCHANGED <<m, reqs, ddt, ddtp>> /\ pc' # "_start"
      BY <3>1, QueueOrder DEF set_queue, Queues
    <3>3. CASE pc' = PollOf[q]
      <4>1. mem'.ok
        BY <3>1, <3>3, QueueOrder DEF set_queue, Queues
      <4>2. queue' = [queue EXCEPT ![q].base = mem'.last, ![q].en = TRUE]
        BY <3>1, <3>3, Zenon DEF set_queue
      <4>3. /\ queue'[q].base = mem'.last
            /\ \A p \in Queues \ {q} : queue'[p] = queue[p]
        BY <4>2 DEF IommuInv
      <4>4. IommuOwners' \subseteq IommuOwners \cup {Owner(q, mem'.last, PAGE_UNITS)}
        BY <3>2, <4>3, Zenon DEF IommuOwners
      <4>5. QED
        BY <3>2, <4>1, <4>4, PageGiven
    <3>4. CASE pc' # PollOf[q]
      <4>1. queue' = queue
        BY <3>1, <3>4 DEF set_queue
      <4>2. IommuOwners' = IommuOwners
        BY <3>2, <4>1 DEF IommuOwners
      <4>3. QED
        BY <3>2, <4>2, PageGiven
    <3>5. QED
      BY <3>3, <3>4
  <2>9. CASE \E q \in Queues : poll_queue(q)
    <3>1. UNCHANGED <<m, mem, queue, ddt, ddtp, reqs>> /\ pc' # "_start"
      BY <2>9, QueueOrder DEF poll_queue, Queues
    <3>2. QED
      BY <1>0, <1>u, <3>1
  <2>10. QED
    BY <1>2, <2>1, <2>2, <2>3, <2>4, <2>5, <2>6, <2>7, <2>8, <2>9, Zenon DEF BootStep, Queues
<1>3. CASE mtrap_vector \/ StrayTrap \/ GuestSetTimer \/ TimerExpires
  <2>1. UNCHANGED <<m, mem, queue, ddt, ddtp, reqs>> /\ (pc' = "_start" => pc = "_start")
    BY <1>3 DEF mtrap_vector, StrayTrap, GuestSetTimer, TimerExpires
  <2>2. QED
    BY <1>0, <1>u, <2>1
<1>4. CASE DmaFaults
  <2>1. UNCHANGED <<m, mem, queue, ddtp, reqs, pc>> /\ ddt'.at = ddt.at
    BY <1>4 DEF DmaFaults, ScalarsOK
  <2>2. IommuOwners' = IommuOwners
    BY <2>1 DEF IommuOwners
  <2>3. QED
    BY <1>0, <2>1, <2>2, SameOwners
<1>5. CASE \E q \in Queues : QueueOn(q)
  <2>1. PICK q \in Queues : QueueOn(q)
    BY <1>5
  <2>2. UNCHANGED <<m, mem, ddt, ddtp, reqs, pc>>
    BY <2>1, Zenon DEF QueueOn
  <2>3. \A p \in Queues : queue'[p].base = queue[p].base /\ queue'[p].en = queue[p].en
    BY <2>1 DEF QueueOn, IommuInv
  <2>4. IommuOwners' = IommuOwners
    BY <2>2, <2>3 DEF IommuOwners
  <2>5. QED
    BY <1>0, <2>2, <2>4, SameOwners
<1>6. QED
  BY <1>1, <1>2, <1>3, <1>4, <1>5, Zenon DEF Next, Queues

----------------------------------------------------------------------------
(* The IOMMU                                                               *)

LEMMA SameIommu ==
    ASSUME IommuInv, UNCHANGED translation, pc' = pc \/ pc' \notin Programming
    PROVE  IommuInv'
BY DEF IommuInv, Programming

\* The first page of fault records is not the directory's.
LEMMA FaultPageApart ==
    ASSUME IInv, queue["fq"].on, ddtp = "Lv1"
    PROVE  queue["fq"].base # ddt.at
<1>1. queue["fq"].en
  BY DEF IInv, IommuInv, Queues
<1> DEFINE x == Owner("fq", queue["fq"].base, PAGE_UNITS)
           y == Owner("ddt", ddt.at, PAGE_UNITS)
<1>2. x \in Owners /\ y \in Owners /\ x # y
  BY <1>1 DEF Owners, IommuOwners, Owner, Queues
<1>3. x.at = queue["fq"].base /\ x.len = 512 /\ y.at = ddt.at /\ y.len = 512
  BY DEF Owner, PAGE_UNITS
<1>4. Apart(x, y) /\ x.at \in Nat /\ y.at \in Nat
  BY <1>2, Zenon DEF IInv, MemoryInv, OwnersOK
<1>5. QED
  BY <1>3, <1>4 DEF Apart

LEMMA IommuStep == ASSUME IInv, [Next]_vars PROVE IommuInv'
<1>0. ScalarsOK /\ InterruptsInv /\ IommuInv /\ MemoryInv
  BY DEF IInv
<1>1. CASE UNCHANGED vars
  BY <1>0, <1>1, SameIommu DEF vars
<1>2. CASE BootStep
  <2>1. CASE Request
    <3>1. UNCHANGED translation /\ pc' \in {pc, "panic"}
      BY <2>1, Zenon DEF Request
    <3>2. QED
      BY <1>0, <3>1, SameIommu DEF Programming
  <2>2. CASE _start \/ mstart \/ enter_hypervisor_mode \/ hstart
    <3>1. UNCHANGED translation /\ pc' \notin Programming
      BY <2>2 DEF _start, mstart, enter_hypervisor_mode, hstart, Programming
    <3>2. QED
      BY <1>0, <3>1, SameIommu
  <2>3. CASE Guest_new \/ Devices_new \/ LoadGuestElf \/ FillMemoryRegion \/ DeviceMapping
    <3>1. UNCHANGED translation /\ pc' \notin Programming
      BY <2>3 DEF Guest_new, Devices_new, LoadGuestElf, FillMemoryRegion, DeviceMapping,
                  Allocating, Programming
    <3>2. QED
      BY <1>0, <3>1, SameIommu
  <2>4. CASE SetHgatp
    BY <1>0, <2>4 DEF SetHgatp, IommuInv, Programming
  <2>5. CASE init_iommu
    <3>1. /\ UNCHANGED <<hgatp, queue, ddt, ddtp, fqt>>
          /\ pc = "init_iommu" /\ pc' \in {"sstatus", "panic", "cq"}
      BY <2>5 DEF init_iommu
    <3>2. QED
      BY <1>0, <3>1 DEF IommuInv, Programming
  <2>6. CASE set_ddtp
    <3>1. UNCHANGED <<hgatp, queue, fqt>> /\ pc = "ddt" /\ pc' \in {"sstatus", "panic"}
      BY <2>6, Zenon DEF set_ddtp
    <3>2. CASE mem'.ok
      <4>1. ddt'.iohgatp = hgatp
        BY <2>6, <3>2 DEF set_ddtp, init_page_table
      <4>2. QED
        BY <1>0, <3>1, <4>1 DEF IommuInv, Programming, Queues
    <3>3. CASE ~mem'.ok
      <4>1. UNCHANGED <<ddt, ddtp>>
        BY <2>6, <3>3 DEF set_ddtp
      <4>2. QED
        BY <1>0, <3>1, <4>1 DEF IommuInv, Programming
    <3>4. QED
      BY <3>2, <3>3
  <2>7. CASE \E q \in Queues : set_queue(q)
    <3>1. PICK q \in Queues : set_queue(q)
      BY <2>7
    <3>2. /\ UNCHANGED <<hgatp, ddt, ddtp, fqt>> /\ pc = q /\ mem' = alloc(mem)
          /\ pc' \in {PollOf[q], "panic"}
      BY <3>1, Zenon DEF set_queue
    <3>3. mem'.last \in Nat
      <4>1. TakenOK(mem, mem', Owners, HeapEnd, q, PAGE_UNITS, PAGE_UNITS)
        BY <1>0, <3>2, PageTaken
      <4>2. QED
        BY <4>1 DEF TakenOK, MemType
    <3>4. \A p \in Queues : /\ queue'[p].on = queue[p].on
                            /\ queue'[p].en = queue[p].en \/ queue'[p].en = TRUE
      BY <1>0, <3>1 DEF set_queue, IommuInv
    <3>5. queue' \in [Queues -> [base : Nat, en : BOOLEAN, on : BOOLEAN]]
      <4>1. \/ queue' = [queue EXCEPT ![q].base = mem'.last, ![q].en = TRUE]
            \/ queue' = queue
        BY <3>1, Zenon DEF set_queue
      <4>2. QED
        BY <1>0, <3>3, <4>1 DEF IommuInv
    <3>6. \A p \in Queues : queue'[p].on => queue'[p].en
      BY <1>0, <3>4 DEF IommuInv
    <3>7. /\ pc' \in {"fq", "fqon", "pq", "pqon", "ddt"} => queue'["cq"].on
          /\ pc' \in {"pq", "pqon", "ddt"} => queue'["fq"].on
          /\ pc' # "ddt"
      BY <1>0, <3>2, <3>4, QueueOrder DEF IommuInv, Queues
    <3>8. pc' \in Programming => hgatp' = "ROOT_PAGE_TABLE"
      BY <1>0, <3>2 DEF IommuInv, Programming, Queues
    <3>9. ddtp' = "Lv1" =>
             /\ hgatp' = "ROOT_PAGE_TABLE" /\ \A p \in Queues : queue'[p].on
             /\ fqt' <= 1 => ddt'.iohgatp = "ROOT_PAGE_TABLE"
      BY <1>0, <3>2, <3>4 DEF IommuInv
    <3>10. QED
      BY <3>5, <3>6, <3>7, <3>8, <3>9 DEF IommuInv
  <2>8. CASE \E q \in Queues : poll_queue(q)
    <3>1. PICK q \in Queues : poll_queue(q)
      BY <2>8
    <3>2. /\ UNCHANGED <<hgatp, queue, ddt, ddtp, fqt>> /\ pc = PollOf[q]
          /\ (queue[q].on /\ pc' = AfterQueue[q]) \/ pc' = "spin"
      BY <3>1, Zenon DEF poll_queue
    <3>3. QED
      BY <1>0, <3>2, QueueOrder DEF IommuInv, Programming, Queues
  <2>9. CASE SetSstatus \/ SetStvec \/ hart_entry
    <3>1. UNCHANGED translation /\ pc' \notin Programming
      BY <2>9 DEF SetSstatus, SetStvec, hart_entry, Programming
    <3>2. QED
      BY <1>0, <3>1, SameIommu
  <2>10. QED
    BY <1>2, <2>1, <2>2, <2>3, <2>4, <2>5, <2>6, <2>7, <2>8, <2>9, Zenon DEF BootStep, Queues
<1>3. CASE mtrap_vector \/ GuestSetTimer \/ TimerExpires
  <2>1. UNCHANGED translation /\ pc' = pc
    BY <1>3, Zenon DEF mtrap_vector, GuestSetTimer, TimerExpires
  <2>2. QED
    BY <1>0, <2>1, SameIommu
<1>4. CASE StrayTrap
  <2>1. UNCHANGED translation /\ pc' \notin Programming
    BY <1>4 DEF StrayTrap, Programming
  <2>2. QED
    BY <1>0, <2>1, SameIommu
<1>5. CASE DmaFaults
  <2>1. UNCHANGED <<hgatp, queue, ddtp, pc>> /\ fqt' = fqt + 1 /\ ddtp = "Lv1" /\ queue["fq"].on
    BY <1>5, Zenon DEF DmaFaults
  <2>2. fqt \in Nat
    BY <1>0, BootAssumption DEF ScalarsOK
  <2>3. fqt' <= 1 => ddt' = ddt /\ fqt <= 1
    <3>1. SUFFICES ASSUME fqt' <= 1 PROVE ddt' = ddt /\ fqt <= 1
      OBVIOUS
    <3>2. fqt = 0 /\ fqt * PAGE_UNITS = 0
      BY <2>1, <2>2, <3>1 DEF PAGE_UNITS
    <3>3. queue["fq"].base \in Nat
      BY <1>0 DEF IommuInv, Queues
    <3>4. queue["fq"].base + fqt * PAGE_UNITS # ddt.at
      BY <2>1, <3>2, <3>3, FaultPageApart
    <3>5. QED
      BY <1>5, <3>2, <3>4 DEF DmaFaults
  <2>4. QED
    BY <1>0, <2>1, <2>3 DEF IommuInv
<1>6. CASE \E q \in Queues : QueueOn(q)
  <2>1. PICK q \in Queues : QueueOn(q)
    BY <1>6
  <2>2. /\ UNCHANGED <<hgatp, ddt, ddtp, fqt, pc>> /\ queue[q].en
        /\ queue' = [queue EXCEPT ![q].on = TRUE]
    BY <2>1, Zenon DEF QueueOn
  <2>3. \A p \in Queues : /\ queue'[p].en = queue[p].en
                          /\ queue'[p].on = queue[p].on \/ queue'[p].on = TRUE
                          /\ p # q => queue'[p].on = queue[p].on
    BY <1>0, <2>2 DEF IommuInv
  <2>4. queue' \in [Queues -> [base : Nat, en : BOOLEAN, on : BOOLEAN]]
    BY <1>0, <2>2 DEF IommuInv
  <2>5. \A p \in Queues : queue[p].on => queue'[p].on
    BY <2>3
  <2>6. \A p \in Queues : queue'[p].on => queue'[p].en
    BY <1>0, <2>2, <2>3 DEF IommuInv
  <2>7. QED
    BY <1>0, <2>2, <2>4, <2>5, <2>6 DEF IommuInv, Queues
<1>7. QED
  BY <1>1, <1>2, <1>3, <1>4, <1>5, <1>6, Zenon DEF Next, Queues

----------------------------------------------------------------------------
(* The theorems                                                            *)

LEMMA InitIInv == ASSUME Init PROVE IInv
<1>1. FlagsOK
  BY Zenon DEF Init, FlagsOK
<1>2. ScalarsOK
  BY BootAssumption DEF Init, ScalarsOK
<1>3. InterruptsInv
  BY DEF Init, InterruptsInv, BootStackIntact, NoStrayTrap, Early
<1>4. IommuInv
  BY DEF Init, IommuInv, Programming, Queues
<1>5. MemoryInv
  <2>1. mem \in MemType /\ mem.holes = {} /\ mem.tables = {} /\ mem.ram = {}
        /\ \A v \in Vecs : mem.vecs[v].len = 0
    BY DEF Init, MemType, Vecs, None
  <2>2. Owners = {}
    BY <2>1 DEF Init, Owners, HeapOwners, IommuOwners, Queues
  <2>3. OwnersOK(Owners, mem.holes, HeapEnd)
    BY <2>1, <2>2 DEF OwnersOK, HolesOK
  <2>4. reqs \in Seq(Requests)
    BY DEF Init
  <2>5. QED
    BY <2>1, <2>2, <2>3, <2>4 DEF MemoryInv
<1>6. QED
  BY <1>1, <1>2, <1>3, <1>4, <1>5 DEF IInv

LEMMA NextIInv == ASSUME IInv, [Next]_vars PROVE IInv'
BY FlagsStep, ScalarsStep, InterruptsStep, IommuStep, MemoryStep DEF IInv

\* The invariant holds on every machine, whatever interrupts and faults arrive.
THEOREM BootIInvariant == Spec => []IInv
<1>1. Init => IInv
  BY InitIInv
<1>2. IInv /\ [Next]_vars => IInv'
  BY NextIInv
<1>3. QED
  BY <1>1, <1>2, PTL DEF Spec

LEMMA PageOwner ==
    ASSUME IInv, NEW a \in PagesInUse
    PROVE  \E x \in Owners : /\ x.at = a /\ x.len = PAGE_UNITS
                             /\ a \in PageBlocks => x.kind \in PageKinds
<1>1. DOMAIN queue = Queues
  BY DEF IInv, IommuInv
<1>2. CASE a \in mem.ram
  <2>1. Owner("ram", a, PAGE_UNITS) \in Owners
    BY <1>2 DEF Owners, HeapOwners
  <2>2. QED
    BY <2>1 DEF Owner, PageKinds
<1>3. CASE a \in {queue[q].base : q \in {q \in DOMAIN queue : queue[q].en}}
  <2>1. PICK q \in Queues : queue[q].en /\ a = queue[q].base
    BY <1>1, <1>3
  <2>2. Owner(q, a, PAGE_UNITS) \in Owners
    BY <2>1 DEF Owners, IommuOwners
  <2>3. QED
    BY <2>2 DEF Owner, PageKinds
<1>4. CASE ddtp # "Off" /\ a = ddt.at
  <2>1. Owner("ddt", a, PAGE_UNITS) \in Owners
    BY <1>4 DEF Owners, IommuOwners
  <2>2. QED
    BY <2>1 DEF Owner, PageKinds
<1>5. CASE a \notin PageBlocks
  <2>1. a \in mem.tables
    BY <1>5, Zenon DEF PagesInUse
  <2>2. Owner("table", a, PAGE_UNITS) \in Owners
    BY <2>1 DEF Owners, HeapOwners
  <2>3. QED
    BY <1>5, <2>2 DEF Owner
<1>6. QED
  BY <1>2, <1>3, <1>4, <1>5, Zenon DEF PageBlocks

\* Every page table, page block, vector and hole lies in the region that _start
\* (main.rs) gave to the allocator, page blocks on page boundaries
\* (PageBlock::alloc).
THEOREM BootTypeOK == Spec => []TypeOK
<1>1. IInv => TypeOK
  <2> SUFFICES ASSUME IInv PROVE TypeOK
    OBVIOUS
  <2>1. /\ m \in Configs
        /\ timer \in {"due", "armed", "off"}
        /\ stvec \in {"reset", "DRAM_BASE", "hstrap_vector"}
        /\ hgatp \in {"Bare", "ROOT_PAGE_TABLE"} /\ ddtp \in {"Off", "Lv1"}
        /\ ddt.iohgatp \in {"invalid", "Bare", "ROOT_PAGE_TABLE", "record"}
        /\ fqt \in 0..MaxFaultPages
    BY Zenon DEF IInv, ScalarsOK
  <2>2. mem.ok \in BOOLEAN
    BY DEF IInv, MemoryInv, MemType
  <2>3. {mie, stce, stip, sie, sstatus_sie, frames, smashed, mem_enable, mem.ok} \subseteq BOOLEAN
    BY <2>2, Zenon DEF IInv, FlagsOK
  <2>4. /\ m.heap \in Nat /\ HeapStart \in Nat /\ HeapEnd = HeapStart + m.heap
        /\ OwnersOK(Owners, mem.holes, HeapEnd)
    BY MachineFacts DEF IInv, MemoryInv, HeapEnd
  <2>5. \A h \in mem.holes : h.at >= HeapStart /\ h.at + h.len <= HeapStart + m.heap
    BY <2>4 DEF OwnersOK, HolesOK, Piece
  <2>6. ASSUME NEW b \in PagesInUse
        PROVE  /\ b >= HeapStart /\ b + PAGE_UNITS <= HeapStart + m.heap
               /\ b \in PageBlocks => b % PAGE_UNITS = 0
    <3>1. PICK x \in Owners : /\ x.at = b /\ x.len = PAGE_UNITS
                              /\ b \in PageBlocks => x.kind \in PageKinds
      BY PageOwner, Zenon
    <3>2. /\ x.at \in Nat /\ HeapStart <= x.at /\ x.at + x.len <= HeapEnd
          /\ x.kind \in PageKinds => x.at % PAGE_UNITS = 0
      BY <2>4, Zenon DEF OwnersOK
    <3>3. QED
      BY <2>4, <3>1, <3>2
  <2>7. PageBlocks \subseteq PagesInUse
    BY Zenon DEF PagesInUse
  <2>8. ASSUME NEW v \in DOMAIN mem.vecs, mem.vecs[v].len # 0
        PROVE  /\ mem.vecs[v].at >= HeapStart
               /\ mem.vecs[v].at + mem.vecs[v].len <= HeapStart + m.heap
    <3> DEFINE x == Owner(v, mem.vecs[v].at, mem.vecs[v].len)
    <3>1. v \in Vecs
      BY DEF IInv, MemoryInv, MemType
    <3>2. x \in Owners
      BY <2>8, <3>1 DEF Owners, HeapOwners
    <3>3. x.at = mem.vecs[v].at /\ x.len = mem.vecs[v].len
      BY DEF Owner
    <3>4. x.at \in Nat /\ HeapStart <= x.at /\ x.at + x.len <= HeapEnd
      BY <2>4, <3>2, Zenon DEF OwnersOK
    <3>5. QED
      BY <2>4, <3>3, <3>4
  <2>9. QED
    BY <2>1, <2>3, <2>5, <2>6, <2>7, <2>8, Zenon DEF TypeOK
<1>2. QED
  BY <1>1, BootIInvariant, PTL

\* Two different uses of memory never share an address.
LEMMA KindsApart ==
    ASSUME IInv, NEW k, NEW l, k # l, NEW a, NEW b,
           Owner(k, a, PAGE_UNITS) \in Owners, Owner(l, b, PAGE_UNITS) \in Owners
    PROVE  a # b
<1> DEFINE x == Owner(k, a, PAGE_UNITS)
           y == Owner(l, b, PAGE_UNITS)
<1>1. x # y /\ x.at = a /\ x.len = 512 /\ y.at = b /\ y.len = 512
  BY DEF Owner, PAGE_UNITS
<1>2. Apart(x, y) /\ x.at \in Nat /\ y.at \in Nat
  BY <1>1, Zenon DEF IInv, MemoryInv, OwnersOK
<1>3. QED
  BY <1>1, <1>2 DEF Apart

\* No page of a table, of the guest's memory or of the IOMMU overlaps another or
\* a hole, for every heap and every list of devices (main.rs, PageBlock::alloc;
\* sv39x4.rs, generate_page_table; iommu.rs).
THEOREM BootPagesDisjoint == Spec => []PagesDisjoint
<1>1. IInv => PagesDisjoint
  <2> SUFFICES ASSUME IInv PROVE PagesDisjoint
    OBVIOUS
  <2>0. OwnersOK(Owners, mem.holes, HeapEnd)
    BY DEF IInv, MemoryInv
  <2>1. mem.tables \cap mem.ram = {}
    <3>1. SUFFICES ASSUME NEW a \in mem.tables, a \in mem.ram PROVE FALSE
      OBVIOUS
    <3>2. Owner("table", a, PAGE_UNITS) \in Owners /\ Owner("ram", a, PAGE_UNITS) \in Owners
      BY <3>1 DEF Owners, HeapOwners
    <3>3. QED
      BY <3>2, KindsApart
  <2>2. ASSUME NEW a \in PagesInUse, NEW b \in PagesInUse
        PROVE  a = b \/ a + PAGE_UNITS <= b \/ b + PAGE_UNITS <= a
    <3>1. PICK x \in Owners : x.at = a /\ x.len = PAGE_UNITS
      BY PageOwner, Zenon
    <3>2. PICK y \in Owners : y.at = b /\ y.len = PAGE_UNITS
      BY PageOwner, Zenon
    <3>3. x = y \/ Apart(x, y)
      BY <2>0, Zenon DEF OwnersOK
    <3>4. QED
      BY <3>1, <3>2, <3>3 DEF Apart
  <2>3. ASSUME NEW a \in PagesInUse, NEW h \in mem.holes
        PROVE  a + PAGE_UNITS <= h.at \/ h.at + h.len <= a
    <3>1. PICK x \in Owners : x.at = a /\ x.len = PAGE_UNITS
      BY PageOwner, Zenon
    <3>2. Apart(x, h)
      BY <2>0, Zenon DEF OwnersOK, ApartFromAll
    <3>3. QED
      BY <3>1, <3>2 DEF Apart
  <2>4. QED
    BY <2>1, <2>2, <2>3 DEF PagesDisjoint
<1>2. QED
  BY <1>1, BootIInvariant, PTL

\* No M-mode trap saves registers over the frames of the boot
\* (machine_init.rs, trap/machine/interrupt.rs).
THEOREM BootStackNeverSmashed == Spec => []BootStackIntact
<1>1. IInv => BootStackIntact
  BY DEF IInv, InterruptsInv
<1>2. QED
  BY <1>1, BootIInvariant, PTL

\* Unless stimecmp has expired, no supervisor timer interrupt is taken between the
\* enabling of interrupts and the guest (hypervisor_init.rs, vsmode_setup).
THEOREM BootTakesNoStrayTrap == Spec => []NoStrayTrap
<1>1. IInv => NoStrayTrap
  BY DEF IInv, InterruptsInv
<1>2. QED
  BY <1>1, BootIInvariant, PTL

\* Once the IOMMU translates, and as long as the fault records fit the page
\* allocated for them (fqt <= 1), every device goes through the guest's page table
\* and no page of the IOMMU is the guest's (iommu.rs, init_page_table).
THEOREM BootConfinesDma == Spec => []DmaConfined
<1>1. IInv => DmaConfined
  <2> SUFFICES ASSUME IInv, ddtp = "Lv1", fqt <= 1
      PROVE  /\ ddt.iohgatp = hgatp /\ hgatp = "ROOT_PAGE_TABLE"
             /\ ddt.at \notin mem.ram
             /\ \A q \in DOMAIN queue :
                    queue[q].on /\ queue[q].base \notin mem.ram \cup {ddt.at}
    BY Zenon DEF DmaConfined
  <2>1. /\ ddt.iohgatp = hgatp /\ hgatp = "ROOT_PAGE_TABLE" /\ DOMAIN queue = Queues
        /\ \A q \in Queues : queue[q].on /\ queue[q].en
    BY DEF IInv, IommuInv
  <2>2. Owner("ddt", ddt.at, PAGE_UNITS) \in Owners
    BY DEF Owners, IommuOwners
  <2>3. \A r \in mem.ram : Owner("ram", r, PAGE_UNITS) \in Owners
    BY DEF Owners, HeapOwners
  <2>4. \A q \in Queues : Owner(q, queue[q].base, PAGE_UNITS) \in Owners
    BY <2>1 DEF Owners, IommuOwners
  <2>5. ddt.at \notin mem.ram
    BY <2>2, <2>3, KindsApart
  <2>6. ASSUME NEW q \in Queues PROVE queue[q].base \notin mem.ram \cup {ddt.at}
    <3>1. q # "ram" /\ q # "ddt"
      BY DEF Queues
    <3>2. QED
      BY <2>2, <2>3, <2>4, <3>1, KindsApart
  <2>7. QED
    BY <2>1, <2>5, <2>6
<1>2. QED
  BY <1>1, BootIInvariant, PTL
=============================================================================
