---------------------------- MODULE ZicfissGuest ----------------------------
(***************************************************************************)
(* The shadow-stack emulation with a guest that uses it (external): a      *)
(* kernel with threads in one address space.  Threads call and return, and *)
(* a return address on their ordinary stack may have been overwritten.     *)
(* The kernel switches between them, moves shadow stack pages out of       *)
(* memory and back, answers a page fault by bringing the page in and       *)
(* running the instruction again, and replaces a thread that failed a      *)
(* check.  Each instruction they trap on is an operator of module Zicfiss. *)
(***************************************************************************)
EXTENDS Zicfiss

CONSTANTS
    Thread,
    Base,         \* thread -> the word above its shadow stack
    Size,         \* thread -> words of its shadow stack; the bound on its calls
    SwapEntry,    \* what the kernel leaves in the entry of a page moved out
    Pinned,       \* pages a thread may push to stay in memory
    Modes,        \* translation modes the guest may choose
    Layouts,      \* page tables the kernel may start with, by mode
    Users         \* sets of threads that have a shadow stack

ASSUME GuestAssumption ==
    /\ Size \in [Thread -> Nat] /\ Base \in [Thread -> 0..(WORDS - 1)]
    /\ \A t \in Thread : Size[t] <= Base[t]
    \* Not a leaf (Linux keeps R, W and X clear in a swap entry), not valid.
    /\ SwapEntry \in [ppn : Nat, flags : SUBSET Flags]
    /\ ~is_leaf(SwapEntry) /\ ~already_created(SwapEntry)
    /\ Pinned \in BOOLEAN
    /\ \A u \in Users : u \subseteq Thread
    /\ Modes \subseteq {"Sv39", "Sv48", "Sv57"}
    /\ "idle" \notin Thread
    \* No word belongs to two threads.
    /\ \A t, u \in Thread : t = u \/ Base[t] <= Base[u] - Size[u] \/ Base[u] <= Base[t] - Size[t]

VARIABLES
    cur,     \* the running thread, or Idle
    uses,    \* the threads with a shadow stack
    saved,   \* their shadow stack pointers while others run
    th,      \* run, fault (waits for a page), retry, or check (stopped)
    todo,    \* the instruction a thread runs again: operation and register
    calls,   \* the return addresses each user has to come back to
    astray,  \* the users that have returned to another address
    frame,   \* where the kernel keeps each page: a frame of its own, one of
             \* a superpage, or 0 for nowhere
    swap,    \* contents of the pages moved out
    kss      \* the kernel was told that it has a shadow stack

threads == <<th, todo, calls, astray>>
kernel == <<cur, uses, saved, frame, swap, kss>>
vars == <<zicfiss, guestMemory, hart, threads, kernel>>

Idle == "idle"
EmptyPage == [o \in 0..(PAGE_WORDS - 1) |-> 0]
NoInstruction == <<"none", 0>>
Region(t) == {PageOf(s) : s \in (Base[t] - Size[t])..(Base[t] - 1)}
RegionPages == UNION {Region(t) : t \in Thread}

\* The page tables the kernel starts with.  A page of a shadow stack has an entry
\* of its own in a table of the last level, which holds no other entries on
\* anyone's way, lies in a superpage, or is not there.
IsPointer(e) == already_created(e) /\ e.flags \cap {"R", "W", "X"} = {}
IsStackPage(e) == {"V", "W", "U"} \subseteq e.flags /\ e.flags \cap {"R", "X"} = {}
InTable(mode, walk) ==
    /\ \A l \in 0..4 : walk[l].table \in Tables
    /\ \A l \in 1..(Levels(mode) - 1) : IsPointer(walk[l].entry)
    /\ IsStackPage(walk[0].entry) /\ walk[0].entry.ppn \in Frames
InSuperpage(mode, page, walk) ==
    /\ walk[0].table \notin Tables
    /\ \E l \in 1..(Levels(mode) - 1) :
          /\ \A k \in (l + 1)..(Levels(mode) - 1) : IsPointer(walk[k].entry)
          /\ IsStackPage(walk[l].entry) /\ walk[l].entry.ppn % Span(l) = 0
          /\ walk[l].entry.ppn + (page % Span(l)) \in Frames
Missing(mode, walk) ==
    /\ walk[0].table \notin Tables
    /\ \A l \in 0..(Levels(mode) - 1) : ~is_leaf(walk[l].entry)
    /\ \E l \in 0..(Levels(mode) - 1) : ~already_created(walk[l].entry)

Memory == Tables \cup Frames \cup {0}
ASSUME LayoutAssumption ==
    \A layout \in Layouts, mode \in Modes :
        LET p == layout[mode] IN
        /\ p \in [Memory -> [0..(PAGE_TABLE_LEN - 1) -> [ppn : Memory, flags : SUBSET Flags]]]
        /\ \A a \in RegionPages :
              LET w == Walk(p, mode, a)
              IN InTable(mode, w) \/ InSuperpage(mode, a, w) \/ Missing(mode, w)
        /\ \A a, b \in RegionPages :
              LET v == Walk(p, mode, a)
                  w == Walk(p, mode, b)
              IN /\ a # b /\ hw_walk(mode, a, v) # Fault => hw_walk(mode, a, v) # hw_walk(mode, b, w)
                 /\ a # b /\ v[0].table = w[0].table => vpn(a, 0) # vpn(b, 0)
                 /\ v[0].table \in Tables => \A l \in 1..4 : w[l].table # v[0].table

\* The pages with an entry of their own in a table of the last level: those
\* the kernel can move.
WalkTo(page) == Walk(ptab, vsatp, page)
LeafTable(page) == WalkTo(page)[0].table
Movable(page) == LeafTable(page) \in Tables
Resident(page) == frame[page] # 0
FreeFrames == Frames \ {frame[p] : p \in RegionPages}

GuestInit ==
    /\ ZicfissInit /\ senvcfg = {"CBZE"}
    /\ hart = "guest"
    /\ vsatp \in Modes
    /\ \E l \in Layouts : ptab = l[vsatp]
    /\ mem = [f \in Frames |-> EmptyPage]
    /\ cur = Idle
    /\ uses \in Users
    /\ saved = [t \in Thread |-> IF t \in uses THEN Base[t] ELSE 0]
    /\ th = [t \in Thread |-> "run"]
    /\ todo = [t \in Thread |-> NoInstruction]
    /\ calls = [t \in Thread |-> <<>>]
    /\ astray = {}
    /\ frame = [p \in RegionPages |-> Max({0, hw_walk(vsatp, p, WalkTo(p))})]
    /\ swap = [p \in RegionPages |-> EmptyPage]
    /\ kss = FALSE

\* A thread's shadow stack pointer, wherever it is kept.
Sp(t) == IF t = cur THEN ssp ELSE saved[t]

----------------------------------------------------------------------------
(* Threads                                                                 *)

\* The running thread executes op with the register value v.  A fault keeps
\* the instruction for the retry, a failed check keeps it for the record.
Execute(op, v) ==
    LET r == Result(op, v, 0)
        done == r = "ok" /\ cur \in uses
        n == Len(calls[cur])
    IN /\ instruction(op, v, 0)
       /\ th' = [th EXCEPT ![cur] = IF r \in {"fault", "check"} THEN r ELSE "run"]
       /\ todo' = [todo EXCEPT ![cur] =
                      IF r \in {"fault", "check"} THEN <<op, v>> ELSE NoInstruction]
       /\ calls' = [calls EXCEPT ![cur] =
                       IF ~done THEN @
                       ELSE IF op = "SSPUSH" THEN Append(@, v) ELSE SubSeq(@, 1, n - 1)]
       /\ astray' = IF done /\ op = "SSPOPCHK" /\ v # calls[cur][n]
                    THEN astray \cup {cur} ELSE astray
       /\ UNCHANGED kernel

Call(v) ==
    /\ cur # Idle /\ th[cur] = "run"
    /\ Len(calls[cur]) < Size[cur]
    /\ Execute("SSPUSH", v)

\* v comes from the ordinary stack and may be anything.
Return(v) ==
    /\ cur # Idle /\ th[cur] = "run"
    /\ cur \in uses => calls[cur] # <<>>
    /\ Execute("SSPOPCHK", v)

Retry ==
    /\ cur # Idle /\ th[cur] = "retry"
    /\ Execute(todo[cur][1], todo[cur][2])

----------------------------------------------------------------------------
(* The kernel                                                              *)

\* The pointer is exchanged by one CSRRW between registers other than x0.
\* The enable bit is set with CSRRW or CSRRS and cleared with CSRRC; a CSRRW
\* that means to clear it does not (csr_field).
Switch(t) ==
    /\ hart = "guest" /\ kss /\ t # cur
    /\ csr("CSRRW", saved[t])
    /\ \E op \in (IF t \in uses THEN {"CSRRW", "CSRRS"} ELSE {"CSRRC"}) :
          virtual_instruction(op, TRUE, {})
    /\ saved' = [u \in Thread |-> IF u = cur THEN ssp ELSE saved[u]]
    /\ cur' = t
    /\ UNCHANGED <<henv_sse, guestMemory, hart, threads, uses, frame, swap, kss>>

\* Under Pinned the pages that a push may need are left alone: it is the
\* rule by which a kernel avoids faults on pushes.
MayMoveOut(page) ==
    Pinned => \A t \in uses : page \in Region(t) => page * PAGE_WORDS >= Sp(t)

PageOut(page) ==
    /\ hart = "guest"
    /\ Movable(page) /\ Resident(page) /\ MayMoveOut(page)
    /\ swap' = [swap EXCEPT ![page] = mem[frame[page]]]
    /\ mem' = [mem EXCEPT ![frame[page]] = EmptyPage]
    /\ frame' = [frame EXCEPT ![page] = 0]
    /\ ptab' = [ptab EXCEPT ![LeafTable(page)][vpn(page, 0)] = SwapEntry]
    /\ UNCHANGED <<zicfiss, vsatp, hart, threads, cur, uses, saved, kss>>

PageIn(page) ==
    /\ hart = "guest"
    /\ Movable(page) /\ ~Resident(page)
    /\ FreeFrames # {}
    /\ LET f == Min(FreeFrames) IN
       /\ mem' = [mem EXCEPT ![f] = swap[page]]
       /\ frame' = [frame EXCEPT ![page] = f]
       /\ ptab' = [ptab EXCEPT ![LeafTable(page)][vpn(page, 0)] =
                      PageTableEntry(f, {"V", "W", "U"})]
    /\ swap' = [swap EXCEPT ![page] = EmptyPage]
    /\ UNCHANGED <<zicfiss, vsatp, hart, threads, cur, uses, saved, kss>>

\* The page fault handler returns once the page is there.
FaultHandled ==
    /\ hart = "guest"
    /\ cur # Idle /\ th[cur] = "fault"
    /\ Resident(PageOf(ssp))
    /\ th' = [th EXCEPT ![cur] = "retry"]
    /\ UNCHANGED <<zicfiss, guestMemory, hart, todo, calls, astray, kernel>>

\* A thread that failed a check is replaced by one with an empty stack.
Restart ==
    /\ hart = "guest"
    /\ cur # Idle /\ th[cur] = "check"
    /\ Pinned => \A p \in Region(cur) : Resident(p)
    /\ csr("CSRRW", Base[cur])
    /\ th' = [th EXCEPT ![cur] = "run"]
    /\ todo' = [todo EXCEPT ![cur] = NoInstruction]
    /\ calls' = [calls EXCEPT ![cur] = <<>>]
    /\ UNCHANGED <<henv_sse, senv_sse, senvcfg, guestMemory, hart, astray, kernel>>

\* While it starts, the kernel asks for a shadow stack of its own; from then
\* on it pushes and pops too.
KernelEnable ==
    /\ ~kss /\ sbi_fwft_handler
    /\ kss' = TRUE
    /\ UNCHANGED <<threads, cur, uses, saved, frame, swap>>

KernelCall(op) ==
    /\ kss
    /\ \E v \in Ra : instruction(op, v, 1)
    /\ UNCHANGED <<threads, kernel>>

GuestNext ==
    \/ \E v \in Ra : Call(v) \/ Return(v)
    \/ Retry
    \/ \E t \in Thread : Switch(t)
    \/ \E p \in RegionPages : PageOut(p) \/ PageIn(p)
    \/ FaultHandled \/ Restart
    \/ KernelEnable \/ KernelCall("SSPUSH") \/ KernelCall("SSPOPCHK")

GuestSpec == GuestInit /\ [][GuestNext]_vars

----------------------------------------------------------------------------

\* Type correctness; in it, that the words of shadow stack pages are return
\* addresses (zicfiss.rs:62).
TypeOK ==
    /\ ssp \in 0..(WORDS - 1) /\ {henv_sse, senv_sse, kss} \subseteq BOOLEAN
    /\ senvcfg \subseteq {"CBZE"} /\ hart \in {"guest", "panic"}
    /\ vsatp \in Modes
    /\ ptab \in [Memory -> [0..(PAGE_TABLE_LEN - 1) ->
                                [ppn : Memory \cup {SwapEntry.ppn}, flags : SUBSET Flags]]]
    /\ mem \in [Frames -> [0..(PAGE_WORDS - 1) -> Ra \cup {0}]]
    /\ frame \in [RegionPages -> Frames \cup {0}]
    /\ swap \in [RegionPages -> [0..(PAGE_WORDS - 1) -> Ra \cup {0}]]
    /\ cur \in Thread \cup {Idle} /\ uses \subseteq Thread
    /\ saved \in [Thread -> 0..(WORDS - 1)]
    /\ th \in [Thread -> {"run", "fault", "retry", "check"}]
    /\ calls \in [Thread -> Seq(Ra)] /\ DOMAIN todo = Thread
    /\ \A t \in Thread :
           todo[t] \in IF th[t] = "run" THEN {NoInstruction} ELSE {"SSPUSH", "SSPOPCHK"} \X Ra
    /\ astray \subseteq Thread

\* The check fails for a return address that was overwritten, and for no
\* other: pushes and pops find the same word however the thread was
\* interrupted, moved to other frames or made to retry between them
\* (zicfiss.rs:62, 72).
NoFalseAlarm ==
    \A t \in Thread : th[t] = "check" => todo[t][2] # calls[t][Len(calls[t])]

\* A thread with a shadow stack never returns anywhere but to its caller: its
\* enable bit survives every switch and CSR write (zicfiss.rs:205), and every
\* pop is compared (zicfiss.rs:124).
ReturnsChecked == astray = {}

\* A thread finds its pointer where its calls left it, whichever threads and
\* kernel code ran in between (zicfiss.rs:86, 168, 215); the pointer is one
\* word ahead after a failed check (75).  A thread without a shadow stack,
\* and the kernel, read 0 and move nothing.
PointerExact ==
    hart = "guest" =>
        /\ \A t \in Thread :
              Sp(t) = IF t \notin uses THEN 0
                      ELSE Base[t] - Len(calls[t]) + (IF th[t] = "check" THEN 1 ELSE 0)
        /\ cur # Idle => ssrdp(0) = Sp(cur)
        /\ ssrdp(1) = 0

\* The hypervisor stops only for a page that the hart would not find either,
\* in Sv39 or where a table is missing, or in a mode it does not implement
\* (sv39.rs:100, page_table.rs:158): not on superpages, W-only pages or
\* pages that were moved out and back.
StopsOnlyOnMissingPage ==
    hart = "panic" =>
        \/ vsatp \notin {"Sv39", "Sv57"}
        \/ /\ hw_walk(vsatp, PageOf(ssp), WalkTo(PageOf(ssp))) = Fault
           /\ vsatp = "Sv39" \/ LeafTable(PageOf(ssp)) \notin Tables

\* Refinement: read back from where the kernel keeps its pages, the words between a
\* thread's pointer and its base are its abstract stack.
WordAt(s) ==
    IF Resident(PageOf(s)) THEN mem[frame[PageOf(s)]][Offset(s)]
    ELSE swap[PageOf(s)][Offset(s)]
\* A failed check has moved the pointer already; an instruction in which the
\* hypervisor stopped does not count.
Top(t) ==
    IF th[t] = "check" THEN Sp(t) - 1
    ELSE IF hart = "panic" /\ t = cur THEN Base[t] - Len(calls[t])
    ELSE Sp(t)
Remembered(t) ==
    IF t \in uses THEN [i \in 1..(Base[t] - Top(t)) |-> WordAt(Base[t] - i)] ELSE <<>>
Abstract == INSTANCE ShadowStacks
    WITH stack <- [t \in Thread |-> Remembered(t)],
         alarm <- [t \in Thread |-> IF th[t] = "check" THEN todo[t][2] ELSE 0]

\* The emulation gives every thread a stack of return addresses of its own:
\* each instruction, fault, retry and page move is one step of ShadowStacks or
\* none (zicfiss.rs:97).
ImplementsShadowStacks == Abstract!Spec
=============================================================================
