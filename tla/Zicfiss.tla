------------------------------ MODULE Zicfiss ------------------------------
(***************************************************************************)
(* Emulation of the Zicfiss extension (emulate_extension/zicfiss.rs): the  *)
(* hypervisor keeps the shadow stack pointer and the enable bits, finds    *)
(* the guest's shadow stack by walking the guest's own page table          *)
(* (memmap/page_table/sv39.rs, sv57.rs), and pushes and pops in its place. *)
(*                                                                         *)
(* Addresses are in words of 8 bytes.  A guest physical page is taken for  *)
(* the host page it is mapped to; that the G-stage walk finds that page is *)
(* WalksAgree of module GStage.  Page 0 is one the G-stage does not map.   *)
(* Locks and trap entry are in module TrapFlow.                            *)
(***************************************************************************)
EXTENDS Integers, Sequences, FiniteSets, FiniteSetsExt, PageTable

CONSTANTS
    PAGE_TABLE_LEN,   \* 512
    PAGE_WORDS,       \* 512: a page in words
    Tables, ROOT,     \* guest physical pages that hold tables; vsatp.ppn
    Frames,           \* guest physical pages that hold data
    Ra                \* return addresses

\* Page 0 never holds a table or data: a missing entry leads there.
ASSUME ZicfissAssumption ==
    /\ PAGE_TABLE_LEN \in Nat \ {0} /\ PAGE_WORDS \in Nat \ {0}
    /\ Frames \cup Tables \subseteq Nat \ {0}
    /\ Frames \cap Tables = {} /\ ROOT \in Tables
    /\ 0 \notin Ra

VARIABLES
    ssp, henv_sse, senv_sse,  \* struct Zicfiss
    senvcfg,                  \* the other fields of the hart's senvcfg
    vsatp,                    \* mode of the guest's translation
    ptab,                     \* the guest's pages as tables: page -> index -> entry
    mem,                      \* its data pages: page -> offset -> word
    hart                      \* "guest", or "panic" once the hypervisor stopped

zicfiss == <<ssp, henv_sse, senv_sse, senvcfg>>
guestMemory == <<vsatp, ptab, mem>>

----------------------------------------------------------------------------
(* VS-stage translation                                                    *)

\* The levels of a mode; 5 is also what a shadow stack pointer can address.
Levels(mode) == CASE mode = "Sv39" -> 3 [] mode = "Sv48" -> 4 [] OTHER -> 5
Span(level) ==
    LET L == PAGE_TABLE_LEN
    IN CASE level = 0 -> 1         [] level = 1 -> L             [] level = 2 -> L * L
         [] level = 3 -> L * L * L [] level = 4 -> L * L * L * L [] level = 5 -> L * L * L * L * L
vpn(page, level) == (page \div Span(level)) % PAGE_TABLE_LEN
WORDS == Span(5) * PAGE_WORDS

Fault == -1   \* Err(()): the guest gets a page fault
Stop == -2    \* an assert!, unreachable! or unimplemented! of the walk

\* The walk of a page down the table: level -> the table it reaches there and
\* the entry it reads, starting from the root at the top level of the mode.
Walk(p, mode, page) ==
    LET below(t, level) == IF level < Levels(mode) THEN p[t][vpn(page, level)].ppn ELSE ROOT
        t3 == below(ROOT, 4)
        t2 == below(t3, 3)
        t1 == below(t2, 2)
        t0 == below(t1, 1)
        table(l) == CASE l = 4 -> ROOT [] l = 3 -> t3 [] l = 2 -> t2 [] l = 1 -> t1 [] l = 0 -> t0
    IN [l \in 0..4 |-> [table |-> table(l), entry |-> p[table(l)][vpn(page, l)]]]

\* The first leaf on the way down decides, and must be aligned; V is never
\* looked at.
Leaves(mode, walk) == {l \in 0..(Levels(mode) - 1) : is_leaf(walk[l].entry)}
leaf_addr(page, level, ppn) ==
    IF ppn % Span(level) = 0 THEN ppn + (page % Span(level)) ELSE Stop

\* sv39::trans_addr: without a leaf at the last level unreachable!().
sv39_trans_addr(page, walk) ==
    LET leaves == Leaves("Sv39", walk)
        level == Max(leaves)
    IN IF leaves # {} THEN leaf_addr(page, level, walk[level].entry.ppn) ELSE Stop

\* sv57::trans_addr: without a leaf Err(()).  A table that is not mapped stops
\* the hypervisor in the G-stage walk.
sv57_trans_addr(page, walk) ==
    LET leaves == Leaves("Sv57", walk)
        level == Max(leaves)
    IN IF leaves # {} THEN leaf_addr(page, level, walk[level].entry.ppn)
       ELSE IF \A l \in 0..4 : walk[l].table \in Tables THEN Fault ELSE Stop

vs_stage_trans_addr(mode, page, walk) ==
    CASE mode = "Sv39" -> sv39_trans_addr(page, walk)
      [] mode = "Sv57" -> sv57_trans_addr(page, walk)
      [] OTHER -> Stop

\* The hart's own walk for a shadow stack access (external): entries valid,
\* the leaf a shadow stack page (W alone) of the user, superpages aligned.
hw_walk(mode, page, walk) ==
    LET ends == {l \in 0..(Levels(mode) - 1) :
                    \/ ~already_created(walk[l].entry)
                    \/ walk[l].entry.flags \cap {"R", "W", "X"} # {}}
        level == Max(ends)
        e == walk[level].entry
    IN IF /\ mode # "Bare" /\ ends # {}
          /\ {"V", "W", "U"} \subseteq e.flags /\ e.flags \cap {"R", "X"} = {}
          /\ e.ppn % Span(level) = 0
       THEN e.ppn + (page % Span(level)) ELSE Fault

----------------------------------------------------------------------------
(* The shadow stack                                                        *)

\* byte_sub and byte_add of one word, in 64 bits
Down(s) == (s + WORDS - 1) % WORDS
Up(s) == (s + 1) % WORDS
PageOf(s) == s \div PAGE_WORDS
Offset(s) == s % PAGE_WORDS

\* The page where the word at s lies.  A translated page outside the guest's
\* data (a table, or unmapped) does not occur in the instances.
ssp_hp_ptr(s) ==
    LET page == PageOf(s)
        r == vs_stage_trans_addr(vsatp, page, Walk(ptab, vsatp, page))
    IN
    IF r \in Frames \cup {Fault} THEN r ELSE Stop

\* Mutant: the store goes where the pointer was.
ss_push_late(value) ==
    LET r == ssp_hp_ptr(ssp) IN
    /\ ssp' = Down(ssp)
    /\ mem' = IF r \in Frames THEN [mem EXCEPT ![r][Offset(ssp)] = value] ELSE mem

\* Mutant: the wrong register is pushed.
ss_push_pointer(value) ==
    LET r == ssp_hp_ptr(Down(ssp)) IN
    /\ ssp' = Down(ssp)
    /\ mem' = IF r \in Frames THEN [mem EXCEPT ![r][Offset(ssp')] = ssp] ELSE mem

\* The pointer moves first; the translation that follows may fault.
ss_push(value) ==
    LET r == ssp_hp_ptr(Down(ssp)) IN
    /\ ssp' = Down(ssp)
    /\ mem' = IF r \in Frames THEN [mem EXCEPT ![r][Offset(ssp')] = value] ELSE mem

\* Mutant: the pointer is not moved.
ss_pop_stays == UNCHANGED <<ssp, mem>>

\* The pointer moves after the load, and before the caller compares.
ss_pop ==
    /\ ssp' = IF ssp_hp_ptr(ssp) \in Frames THEN Up(ssp) ELSE ssp
    /\ UNCHANGED mem

\* Mutant: the supervisor's bit is never looked at.
is_ss_enable_user(spp) == senv_sse

is_ss_enable(spp) == IF spp = 0 THEN senv_sse ELSE henv_sse

Popped == mem[ssp_hp_ptr(ssp)][Offset(ssp)]

\* What becomes of SSPUSH and SSPOPCHK (and their compressed forms) with the
\* register value given: "ok", a page fault or a software check for the
\* guest, or a panic.
Result(op, value, spp) ==
    LET r == ssp_hp_ptr(IF op = "SSPUSH" THEN Down(ssp) ELSE ssp) IN
    IF ~is_ss_enable(spp) THEN "ok"
    ELSE IF r = Stop THEN "panic"
    ELSE IF r = Fault THEN "fault"
    ELSE IF op = "SSPOPCHK" /\ Popped # value THEN "check"
    ELSE "ok"

\* Zicfiss::instruction
instruction(op, value, spp) ==
    /\ hart = "guest"
    /\ IF ~is_ss_enable(spp) THEN UNCHANGED <<ssp, mem>>
       ELSE \/ op = "SSPUSH" /\ ss_push(value)
            \/ op = "SSPOPCHK" /\ ss_pop
    /\ hart' = IF Result(op, value, spp) = "panic" THEN "panic" ELSE "guest"
    /\ UNCHANGED <<henv_sse, senv_sse, senvcfg, vsatp, ptab>>

\* What SSRDP reads.
ssrdp(spp) == IF is_ss_enable(spp) THEN ssp ELSE 0

\* EmulatedCsr::set and clear, bit by bit.
Bits(n) ==
    LET shifted[k \in 0..63] == IF k = 0 THEN n ELSE shifted[k - 1] \div 2
    IN {k \in 0..63 : shifted[k] % 2 = 1}
WithBits(s, mask) == CHOOSE n \in 0..(WORDS - 1) : Bits(n) = Bits(s) \cup Bits(mask)
WithoutBits(s, mask) == CHOOSE n \in 0..(WORDS - 1) : Bits(n) = Bits(s) \ Bits(mask)

\* Zicfiss::csr on ssp (the guest's rd receives the pointer as it was).  The
\* operand is the immediate, or what the slot of rs1 holds among the saved
\* registers.  That of x0 is a slot like the others, which set_xreg writes
\* and hstrap_vector never refreshes: CSRRS and CSRRC with x0 change the
\* pointer by whatever an earlier emulated instruction left there.
csr(op, operand) ==
    ssp' = CASE op \in {"CSRRW", "CSRRWI"} -> operand
             [] op \in {"CSRRS", "CSRRSI"} -> WithBits(ssp, operand)
             [] op \in {"CSRRC", "CSRRCI"} -> WithoutBits(ssp, operand)

\* Mutant: CSRRS does not set the bit.
csr_field_write_only(op, sse) ==
    senv_sse' = IF op = "CSRRW" /\ sse THEN TRUE
                ELSE IF op = "CSRRC" /\ sse THEN FALSE
                ELSE senv_sse

\* Zicfiss::csr_field: the SSE bit of the operand (of an immediate form, the
\* register with the number of the immediate).
csr_field(op, sse) ==
    senv_sse' = IF op \in {"CSRRW", "CSRRS", "CSRRWI", "CSRRSI"} /\ sse THEN TRUE
                ELSE IF op \in {"CSRRC", "CSRRCI"} /\ sse THEN FALSE
                ELSE senv_sse

\* virtual_instruction: the operand of a CSRRS or CSRRC replaces the other
\* fields too.
virtual_instruction(op, sse, fields) ==
    /\ csr_field(op, sse)
    /\ senvcfg' = fields

\* sbi_fwft_handler: the kernel asks for a shadow stack of its own and is told
\* that it has one; henv_sse stays as it is.
sbi_fwft_handler == hart = "guest" /\ UNCHANGED <<zicfiss, guestMemory, hart>>

\* Zicfiss::new
ZicfissInit == ssp = 0 /\ henv_sse = FALSE /\ senv_sse = FALSE
=============================================================================
