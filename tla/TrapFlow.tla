------------------------------ MODULE TrapFlow ------------------------------
(***************************************************************************)
(* One hart going through the trap handlers of hikami, with the three spin *)
(* locks they share:                                                       *)
(*                                                                         *)
(*   HV   HYPERVISOR_DATA (main.rs)      ZIC  ZICFISS_DATA (zicfiss.rs)    *)
(*   SBI  SBI (main.rs)                                                    *)
(*                                                                         *)
(* A guest trap enters HS-mode at hstrap_vector, which saves the guest's   *)
(* context on the hypervisor stack; the handler of the cause works on that *)
(* context; hstrap_exit restores it.  HS-mode runs with its interrupts     *)
(* off, but M-mode interrupts may arrive between any two of its steps, and *)
(* the SBI handlers enter M-mode themselves with an ecall.                 *)
(*                                                                         *)
(* An expression such as HYPERVISOR_DATA.lock().get().unwrap().guest()     *)
(* .context takes and drops the lock within one statement: it is a guard   *)
(* (Free) of the step.  A lock kept in a variable is held across steps.    *)
(* The mutexes spin, so a step that needs a lock held by the same hart is  *)
(* never taken: that is a self-deadlock.                                   *)
(***************************************************************************)
EXTENDS Integers

CONSTANTS
    GuestPc,          \* addresses of the guest's own code
    VSTVEC,           \* the guest's trap vector
    HSTRAP_VECTOR     \* the address in stvec: hypervisor code

ASSUME AddressAssumption ==
    /\ GuestPc \subseteq Nat /\ GuestPc # {}
    /\ VSTVEC \in Nat /\ HSTRAP_VECTOR \in Nat
    /\ VSTVEC # HSTRAP_VECTOR
    /\ {VSTVEC, HSTRAP_VECTOR} \cap GuestPc = {}
    \* No instruction at a guest address falls through into a vector.
    /\ \A p \in GuestPc : {p + 2, p + 4} \cap {VSTVEC, HSTRAP_VECTOR} = {}

Locks == {"HV", "ZIC", "SBI"}
Interrupts == {"soft", "timer", "ext"}

\* Exceptions the guest raises that medeleg sends to HS-mode and hedeleg
\* keeps there.  ecall_other stands for the EIDs sbi_vs_mode_handler
\* refuses, illegal_other and virtual_other for what their handlers do not
\* implement, reflect for the causes of the `_` arm (access faults,
\* misaligned loads and stores).
Emulated == {"illegal", "ssp_csr", "senvcfg", "load", "store",
             "ecall_base", "ecall_rfnc", "ecall_fwft"}
Unimplemented == {"illegal_other", "virtual_other", "ecall_other"}
Exceptions == Emulated \cup Unimplemented \cup {"reflect"}
Ecalls == {"ecall_base", "ecall_rfnc", "ecall_fwft", "ecall_other"}

\* Where the HS handler is, named after the function that runs next.
HsLabels == {"none", "hstrap_vector", "zicfiss_lock", "zicfiss_instruction",
             "zicfiss_csr_lock", "zicfiss_csr", "illegal_done",
             "virtual_instruction", "senvcfg_field", "ecall", "sbi_rt",
             "sbi_return", "load_lock", "load_emulate", "store_lock",
             "store_emulate", "forward", "pseudo", "interrupt", "exit"}
MLabels == {"none", "interrupt", "exception", "forward", "envcall", "handle_ecall"}
Guest == {"VS", "VU"}

VARIABLES
    mode,     \* privilege the hart runs in, or "panic"
    hs,       \* next step of the HS handler
    m,        \* next step of the M handler
    mpp,      \* mode the M handler returns to (MPP and MPV)
    lock,     \* holder of each lock: "free", "HS" or "M"
    cause,    \* scause of the trap being handled
    ilen,     \* length of the trapping instruction (stval, htinst)
    spp,      \* sstatus.SPP: the guest mode the trap came from
    pc,       \* the guest's pc; while it is trapped, of the trapped instruction
    ctx,      \* the saved sepc and the SPP bit of sstatus
    vs,       \* vsepc and vsstatus of the guest
    sip, stie,\* HS-level interrupts pending; sie.STIE
    mip       \* M-level interrupts pending

vars == <<mode, hs, m, mpp, lock, cause, ilen, spp, pc, ctx, vs, sip, stie, mip>>
guestVars == <<pc, vs>>
trapVars == <<cause, ilen, spp>>
intVars == <<sip, stie, mip>>

Pc == {p + d : p \in GuestPc, d \in {0, 2, 4}} \cup {VSTVEC, HSTRAP_VECTOR}

\* What the handlers use of the saved context.
ContextData == [sepc : Pc, spp : Guest]

TypeOK ==
    /\ mode \in Guest \cup {"HS", "M", "panic"}
    /\ hs \in HsLabels
    /\ m \in MLabels
    /\ mpp \in Guest \cup {"HS"}
    /\ lock \in [Locks -> {"free", "HS", "M"}]
    /\ cause \in Exceptions \cup Interrupts \cup {"inst_gpf", "none"}
    /\ ilen \in {2, 4}
    /\ spp \in Guest
    /\ pc \in Pc
    /\ ctx \in ContextData
    /\ vs \in [epc : Pc, spp : Guest, sie : BOOLEAN, spie : BOOLEAN]
    /\ sip \subseteq Interrupts
    /\ stie \in BOOLEAN
    /\ mip \subseteq {"soft", "timer"}

\* hart_entry has just executed sret into the guest's kernel.
Init ==
    /\ mode = "VS" /\ hs = "none" /\ m = "none" /\ mpp = "HS"
    /\ lock = [l \in Locks |-> "free"]
    /\ cause = "none" /\ ilen = 4 /\ spp = "VS"
    /\ pc \in GuestPc
    /\ ctx = [sepc |-> pc, spp |-> "VS"]
    /\ vs = [epc |-> pc, spp |-> "VS", sie |-> FALSE, spie |-> FALSE]
    /\ sip = {} /\ stie = TRUE /\ mip = {}

Free(l) == lock[l] = "free"
Take(l, who) == lock' = [lock EXCEPT ![l] = who]
Drop(l) == lock' = [lock EXCEPT ![l] = "free"]

\* panic!, unreachable!, unimplemented!, todo!: the handler parks the hart.
Panics ==
    /\ mode' = "panic"
    /\ UNCHANGED <<hs, m, mpp, lock, trapVars, guestVars, ctx, intVars>>

----------------------------------------------------------------------------
(* The guest and the devices (external).                                   *)

\* The guest runs on: another instruction, an sret to user code, a trap
\* that hedeleg gives to the guest itself.  It uses its trap CSRs as it
\* likes, so they hold what it last put there.
GuestStep ==
    /\ mode \in Guest
    /\ \E p \in GuestPc, md \in Guest, s \in BOOLEAN :
          /\ pc' = p /\ mode' = md
          /\ vs' = [epc |-> p, spp |-> md, sie |-> s, spie |-> s]
    /\ UNCHANGED <<hs, m, mpp, lock, trapVars, ctx, intVars>>

\* The CLINT is passed through: the guest's kernel may set msip, or arm
\* mtimecmp, which raises the timer at once or later.
GuestClint(i) ==
    /\ mode = "VS"
    /\ i \in {"soft", "timer"} \ mip
    /\ mip' = mip \cup {i}
    /\ UNCHANGED <<mode, hs, m, mpp, lock, trapVars, guestVars, ctx, sip, stie>>

\* A device interrupt reaches the PLIC's supervisor context.
DeviceInterrupt ==
    /\ "ext" \notin sip
    /\ sip' = sip \cup {"ext"}
    /\ UNCHANGED <<mode, hs, m, mpp, lock, trapVars, guestVars, ctx, stie, mip>>

\* The hardware traps to HS-mode.
EnterHS(c, n) ==
    /\ mode' = "HS" /\ hs' = "hstrap_vector"
    /\ cause' = c /\ ilen' = n /\ spp' = mode
    /\ UNCHANGED <<m, mpp, lock, guestVars, ctx, intVars>>

\* ecall from VU-mode is delegated to the guest; ecall and the CSR
\* instructions have no compressed form.
GuestException(c, n) ==
    /\ mode \in Guest
    /\ pc \in GuestPc
    /\ c \in Ecalls => mode = "VS"
    /\ c \in Ecalls \cup {"ssp_csr", "senvcfg"} => n = 4
    /\ EnterHS(c, n)

GuestInterrupt(i) ==
    /\ mode \in Guest
    /\ i \in sip
    /\ i = "timer" => stie
    /\ EnterHS(i, 4)

\* Instruction guest-page fault: the one guest exception medeleg leaves to
\* M-mode (machine_init.rs:21-38).
GuestInstructionFault ==
    /\ mode \in Guest
    /\ mode' = "M" /\ m' = "exception" /\ mpp' = mode
    /\ cause' = "inst_gpf"
    /\ UNCHANGED <<hs, lock, ilen, spp, guestVars, ctx, intVars>>

----------------------------------------------------------------------------
(* HS-mode: hypervisor_supervisor.rs                                       *)

At(l) == mode = "HS" /\ hs = l
Goto(l) == hs' = l /\ UNCHANGED <<mode, m, mpp, trapVars>>

\* trap_exception and HvException::from, trap_interrupt
Handler(c) ==
    CASE c \in {"illegal", "ssp_csr"} -> "zicfiss_lock"
      [] c = "senvcfg" -> "virtual_instruction"
      [] c \in Ecalls -> "ecall"
      [] c = "load" -> "load_lock"
      [] c = "store" -> "store_lock"
      [] c = "reflect" -> "forward"
      [] c \in Interrupts -> "interrupt"

\* Save the context, then dispatch on scause.
hstrap_vector ==
    /\ At("hstrap_vector")
    /\ ctx' = [sepc |-> pc, spp |-> spp]
    /\ IF cause \in {"illegal_other", "virtual_other"}
       THEN mode' = "panic" /\ UNCHANGED <<hs, m, mpp, trapVars>>
       ELSE Goto(Handler(cause))
    /\ UNCHANGED <<lock, guestVars, intVars>>

\* Outside a trap, scause, stval, htinst and SPP are dead: nothing reads
\* them before the next trap sets them.
NoTrap == cause' = "none" /\ ilen' = 4 /\ spp' = "VS"

\* hstrap_exit: read stack_top under HV, restore the context, sret.
hstrap_exit ==
    /\ At("exit") /\ Free("HV")
    /\ mode' = ctx.spp /\ pc' = ctx.sepc
    /\ hs' = "none" /\ NoTrap
    /\ UNCHANGED <<m, mpp, lock, vs, ctx, intVars>>

----------------------------------------------------------------------------
(* instruction_handler.rs, zicfiss.rs, emulate_extension.rs                *)

\* illegal_instruction: ZICFISS_DATA.lock() lives to the end of the match
\* arm.
illegal_instruction ==
    /\ At("zicfiss_lock") /\ Free("ZIC")
    /\ Take("ZIC", "HS")
    /\ Goto(IF cause = "illegal" THEN "zicfiss_instruction" ELSE "zicfiss_csr_lock")
    /\ UNCHANGED <<guestVars, ctx, intVars>>

\* Zicfiss::instruction: emulated (or the shadow stack is off), and the
\* lock is dropped with the match arm.
zicfiss_instruction ==
    /\ At("zicfiss_instruction") /\ Free("HV")
    /\ Drop("ZIC")
    /\ Goto("illegal_done")
    /\ UNCHANGED <<guestVars, ctx, intVars>>

\* Mutant: only HYPERVISOR_DATA is forced open.
zicfiss_fault_keeps_zic ==
    /\ At("zicfiss_instruction") /\ Free("HV")
    /\ Goto("pseudo")
    /\ UNCHANGED <<lock, guestVars, ctx, intVars>>

\* ... or the shadow stack is not mapped, or the check fails: both locks are
\* forced open and pseudo_vs_exception never returns here.
zicfiss_fault ==
    /\ At("zicfiss_instruction") /\ Free("HV")
    /\ lock' = [lock EXCEPT !["HV"] = "free", !["ZIC"] = "free"]
    /\ Goto("pseudo")
    /\ UNCHANGED <<guestVars, ctx, intVars>>

\* ... or SSAMOSWAP, which is todo!()
zicfiss_todo ==
    /\ At("zicfiss_instruction") /\ Free("HV")
    /\ Panics

\* Zicfiss::csr keeps HYPERVISOR_DATA for the whole function.
zicfiss_csr_lock ==
    /\ At("zicfiss_csr_lock") /\ Free("HV")
    /\ Take("HV", "HS")
    /\ Goto("zicfiss_csr")
    /\ UNCHANGED <<guestVars, ctx, intVars>>

zicfiss_csr ==
    /\ At("zicfiss_csr")
    /\ lock' = [lock EXCEPT !["HV"] = "free", !["ZIC"] = "free"]
    /\ Goto("illegal_done")
    /\ UNCHANGED <<guestVars, ctx, intVars>>

\* Mutant: compressed instructions are forgotten.
advance_4(n) == ctx' = [ctx EXCEPT !.sepc = @ + 4]

\* Mutant: handler and caller both step over the instruction.
advance_twice(n) == ctx' = [ctx EXCEPT !.sepc = @ + 2 * n]

\* context.update_sepc_by_inst
advance(n) == ctx' = [ctx EXCEPT !.sepc = @ + n]

illegal_done ==
    /\ At("illegal_done") /\ Free("HV")
    /\ advance(ilen)
    /\ Goto("exit")
    /\ UNCHANGED <<lock, guestVars, intVars>>

\* virtual_instruction fetches the context ...
virtual_instruction ==
    /\ At("virtual_instruction") /\ Free("HV")
    /\ Goto("senvcfg_field")
    /\ UNCHANGED <<lock, guestVars, ctx, intVars>>

\* ... and updates the senvcfg field under ZICFISS_DATA.
senvcfg_field ==
    /\ At("senvcfg_field") /\ Free("ZIC")
    /\ advance(ilen)
    /\ Goto("exit")
    /\ UNCHANGED <<lock, guestVars, intVars>>

\* Mutant: the guest's interrupts stay enabled.
pseudo_vs_exception_sie ==
    /\ At("pseudo") /\ Free("HV")
    /\ vs' = [vs EXCEPT !.epc = ctx.sepc, !.spp = spp]
    /\ ctx' = [sepc |-> VSTVEC, spp |-> "VS"]
    /\ Goto("exit")
    /\ UNCHANGED <<lock, pc, intVars>>

\* pseudo_vs_exception: enter the guest's trap vector in VS-mode.  SPIE is
\* only ever set here.
pseudo_vs_exception ==
    /\ At("pseudo") /\ Free("HV")
    /\ vs' = [epc |-> ctx.sepc, spp |-> spp, sie |-> FALSE,
              spie |-> vs.spie \/ vs.sie]
    /\ ctx' = [sepc |-> VSTVEC, spp |-> "VS"]
    /\ Goto("exit")
    /\ UNCHANGED <<lock, pc, intVars>>

----------------------------------------------------------------------------
(* exception.rs, page_fault_handler.rs                                     *)

\* hs_forward_exception: vsstatus and the saved SPP are left as they are.
hs_forward_exception ==
    /\ At("forward") /\ Free("HV")
    /\ vs' = [vs EXCEPT !.epc = ctx.sepc]
    /\ ctx' = [ctx EXCEPT !.sepc = VSTVEC]
    /\ Goto("exit")
    /\ UNCHANGED <<lock, pc, intVars>>

\* Both page-fault handlers keep HYPERVISOR_DATA in a variable.
page_fault_lock ==
    /\ At("load_lock") \/ At("store_lock")
    /\ Free("HV")
    /\ Take("HV", "HS")
    /\ Goto(IF hs = "load_lock" THEN "load_emulate" ELSE "store_emulate")
    /\ UNCHANGED <<guestVars, ctx, intVars>>

\* Mutant: the store handler returns without drop(hypervisor_data).
page_fault_ok_keeps_hv ==
    /\ At("load_emulate") \/ At("store_emulate")
    /\ advance(ilen)
    /\ Goto("exit")
    /\ UNCHANGED <<lock, guestVars, intVars>>

\* Ok: the result is stored, sepc moves on, the guard is dropped (at the end
\* of the load handler, explicitly in the store handler).
page_fault_ok ==
    /\ At("load_emulate") \/ At("store_emulate")
    /\ advance(ilen)
    /\ Drop("HV")
    /\ Goto("exit")
    /\ UNCHANGED <<guestVars, intVars>>

\* Err: hs_forward_exception is called with the guard still alive.
page_fault_err ==
    /\ At("load_emulate") \/ At("store_emulate")
    /\ Goto("forward")
    /\ UNCHANGED <<lock, guestVars, ctx, intVars>>

\* The emulation indexes past its table, or the store value is no u32.
page_fault_panic ==
    /\ At("load_emulate") \/ At("store_emulate")
    /\ Panics

\* EcallFromVsMode and sbi_vs_mode_handler: FWFT is answered here, BASE and
\* RFNC by an ecall of the hypervisor itself.
ecall_from_vs ==
    /\ At("ecall") /\ Free("HV")
    /\ cause # "ecall_other"
    /\ Goto(IF cause = "ecall_fwft" THEN "sbi_return" ELSE "sbi_rt")
    /\ UNCHANGED <<lock, guestVars, ctx, intVars>>

\* Another EID, or another function of a known one.
ecall_unsupported ==
    /\ At("ecall") /\ Free("HV")
    /\ Panics

sbi_rt_ecall ==
    /\ At("sbi_rt")
    /\ mode' = "M" /\ m' = "exception" /\ mpp' = "HS"
    /\ hs' = "sbi_return"
    /\ UNCHANGED <<lock, trapVars, guestVars, ctx, intVars>>

\* a0 and a1 are set, sepc steps over the ecall.
sbi_return ==
    /\ At("sbi_return")
    /\ advance(4)
    /\ Goto("exit")
    /\ UNCHANGED <<lock, guestVars, intVars>>

----------------------------------------------------------------------------
(* interrupt.rs                                                            *)

\* SupervisorSoft clears the CLINT's msip but not sip.SSIP, SupervisorTimer
\* masks itself, and SupervisorExternal claims from the PLIC (module Plic).
\* The interrupts they make pending for the guest (vsip.SSIP, hvip.VSTIP and
\* VSEIP) change no step of a handler and are not kept here.
trap_interrupt ==
    /\ At("interrupt")
    /\ cause # "timer" => Free("HV")
    /\ sip' = sip \ (IF cause = "ext" THEN {"ext"} ELSE {})
    /\ stie' = (stie /\ cause # "timer")
    /\ mip' = mip \ (IF cause = "soft" THEN {"soft"} ELSE {})
    /\ Goto("exit")
    /\ UNCHANGED <<lock, guestVars, ctx>>

----------------------------------------------------------------------------
(* M-mode: trap/machine.rs, machine/exception.rs, machine/interrupt.rs     *)

AtM(l) == mode = "M" /\ m = l
GotoM(l) == m' = l /\ UNCHANGED <<mode, mpp>>

\* M-level interrupts are always enabled below M-mode.
MInterrupt ==
    /\ mode \in Guest \cup {"HS"}
    /\ mip # {}
    /\ mode' = "M" /\ m' = "interrupt" /\ mpp' = mode
    /\ UNCHANGED <<hs, lock, trapVars, guestVars, ctx, intVars>>

mtrap_exit == mode' = mpp /\ m' = "none" /\ mpp' = "HS"

\* MachineSoft raises SSIP and clears msip.  MachineTimer raises STIP (which
\* the hardware ignores where Sstc drives the bit) and disarms mtimecmp.
machine_interrupt ==
    /\ AtM("interrupt")
    /\ \E i \in mip :
          /\ mip' = mip \ {i}
          /\ \/ sip' = sip \cup {i}
             \/ i = "timer" /\ UNCHANGED sip
    /\ mtrap_exit
    /\ UNCHANGED <<hs, lock, trapVars, guestVars, ctx, stie>>

\* trap_exception: an ecall fetches the guest's context under HV, anything
\* else is forwarded.
machine_exception ==
    /\ AtM("exception")
    /\ IF mpp = "HS" THEN Free("HV") /\ GotoM("envcall") ELSE GotoM("forward")
    /\ UNCHANGED <<hs, lock, trapVars, guestVars, ctx, intVars>>

\* forward_exception sets mepc to stvec and MPP to S but leaves MPV: mret
\* returns to VS-mode.
forward_exception ==
    /\ AtM("forward")
    /\ mode' = "VS" /\ m' = "none" /\ mpp' = "HS"
    /\ pc' = HSTRAP_VECTOR
    /\ NoTrap
    /\ UNCHANGED <<hs, lock, vs, ctx, intVars>>

trap_envcall ==
    /\ AtM("envcall") /\ Free("SBI")
    /\ Take("SBI", "M")
    /\ GotoM("handle_ecall")
    /\ UNCHANGED <<hs, trapVars, guestVars, ctx, intVars>>

\* Mutant: mret with the SBI lock still held.
trap_envcall_exit_keeps_sbi ==
    /\ AtM("handle_ecall")
    /\ mtrap_exit
    /\ UNCHANGED <<hs, lock, trapVars, guestVars, ctx, intVars>>

\* handle_ecall succeeds and the lock is dropped before mret ...
trap_envcall_exit ==
    /\ AtM("handle_ecall")
    /\ Drop("SBI")
    /\ mtrap_exit
    /\ UNCHANGED <<hs, trapVars, guestVars, ctx, intVars>>

\* ... or a remote fence names another hart (rfence.rs asserts it does not).
rfence_assert ==
    /\ AtM("handle_ecall") /\ cause = "ecall_rfnc"
    /\ Panics

----------------------------------------------------------------------------

GuestTraps ==
    \/ \E c \in Exceptions, n \in {2, 4} : GuestException(c, n)
    \/ \E i \in Interrupts : GuestInterrupt(i)
    \/ GuestInstructionFault

Environment ==
    \/ GuestStep
    \/ \E i \in {"soft", "timer"} : GuestClint(i)
    \/ DeviceInterrupt
    \/ MInterrupt

HsStep ==
    \/ hstrap_vector \/ hstrap_exit
    \/ illegal_instruction \/ zicfiss_instruction \/ zicfiss_fault \/ zicfiss_todo
    \/ zicfiss_csr_lock \/ zicfiss_csr \/ illegal_done
    \/ virtual_instruction \/ senvcfg_field \/ pseudo_vs_exception
    \/ hs_forward_exception \/ page_fault_lock \/ page_fault_ok \/ page_fault_err
    \/ page_fault_panic \/ ecall_from_vs \/ ecall_unsupported \/ sbi_rt_ecall
    \/ sbi_return \/ trap_interrupt

MStep ==
    \/ machine_interrupt \/ machine_exception \/ forward_exception
    \/ trap_envcall \/ trap_envcall_exit \/ rfence_assert

Next == GuestTraps \/ Environment \/ HsStep \/ MStep
Spec == Init /\ [][Next]_vars

\* The hart executes: whatever handler is running takes its next step.
FairSpec == Spec /\ WF_vars(HsStep) /\ WF_vars(MStep)

----------------------------------------------------------------------------

\* No lock survives into the guest: the next trap would spin on it forever.
\* Every way out of every handler has dropped, or forced open, what the way
\* in has taken.
LocksFreeInGuest == mode \in Guest => \A l \in Locks : Free(l)

\* The lock the next step of the running handler needs.
Needs ==
    CASE mode = "HS" /\ hs \in {"zicfiss_lock", "senvcfg_field"} -> {"ZIC"}
      [] mode = "HS" /\ hs \in {"zicfiss_instruction", "zicfiss_csr_lock",
            "illegal_done", "virtual_instruction", "pseudo", "forward", "ecall",
            "load_lock", "store_lock", "exit"} -> {"HV"}
      [] mode = "HS" /\ hs = "interrupt" /\ cause # "timer" -> {"HV"}
      [] mode = "M" /\ m = "exception" /\ mpp = "HS" -> {"HV"}
      [] mode = "M" /\ m = "envcall" -> {"SBI"}
      [] OTHER -> {}
Spinning == \E l \in Needs : ~Free(l)

\* The hart waits for a lock it holds itself in one place only: forwarding
\* a page fault whose emulation was refused (page_fault_handler.rs:41, 73).
\* In particular the hypervisor's own ecall, for which M-mode takes HV, and
\* the trap exit never find HV taken.
SpinsOnlyOnRefusedAccess ==
    Spinning => hs = "forward" /\ cause \in {"load", "store"}

\* hs_forward_exception: "Delegate exception to supervisor mode from
\* VS-mode." (exception.rs:19), called for the refused accesses
\* (page_fault_handler.rs:36-41): the exception must reach the guest.
NoSelfDeadlock == ~Spinning

\* Where the guest goes on after a trap: an interrupt resumes the
\* interrupted instruction; an exception either steps over exactly the
\* trapping instruction, in the mode it came from, or enters the guest's
\* vector with vsepc at the trapping instruction.
ResumeAddress ==
    [][(mode = "HS" /\ mode' \in Guest) =>
        \/ cause \in Interrupts /\ pc' = pc /\ mode' = spp
        \/ cause \in Emulated /\ pc' = pc + ilen /\ mode' = spp
        \/ cause \in {"illegal", "reflect"} /\ pc' = VSTVEC /\ vs.epc = pc]_vars

\* An exception raised by the shadow-stack emulation enters the guest in
\* VS-mode, with interrupts off and the mode it came from in vsstatus.SPP
\* (emulate_extension.rs:75-90; SPIE, which the code only ever sets, is left
\* open).
PseudoEntry ==
    [][(mode = "HS" /\ mode' \in Guest /\ pc' = VSTVEC /\ cause = "illegal") =>
        mode' = "VS" /\ vs.spp = spp /\ ~vs.sie]_vars

\* Every trap comes to an end: the guest runs again, unless the hypervisor
\* panicked or spins on a refused access.
TrapEnds ==
    mode = "HS" ~> (mode \in Guest \cup {"panic"} \/ (At("forward") /\ ~Free("HV")))

\* A guest fault that M-mode forwards reaches the hypervisor's handler
\* (exception.rs:93-95 expects InstructionGuestPageFault in HS-mode).
GuestKeepsOutOfVector == mode \in Guest => pc # HSTRAP_VECTOR
=============================================================================
