--------------------------- MODULE TrapFlowProofs ---------------------------
(***************************************************************************)
(* The lock discipline of the trap handlers and the address the guest      *)
(* resumes at, for every guest program.  The invariant says, for each      *)
(* label, which locks are held, which causes lead there, and what the      *)
(* saved context holds.                                                    *)
(***************************************************************************)
EXTENDS TrapFlow, TLAPS

\* Who may be executing together.
ControlInv ==
    /\ mode \in Guest => hs = "none" /\ m = "none"
    /\ mode = "HS" => hs # "none" /\ m = "none"
    /\ mode = "M" => m # "none" /\ (hs = "none" <=> mpp \in Guest)
    /\ m \in {"envcall", "handle_ecall"} => mpp = "HS"
    /\ m = "exception" /\ mpp = "HS" => hs = "sbi_return"
    /\ m \in {"envcall", "handle_ecall"} => hs = "sbi_return"
    /\ m = "forward" => mpp \in Guest

\* Causes that lead to each label.
LabelCauses(l) ==
    CASE l \in {"zicfiss_lock", "illegal_done"} -> {"illegal", "ssp_csr"}
      [] l \in {"zicfiss_instruction", "pseudo"} -> {"illegal"}
      [] l \in {"zicfiss_csr_lock", "zicfiss_csr"} -> {"ssp_csr"}
      [] l \in {"virtual_instruction", "senvcfg_field"} -> {"senvcfg"}
      [] l = "ecall" -> Ecalls
      [] l \in {"sbi_rt", "sbi_return"} -> Ecalls \ {"ecall_other"}
      [] l \in {"load_lock", "load_emulate"} -> {"load"}
      [] l \in {"store_lock", "store_emulate"} -> {"store"}
      [] l = "forward" -> {"reflect", "load", "store"}
      [] l = "interrupt" -> Interrupts
      [] OTHER -> Exceptions \cup Interrupts \cup {"inst_gpf", "none"}

CauseInv ==
    /\ cause \in LabelCauses(hs)
    /\ hs # "none" => cause \in Exceptions \cup Interrupts
    /\ cause \in Ecalls => ilen = 4

HvHeld ==
    \/ hs \in {"zicfiss_csr", "load_emulate", "store_emulate"}
    \/ hs = "forward" /\ cause \in {"load", "store"}
ZicHeld == hs \in {"zicfiss_instruction", "zicfiss_csr_lock", "zicfiss_csr"}

LockInv ==
    /\ lock["HV"] = IF HvHeld THEN "HS" ELSE "free"
    /\ lock["ZIC"] = IF ZicHeld THEN "HS" ELSE "free"
    /\ lock["SBI"] = IF m = "handle_ecall" THEN "M" ELSE "free"

\* What the saved context holds before and after the handler moved it.
ContextInv ==
    /\ hs # "none" /\ cause \in Exceptions => pc \in GuestPc
    /\ hs \notin {"none", "hstrap_vector", "exit"} => ctx.sepc = pc /\ ctx.spp = spp
    /\ hs = "exit" =>
         \/ cause \in Interrupts /\ ctx.sepc = pc /\ ctx.spp = spp
         \/ cause \in Emulated /\ ctx.sepc = pc + ilen /\ ctx.spp = spp
         \/ cause = "illegal" /\ ctx.sepc = VSTVEC /\ ctx.spp = "VS"
              /\ vs.epc = pc /\ vs.spp = spp /\ vs.sie = FALSE
         \/ cause = "reflect" /\ ctx.sepc = VSTVEC /\ vs.epc = pc

IInv == TypeOK /\ ControlInv /\ CauseInv /\ LockInv /\ ContextInv

\* The sets the definitions above are made of.
USE DEF Guest, Locks, Interrupts, Emulated, Unimplemented, Exceptions, Ecalls,
        HsLabels, MLabels, ContextData, guestVars, trapVars, intVars

LEMMA PcFacts == GuestPc \subseteq Pc /\ VSTVEC \in Pc /\ HSTRAP_VECTOR \in Pc
BY AddressAssumption DEF Pc

\* Stepping over an instruction of the guest stays within Pc.
LEMMA AdvancePc ==
    ASSUME NEW p \in GuestPc, NEW n \in {2, 4}
    PROVE  p + n \in Pc
BY AddressAssumption DEF Pc

LEMMA InitIInv == Init => IInv
<1>1. ASSUME Init PROVE TypeOK
  BY <1>1, PcFacts DEF Init, TypeOK
<1>2. ASSUME Init PROVE ControlInv /\ CauseInv /\ ContextInv
  BY <1>2 DEF Init, ControlInv, CauseInv, LabelCauses, ContextInv
<1>3. ASSUME Init PROVE LockInv
  BY <1>3 DEF Init, LockInv, HvHeld, ZicHeld
<1>4. QED
  BY <1>1, <1>2, <1>3 DEF IInv

\* A panic parks the hart and changes nothing else.
LEMMA PanicsIInv == IInv /\ Panics => IInv'
<1>0. SUFFICES ASSUME IInv, Panics PROVE IInv'
  OBVIOUS
<1>1. TypeOK'
  BY <1>0 DEF IInv, TypeOK, Panics
<1>2. ControlInv' /\ CauseInv' /\ ContextInv'
  BY <1>0 DEF IInv, ControlInv, CauseInv, LabelCauses, ContextInv, Panics
<1>3. LockInv'
  BY <1>0 DEF IInv, LockInv, HvHeld, ZicHeld, Panics
<1>4. QED
  BY <1>1, <1>2, <1>3 DEF IInv

\* The guest's own steps, the devices and the arrival of an M-level interrupt.
LEMMA EnvironmentIInv == IInv /\ (Environment \/ GuestTraps) => IInv'
<1>0. SUFFICES ASSUME IInv, (Environment \/ GuestTraps) PROVE IInv'
  OBVIOUS
<1> USE DEF IInv
<1>1. CASE GuestStep
  <2>1. TypeOK'
    BY <1>0, <1>1, PcFacts DEF TypeOK, GuestStep
  <2>2. ControlInv' /\ CauseInv'
    BY <1>0, <1>1 DEF TypeOK, ControlInv, CauseInv, LabelCauses, GuestStep
  <2>3. LockInv'
    BY <1>0, <1>1 DEF TypeOK, ControlInv, CauseInv, LabelCauses, LockInv,
       HvHeld, ZicHeld, GuestStep
  <2>4. ContextInv'
    BY <1>0, <1>1 DEF TypeOK, ControlInv, CauseInv, LabelCauses,
       ContextInv, GuestStep
  <2>5. QED
    BY <2>1, <2>2, <2>3, <2>4
<1>2. CASE \E i \in {"soft", "timer"} : GuestClint(i)
  <2>1. TypeOK'
    BY <1>0, <1>2, PcFacts DEF TypeOK, ControlInv, GuestClint
  <2>2. ControlInv' /\ CauseInv'
    BY <1>0, <1>2 DEF TypeOK, ControlInv, CauseInv, LabelCauses,
       GuestClint
  <2>3. LockInv'
    BY <1>0, <1>2 DEF TypeOK, ControlInv, CauseInv, LabelCauses, LockInv,
       HvHeld, ZicHeld, GuestClint
  <2>4. ContextInv'
    BY <1>0, <1>2 DEF TypeOK, ControlInv, CauseInv, LabelCauses,
       ContextInv, GuestClint
  <2>5. QED
    BY <2>1, <2>2, <2>3, <2>4
<1>3. CASE DeviceInterrupt
  <2>1. TypeOK'
    BY <1>0, <1>3, PcFacts DEF TypeOK, ControlInv, DeviceInterrupt
  <2>2. ControlInv' /\ CauseInv'
    BY <1>0, <1>3 DEF TypeOK, ControlInv, CauseInv, LabelCauses,
       DeviceInterrupt
  <2>3. LockInv'
    BY <1>0, <1>3 DEF TypeOK, ControlInv, CauseInv, LabelCauses, LockInv,
       HvHeld, ZicHeld, DeviceInterrupt
  <2>4. ContextInv'
    BY <1>0, <1>3 DEF TypeOK, ControlInv, CauseInv, LabelCauses,
       ContextInv, DeviceInterrupt
  <2>5. QED
    BY <2>1, <2>2, <2>3, <2>4
<1>4. CASE MInterrupt
  <2>1. TypeOK'
    BY <1>0, <1>4, PcFacts DEF TypeOK, ControlInv, MInterrupt
  <2>2. ControlInv' /\ CauseInv'
    BY <1>0, <1>4 DEF TypeOK, ControlInv, CauseInv, LabelCauses,
       MInterrupt
  <2>3. LockInv'
    BY <1>0, <1>4 DEF TypeOK, ControlInv, CauseInv, LabelCauses, LockInv,
       HvHeld, ZicHeld, MInterrupt
  <2>4. ContextInv'
    BY <1>0, <1>4 DEF TypeOK, ControlInv, CauseInv, LabelCauses,
       ContextInv, MInterrupt
  <2>5. QED
    BY <2>1, <2>2, <2>3, <2>4
<1>5. CASE GuestInstructionFault
  <2>1. TypeOK'
    BY <1>0, <1>5, PcFacts DEF TypeOK, ControlInv, GuestInstructionFault
  <2>2. ControlInv' /\ CauseInv'
    BY <1>0, <1>5 DEF TypeOK, ControlInv, CauseInv, LabelCauses,
       GuestInstructionFault
  <2>3. LockInv'
    BY <1>0, <1>5 DEF TypeOK, ControlInv, CauseInv, LabelCauses, LockInv,
       HvHeld, ZicHeld, GuestInstructionFault
  <2>4. ContextInv'
    BY <1>0, <1>5 DEF TypeOK, ControlInv, CauseInv, LabelCauses,
       ContextInv, GuestInstructionFault
  <2>5. QED
    BY <2>1, <2>2, <2>3, <2>4
<1>6. ASSUME NEW c \in Exceptions \cup Interrupts, NEW n \in {2, 4},
             mode \in Guest, EnterHS(c, n),
             c \in Exceptions => pc \in GuestPc, c \in Ecalls => n = 4
      PROVE  IInv'
  <2>1. TypeOK'
    BY <1>0, <1>6 DEF TypeOK, EnterHS
  <2>2. ControlInv' /\ CauseInv' /\ ContextInv'
    BY <1>0, <1>6 DEF TypeOK, ControlInv, CauseInv, LabelCauses, ContextInv, EnterHS
  <2>3. LockInv'
    BY <1>0, <1>6 DEF ControlInv, LockInv, HvHeld, ZicHeld, EnterHS
  <2>4. QED
    BY <2>1, <2>2, <2>3
<1>7. ASSUME NEW c \in Exceptions, NEW n \in {2, 4}, GuestException(c, n)
      PROVE  IInv'
  BY <1>6, <1>7 DEF GuestException
<1>8. ASSUME NEW i \in Interrupts, GuestInterrupt(i)
      PROVE  IInv'
  BY <1>6, <1>8 DEF GuestInterrupt
<1>9. QED
  BY <1>0, <1>1, <1>2, <1>3, <1>4, <1>5, <1>7, <1>8
     DEF Environment, GuestTraps

\* The HS handlers, one step per action.
LEMMA HsStepIInv == IInv /\ HsStep => IInv'
<1>0. SUFFICES ASSUME IInv, HsStep PROVE IInv'
  OBVIOUS
<1> USE DEF IInv
<1>1. CASE hstrap_vector
  <2>1. TypeOK'
    BY <1>0, <1>1 DEF TypeOK, CauseInv, hstrap_vector, At, Goto, Handler
  <2>2. ControlInv' /\ CauseInv'
    BY <1>0, <1>1 DEF TypeOK, ControlInv, CauseInv, LabelCauses,
       hstrap_vector, At, Goto, Handler
  <2>3. LockInv'
    BY <1>0, <1>1 DEF TypeOK, ControlInv, CauseInv, LabelCauses, LockInv,
       HvHeld, ZicHeld, hstrap_vector, At, Goto, Handler
  <2>4. ContextInv'
    BY <1>0, <1>1 DEF TypeOK, ControlInv, CauseInv, LabelCauses,
       ContextInv, hstrap_vector, At, Goto, Handler
  <2>5. QED
    BY <2>1, <2>2, <2>3, <2>4
<1>2. CASE hstrap_exit
  <2>1. TypeOK'
    BY <1>0, <1>2, PcFacts DEF TypeOK, ControlInv, hstrap_exit, At, NoTrap
  <2>2. ControlInv' /\ CauseInv'
    BY <1>0, <1>2 DEF TypeOK, ControlInv, CauseInv, LabelCauses,
       hstrap_exit, At, NoTrap
  <2>3. LockInv'
    BY <1>0, <1>2 DEF TypeOK, ControlInv, CauseInv, LabelCauses, LockInv,
       HvHeld, ZicHeld, hstrap_exit, At, NoTrap
  <2>4. ContextInv'
    BY <1>0, <1>2 DEF TypeOK, ControlInv, CauseInv, LabelCauses,
       ContextInv, hstrap_exit, At, NoTrap
  <2>5. QED
    BY <2>1, <2>2, <2>3, <2>4
<1>3. CASE illegal_instruction
  <2>1. TypeOK'
    BY <1>0, <1>3, PcFacts DEF TypeOK, ControlInv, illegal_instruction,
       At, Goto, Take
  <2>2. ControlInv' /\ CauseInv'
    BY <1>0, <1>3 DEF TypeOK, ControlInv, CauseInv, LabelCauses,
       illegal_instruction, At, Goto, Take
  <2>3. LockInv'
    BY <1>0, <1>3 DEF TypeOK, ControlInv, CauseInv, LabelCauses, LockInv,
       HvHeld, ZicHeld, illegal_instruction, At, Goto, Take
  <2>4. ContextInv'
    BY <1>0, <1>3 DEF TypeOK, ControlInv, CauseInv, LabelCauses,
       ContextInv, illegal_instruction, At, Goto, Take
  <2>5. QED
    BY <2>1, <2>2, <2>3, <2>4
<1>4. CASE zicfiss_instruction
  <2>1. TypeOK'
    BY <1>0, <1>4, PcFacts DEF TypeOK, ControlInv, zicfiss_instruction,
       At, Goto, Drop
  <2>2. ControlInv' /\ CauseInv'
    BY <1>0, <1>4 DEF TypeOK, ControlInv, CauseInv, LabelCauses,
       zicfiss_instruction, At, Goto, Drop
  <2>3. LockInv'
    BY <1>0, <1>4 DEF TypeOK, ControlInv, CauseInv, LabelCauses, LockInv,
       HvHeld, ZicHeld, zicfiss_instruction, At, Goto, Drop
  <2>4. ContextInv'
    BY <1>0, <1>4 DEF TypeOK, ControlInv, CauseInv, LabelCauses,
       ContextInv, zicfiss_instruction, At, Goto, Drop
  <2>5. QED
    BY <2>1, <2>2, <2>3, <2>4
<1>5. CASE zicfiss_fault
  <2>1. TypeOK'
    BY <1>0, <1>5, PcFacts DEF TypeOK, ControlInv, zicfiss_fault, At, Goto
  <2>2. ControlInv' /\ CauseInv'
    BY <1>0, <1>5 DEF TypeOK, ControlInv, CauseInv, LabelCauses,
       zicfiss_fault, At, Goto
  <2>3. LockInv'
    BY <1>0, <1>5 DEF TypeOK, ControlInv, CauseInv, LabelCauses, LockInv,
       HvHeld, ZicHeld, zicfiss_fault, At, Goto
  <2>4. ContextInv'
    BY <1>0, <1>5 DEF TypeOK, ControlInv, CauseInv, LabelCauses,
       ContextInv, zicfiss_fault, At, Goto
  <2>5. QED
    BY <2>1, <2>2, <2>3, <2>4
<1>6. CASE zicfiss_csr_lock
  <2>1. TypeOK'
    BY <1>0, <1>6, PcFacts DEF TypeOK, ControlInv, zicfiss_csr_lock, At,
       Goto, Take
  <2>2. ControlInv' /\ CauseInv'
    BY <1>0, <1>6 DEF TypeOK, ControlInv, CauseInv, LabelCauses,
       zicfiss_csr_lock, At, Goto, Take
  <2>3. LockInv'
    BY <1>0, <1>6 DEF TypeOK, ControlInv, CauseInv, LabelCauses, LockInv,
       HvHeld, ZicHeld, zicfiss_csr_lock, At, Goto, Take
  <2>4. ContextInv'
    BY <1>0, <1>6 DEF TypeOK, ControlInv, CauseInv, LabelCauses,
       ContextInv, zicfiss_csr_lock, At, Goto, Take
  <2>5. QED
    BY <2>1, <2>2, <2>3, <2>4
<1>7. CASE zicfiss_csr
  <2>1. TypeOK'
    BY <1>0, <1>7, PcFacts DEF TypeOK, ControlInv, zicfiss_csr, At, Goto
  <2>2. ControlInv' /\ CauseInv'
    BY <1>0, <1>7 DEF TypeOK, ControlInv, CauseInv, LabelCauses,
       zicfiss_csr, At, Goto
  <2>3. LockInv'
    BY <1>0, <1>7 DEF TypeOK, ControlInv, CauseInv, LabelCauses, LockInv,
       HvHeld, ZicHeld, zicfiss_csr, At, Goto
  <2>4. ContextInv'
    BY <1>0, <1>7 DEF TypeOK, ControlInv, CauseInv, LabelCauses,
       ContextInv, zicfiss_csr, At, Goto
  <2>5. QED
    BY <2>1, <2>2, <2>3, <2>4
<1>8. CASE illegal_done
  <2>1. TypeOK'
    BY <1>0, <1>8, AdvancePc DEF TypeOK, CauseInv, LabelCauses,
       ContextInv, illegal_done, At, Goto, advance
  <2>2. ControlInv' /\ CauseInv'
    BY <1>0, <1>8 DEF TypeOK, ControlInv, CauseInv, LabelCauses,
       illegal_done, At, Goto, advance
  <2>3. LockInv'
    BY <1>0, <1>8 DEF TypeOK, ControlInv, CauseInv, LabelCauses, LockInv,
       HvHeld, ZicHeld, illegal_done, At, Goto, advance
  <2>4. ContextInv'
    BY <1>0, <1>8 DEF TypeOK, ControlInv, CauseInv, LabelCauses,
       ContextInv, illegal_done, At, Goto, advance
  <2>5. QED
    BY <2>1, <2>2, <2>3, <2>4
<1>9. CASE virtual_instruction
  <2>1. TypeOK'
    BY <1>0, <1>9, PcFacts DEF TypeOK, ControlInv, virtual_instruction,
       At, Goto
  <2>2. ControlInv' /\ CauseInv'
    BY <1>0, <1>9 DEF TypeOK, ControlInv, CauseInv, LabelCauses,
       virtual_instruction, At, Goto
  <2>3. LockInv'
    BY <1>0, <1>9 DEF TypeOK, ControlInv, CauseInv, LabelCauses, LockInv,
       HvHeld, ZicHeld, virtual_instruction, At, Goto
  <2>4. ContextInv'
    BY <1>0, <1>9 DEF TypeOK, ControlInv, CauseInv, LabelCauses,
       ContextInv, virtual_instruction, At, Goto
  <2>5. QED
    BY <2>1, <2>2, <2>3, <2>4
<1>10. CASE senvcfg_field
  <2>1. TypeOK'
    BY <1>0, <1>10, AdvancePc DEF TypeOK, CauseInv, LabelCauses,
       ContextInv, senvcfg_field, At, Goto, advance
  <2>2. ControlInv' /\ CauseInv'
    BY <1>0, <1>10 DEF TypeOK, ControlInv, CauseInv, LabelCauses,
       senvcfg_field, At, Goto, advance
  <2>3. LockInv'
    BY <1>0, <1>10 DEF TypeOK, ControlInv, CauseInv, LabelCauses, LockInv,
       HvHeld, ZicHeld, senvcfg_field, At, Goto, advance
  <2>4. ContextInv'
    BY <1>0, <1>10 DEF TypeOK, ControlInv, CauseInv, LabelCauses,
       ContextInv, senvcfg_field, At, Goto, advance
  <2>5. QED
    BY <2>1, <2>2, <2>3, <2>4
<1>11. CASE pseudo_vs_exception
  <2>1. TypeOK'
    BY <1>0, <1>11, PcFacts DEF TypeOK, ControlInv, pseudo_vs_exception,
       At, Goto
  <2>2. ControlInv' /\ CauseInv'
    BY <1>0, <1>11 DEF TypeOK, ControlInv, CauseInv, LabelCauses,
       pseudo_vs_exception, At, Goto
  <2>3. LockInv'
    BY <1>0, <1>11 DEF TypeOK, ControlInv, CauseInv, LabelCauses, LockInv,
       HvHeld, ZicHeld, pseudo_vs_exception, At, Goto
  <2>4. ContextInv'
    BY <1>0, <1>11 DEF TypeOK, ControlInv, CauseInv, LabelCauses,
       ContextInv, pseudo_vs_exception, At, Goto
  <2>5. QED
    BY <2>1, <2>2, <2>3, <2>4
<1>12. CASE hs_forward_exception
  <2>1. TypeOK'
    BY <1>0, <1>12, PcFacts DEF TypeOK, ControlInv, hs_forward_exception,
       At, Goto, Free
  <2>2. ControlInv' /\ CauseInv'
    BY <1>0, <1>12 DEF TypeOK, ControlInv, CauseInv, LabelCauses,
       hs_forward_exception, At, Goto, Free
  <2>3. LockInv'
    BY <1>0, <1>12 DEF TypeOK, ControlInv, CauseInv, LabelCauses, LockInv,
       HvHeld, ZicHeld, hs_forward_exception, At, Goto, Free
  <2>4. ContextInv'
    BY <1>0, <1>12 DEF TypeOK, ControlInv, CauseInv, LabelCauses,
       ContextInv, LockInv, HvHeld, hs_forward_exception, At, Goto, Free
  <2>5. QED
    BY <2>1, <2>2, <2>3, <2>4
<1>13. CASE page_fault_lock
  <2>1. TypeOK'
    BY <1>0, <1>13, PcFacts DEF TypeOK, ControlInv, page_fault_lock, At,
       Goto, Take
  <2>2. ControlInv' /\ CauseInv'
    BY <1>0, <1>13 DEF TypeOK, ControlInv, CauseInv, LabelCauses,
       page_fault_lock, At, Goto, Take
  <2>3. LockInv'
    BY <1>0, <1>13 DEF TypeOK, ControlInv, CauseInv, LabelCauses, LockInv,
       HvHeld, ZicHeld, page_fault_lock, At, Goto, Take
  <2>4. ContextInv'
    BY <1>0, <1>13 DEF TypeOK, ControlInv, CauseInv, LabelCauses,
       ContextInv, page_fault_lock, At, Goto, Take
  <2>5. QED
    BY <2>1, <2>2, <2>3, <2>4
<1>14. CASE page_fault_ok
  <2>1. TypeOK'
    BY <1>0, <1>14, AdvancePc DEF TypeOK, CauseInv, LabelCauses,
       ContextInv, page_fault_ok, At, Goto, advance, Drop
  <2>2. ControlInv' /\ CauseInv'
    BY <1>0, <1>14 DEF TypeOK, ControlInv, CauseInv, LabelCauses,
       page_fault_ok, At, Goto, advance, Drop
  <2>3. LockInv'
    BY <1>0, <1>14 DEF TypeOK, ControlInv, CauseInv, LabelCauses, LockInv,
       HvHeld, ZicHeld, page_fault_ok, At, Goto, advance, Drop
  <2>4. ContextInv'
    BY <1>0, <1>14 DEF TypeOK, ControlInv, CauseInv, LabelCauses,
       ContextInv, page_fault_ok, At, Goto, advance, Drop
  <2>5. QED
    BY <2>1, <2>2, <2>3, <2>4
<1>15. CASE page_fault_err
  <2>1. TypeOK'
    BY <1>0, <1>15, PcFacts DEF TypeOK, ControlInv, page_fault_err, At,
       Goto
  <2>2. ControlInv' /\ CauseInv'
    BY <1>0, <1>15 DEF TypeOK, ControlInv, CauseInv, LabelCauses,
       page_fault_err, At, Goto
  <2>3. LockInv'
    BY <1>0, <1>15 DEF TypeOK, ControlInv, CauseInv, LabelCauses, LockInv,
       HvHeld, ZicHeld, page_fault_err, At, Goto
  <2>4. ContextInv'
    BY <1>0, <1>15 DEF TypeOK, ControlInv, CauseInv, LabelCauses,
       ContextInv, page_fault_err, At, Goto
  <2>5. QED
    BY <2>1, <2>2, <2>3, <2>4
<1>16. CASE ecall_from_vs
  <2>1. TypeOK'
    BY <1>0, <1>16, PcFacts DEF TypeOK, ControlInv, ecall_from_vs, At,
       Goto
  <2>2. ControlInv' /\ CauseInv'
    BY <1>0, <1>16 DEF TypeOK, ControlInv, CauseInv, LabelCauses,
       ecall_from_vs, At, Goto
  <2>3. LockInv'
    BY <1>0, <1>16 DEF TypeOK, ControlInv, CauseInv, LabelCauses, LockInv,
       HvHeld, ZicHeld, ecall_from_vs, At, Goto
  <2>4. ContextInv'
    BY <1>0, <1>16 DEF TypeOK, ControlInv, CauseInv, LabelCauses,
       ContextInv, ecall_from_vs, At, Goto
  <2>5. QED
    BY <2>1, <2>2, <2>3, <2>4
<1>17. CASE sbi_rt_ecall
  <2>1. TypeOK'
    BY <1>0, <1>17, PcFacts DEF TypeOK, ControlInv, sbi_rt_ecall, At
  <2>2. ControlInv' /\ CauseInv'
    BY <1>0, <1>17 DEF TypeOK, ControlInv, CauseInv, LabelCauses,
       sbi_rt_ecall, At
  <2>3. LockInv'
    BY <1>0, <1>17 DEF TypeOK, ControlInv, CauseInv, LabelCauses, LockInv,
       HvHeld, ZicHeld, sbi_rt_ecall, At
  <2>4. ContextInv'
    BY <1>0, <1>17 DEF TypeOK, ControlInv, CauseInv, LabelCauses,
       ContextInv, sbi_rt_ecall, At
  <2>5. QED
    BY <2>1, <2>2, <2>3, <2>4
<1>18. CASE sbi_return
  <2>1. TypeOK'
    BY <1>0, <1>18, AdvancePc DEF TypeOK, CauseInv, LabelCauses,
       ContextInv, sbi_return, At, Goto, advance
  <2>2. ControlInv' /\ CauseInv'
    BY <1>0, <1>18 DEF TypeOK, ControlInv, CauseInv, LabelCauses,
       sbi_return, At, Goto, advance
  <2>3. LockInv'
    BY <1>0, <1>18 DEF TypeOK, ControlInv, CauseInv, LabelCauses, LockInv,
       HvHeld, ZicHeld, sbi_return, At, Goto, advance
  <2>4. ContextInv'
    BY <1>0, <1>18 DEF TypeOK, ControlInv, CauseInv, LabelCauses,
       ContextInv, sbi_return, At, Goto, advance
  <2>5. QED
    BY <2>1, <2>2, <2>3, <2>4
<1>19. CASE trap_interrupt
  <2>1. TypeOK'
    BY <1>0, <1>19, PcFacts DEF TypeOK, ControlInv, trap_interrupt, At,
       Goto
  <2>2. ControlInv' /\ CauseInv'
    BY <1>0, <1>19 DEF TypeOK, ControlInv, CauseInv, LabelCauses,
       trap_interrupt, At, Goto
  <2>3. LockInv'
    BY <1>0, <1>19 DEF TypeOK, ControlInv, CauseInv, LabelCauses, LockInv,
       HvHeld, ZicHeld, trap_interrupt, At, Goto
  <2>4. ContextInv'
    BY <1>0, <1>19 DEF TypeOK, ControlInv, CauseInv, LabelCauses,
       ContextInv, trap_interrupt, At, Goto
  <2>5. QED
    BY <2>1, <2>2, <2>3, <2>4
<1>20. CASE zicfiss_todo \/ page_fault_panic \/ ecall_unsupported
  BY <1>0, <1>20, PanicsIInv DEF zicfiss_todo, page_fault_panic, ecall_unsupported
<1>21. QED
    BY <1>0, <1>1, <1>2, <1>3, <1>4, <1>5, <1>6, <1>7, <1>8, <1>9, <1>10,
       <1>11, <1>12, <1>13, <1>14, <1>15, <1>16, <1>17, <1>18, <1>19,
       <1>20 DEF HsStep

\* The M-mode handlers.
LEMMA MStepIInv == IInv /\ MStep => IInv'
<1>0. SUFFICES ASSUME IInv, MStep PROVE IInv'
  OBVIOUS
<1> USE DEF IInv
<1>1. CASE machine_interrupt
  <2>1. TypeOK'
    <3>1. mip' \subseteq {"soft", "timer"} /\ sip' \subseteq Interrupts
      BY <1>0, <1>1 DEF TypeOK, machine_interrupt
    <3>2. QED
      BY <1>0, <1>1, <3>1 DEF TypeOK, machine_interrupt, AtM, mtrap_exit
  <2>2. ControlInv' /\ CauseInv'
    BY <1>0, <1>1 DEF TypeOK, ControlInv, CauseInv, LabelCauses,
       machine_interrupt, AtM, mtrap_exit
  <2>3. LockInv'
    BY <1>0, <1>1 DEF TypeOK, ControlInv, CauseInv, LabelCauses, LockInv,
       HvHeld, ZicHeld, machine_interrupt, AtM, mtrap_exit
  <2>4. ContextInv'
    BY <1>0, <1>1 DEF TypeOK, ControlInv, CauseInv, LabelCauses,
       ContextInv, machine_interrupt, AtM, mtrap_exit
  <2>5. QED
    BY <2>1, <2>2, <2>3, <2>4
<1>2. CASE machine_exception
  <2>1. TypeOK'
    BY <1>0, <1>2, PcFacts DEF TypeOK, ControlInv, machine_exception, AtM,
       GotoM
  <2>2. ControlInv' /\ CauseInv'
    BY <1>0, <1>2 DEF TypeOK, ControlInv, CauseInv, LabelCauses,
       machine_exception, AtM, GotoM
  <2>3. LockInv'
    BY <1>0, <1>2 DEF TypeOK, ControlInv, CauseInv, LabelCauses, LockInv,
       HvHeld, ZicHeld, machine_exception, AtM, GotoM
  <2>4. ContextInv'
    BY <1>0, <1>2 DEF TypeOK, ControlInv, CauseInv, LabelCauses,
       ContextInv, machine_exception, AtM, GotoM
  <2>5. QED
    BY <2>1, <2>2, <2>3, <2>4
<1>3. CASE forward_exception
  <2>1. TypeOK'
    BY <1>0, <1>3, PcFacts DEF TypeOK, ControlInv, forward_exception, AtM,
       NoTrap
  <2>2. ControlInv' /\ CauseInv'
    BY <1>0, <1>3 DEF TypeOK, ControlInv, CauseInv, LabelCauses,
       forward_exception, AtM, NoTrap
  <2>3. LockInv'
    BY <1>0, <1>3 DEF TypeOK, ControlInv, CauseInv, LabelCauses, LockInv,
       HvHeld, ZicHeld, forward_exception, AtM, NoTrap
  <2>4. ContextInv'
    BY <1>0, <1>3 DEF TypeOK, ControlInv, CauseInv, LabelCauses,
       ContextInv, forward_exception, AtM, NoTrap
  <2>5. QED
    BY <2>1, <2>2, <2>3, <2>4
<1>4. CASE trap_envcall
  <2>1. TypeOK'
    BY <1>0, <1>4, PcFacts DEF TypeOK, ControlInv, trap_envcall, AtM,
       GotoM, Take
  <2>2. ControlInv' /\ CauseInv'
    BY <1>0, <1>4 DEF TypeOK, ControlInv, CauseInv, LabelCauses,
       trap_envcall, AtM, GotoM, Take
  <2>3. LockInv'
    BY <1>0, <1>4 DEF TypeOK, ControlInv, CauseInv, LabelCauses, LockInv,
       HvHeld, ZicHeld, trap_envcall, AtM, GotoM, Take
  <2>4. ContextInv'
    BY <1>0, <1>4 DEF TypeOK, ControlInv, CauseInv, LabelCauses,
       ContextInv, trap_envcall, AtM, GotoM, Take
  <2>5. QED
    BY <2>1, <2>2, <2>3, <2>4
<1>5. CASE trap_envcall_exit
  <2>1. TypeOK'
    BY <1>0, <1>5, PcFacts DEF TypeOK, ControlInv, trap_envcall_exit, AtM,
       Drop, mtrap_exit
  <2>2. ControlInv' /\ CauseInv'
    BY <1>0, <1>5 DEF TypeOK, ControlInv, CauseInv, LabelCauses,
       trap_envcall_exit, AtM, Drop, mtrap_exit
  <2>3. LockInv'
    BY <1>0, <1>5 DEF TypeOK, ControlInv, CauseInv, LabelCauses, LockInv,
       HvHeld, ZicHeld, trap_envcall_exit, AtM, Drop, mtrap_exit
  <2>4. ContextInv'
    BY <1>0, <1>5 DEF TypeOK, ControlInv, CauseInv, LabelCauses,
       ContextInv, trap_envcall_exit, AtM, Drop, mtrap_exit
  <2>5. QED
    BY <2>1, <2>2, <2>3, <2>4
<1>6. CASE rfence_assert
  BY <1>0, <1>6, PanicsIInv DEF rfence_assert
<1>7. QED
    BY <1>0, <1>1, <1>2, <1>3, <1>4, <1>5, <1>6 DEF MStep

LEMMA NextIInv == IInv /\ [Next]_vars => IInv'
<1>1. IInv /\ UNCHANGED vars => IInv'
  BY DEF vars, IInv, TypeOK, ControlInv, CauseInv, LabelCauses, LockInv, HvHeld,
     ZicHeld, ContextInv
<1>2. QED
  BY <1>1, EnvironmentIInv, HsStepIInv, MStepIInv DEF Next

\* At every step of the trap handlers: the locks held there and the context
\* saved for the guest (trap/hypervisor_supervisor.rs, trap/machine.rs).
THEOREM IInvariant == Spec => []IInv
BY InitIInv, NextIInv, PTL DEF Spec

\* The variables keep their types: in particular every saved sepc is an
\* address of the guest.
THEOREM TypeCorrect == Spec => []TypeOK
BY IInvariant, PTL DEF IInv

\* The guest never runs while a lock of the hypervisor is held.
THEOREM GuestRunsUnlocked == Spec => []LocksFreeInGuest
<1>1. IInv => LocksFreeInGuest
  BY DEF IInv, TypeOK, ControlInv, LockInv, HvHeld, ZicHeld, LocksFreeInGuest, Free
<1>2. QED
  BY <1>1, IInvariant, PTL

\* The refused page-fault access is the only self-deadlock.
THEOREM OnlyRefusedAccessSpins == Spec => []SpinsOnlyOnRefusedAccess
<1>1. IInv => SpinsOnlyOnRefusedAccess
  BY DEF IInv, TypeOK, ControlInv, CauseInv, LabelCauses, LockInv, HvHeld, ZicHeld,
     SpinsOnlyOnRefusedAccess, Spinning, Needs, Free
<1>2. QED
  BY <1>1, IInvariant, PTL

\* hstrap_exit is the only way from HS-mode back to the guest.
LEMMA OnlyExitReturns ==
    ASSUME TypeOK, Next, mode = "HS", mode' \in Guest
    PROVE  hstrap_exit
<1>1. ~MStep /\ ~GuestTraps
  BY DEF MStep, AtM, machine_interrupt, machine_exception, forward_exception,
     trap_envcall, trap_envcall_exit, rfence_assert, GuestTraps, GuestException,
     GuestInterrupt, GuestInstructionFault
<1>2. ~Environment
  BY DEF Environment, GuestStep, GuestClint, DeviceInterrupt, MInterrupt
<1>3. HsStep
  BY <1>1, <1>2 DEF Next
<1>4. QED
  BY <1>3 DEF HsStep, At, Goto, Panics, hstrap_vector, illegal_instruction,
     zicfiss_instruction, zicfiss_fault, zicfiss_todo, zicfiss_csr_lock, zicfiss_csr,
     illegal_done, virtual_instruction, senvcfg_field, pseudo_vs_exception,
     hs_forward_exception, page_fault_lock, page_fault_ok, page_fault_err,
     page_fault_panic, ecall_from_vs, ecall_unsupported, sbi_rt_ecall, sbi_return,
     trap_interrupt

\* After every trap the guest resumes at the address it should: the instruction
\* that was interrupted, the one after it, or its vector.
THEOREM GuestResumes == Spec => ResumeAddress
<1>1. ASSUME IInv, Next, mode = "HS", mode' \in Guest
      PROVE  \/ cause \in Interrupts /\ pc' = pc /\ mode' = spp
             \/ cause \in Emulated /\ pc' = pc + ilen /\ mode' = spp
             \/ cause \in {"illegal", "reflect"} /\ pc' = VSTVEC /\ vs.epc = pc
  <2>1. hstrap_exit
    BY <1>1, OnlyExitReturns DEF IInv
  <2>2. QED
    BY <1>1, <2>1 DEF hstrap_exit, At, IInv, ContextInv
<1>2. QED
  BY <1>1, IInvariant, PTL DEF Spec, ResumeAddress

\* A shadow-stack exception enters the guest's kernel with interrupts off.
THEOREM PseudoEntersKernel == Spec => PseudoEntry
<1>1. ASSUME IInv, Next, mode = "HS", mode' \in Guest, pc' = VSTVEC, cause = "illegal"
      PROVE  mode' = "VS" /\ vs.spp = spp /\ ~vs.sie
  <2>1. hstrap_exit
    BY <1>1, OnlyExitReturns DEF IInv
  <2>2. pc + ilen # VSTVEC
    BY <1>1, <2>1, AddressAssumption DEF hstrap_exit, At, IInv, TypeOK, ContextInv
  <2>3. QED
    BY <1>1, <2>1, <2>2 DEF hstrap_exit, At, IInv, ContextInv
<1>2. QED
  BY <1>1, IInvariant, PTL DEF Spec, PseudoEntry
=============================================================================
