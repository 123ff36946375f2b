-------------------------------- MODULE Plic --------------------------------
(***************************************************************************)
(* The emulated PLIC of hikami: device/plic.rs, the SupervisorExternal arm *)
(* of trap/hypervisor_supervisor/interrupt.rs, and the two page-fault      *)
(* handlers that carry guest accesses to it (page_fault_handler.rs).       *)
(*                                                                         *)
(* The registers below CONTEXT_BASE (priorities, enable bits) are passed   *)
(* through to the guest; the context registers (threshold, claim/complete) *)
(* are not mapped, so each access to them is a guest page fault that the   *)
(* hypervisor emulates.  The physical PLIC is external: it is modelled     *)
(* from how plic.rs uses it.                                               *)
(*                                                                         *)
(* The guest of this module is arbitrary: at any moment it may load from   *)
(* and store to any of GuestOffsets, and set up the registers it owns.     *)
(* PlicDriver refines it to a driver.                                      *)
(***************************************************************************)
EXTENDS Integers, FiniteSets

CONSTANTS
    Irq,                \* interrupt sources, numbered from 1 (0 is "none")
    MAX_HART_NUM,       \* harts the tables are sized for (8 in the code)
    CONTEXT_BASE,       \* offset of the first context (0x20_0000)
    CONTEXT_REGS_SIZE,  \* bytes of registers of a context (0x1000)
    U32_MAX,            \* largest value of a u32, scaled down
    HartId,             \* the hart the guest runs on (0)
    MaxOutstanding,     \* sources asserted or in service at once (environment)
    GuestOffsets,       \* offsets from the PLIC base the guest may touch
    GuestValues,        \* register values the guest may store there
    GuestConfigs        \* settings of the passed-through registers it may make

ASSUME IrqAssumption == Irq \subseteq 1..U32_MAX
ASSUME SizeAssumption ==
    /\ MAX_HART_NUM \in Nat \ {0}
    /\ HartId \in 0..(MAX_HART_NUM - 1)
    /\ CONTEXT_BASE \in Nat \ {0}
    /\ CONTEXT_REGS_SIZE \in Nat /\ CONTEXT_REGS_SIZE > 8
    /\ CONTEXT_BASE % CONTEXT_REGS_SIZE = 0
    /\ U32_MAX \in Nat \ {0}
MAX_CONTEXT_NUM == MAX_HART_NUM * 2
CONTEXT_CLAIM == 4
\* A product where the layout is a sum: the range is far larger than the
\* 16 contexts (plic.rs:20).
CONTEXT_END == CONTEXT_BASE * CONTEXT_REGS_SIZE * MAX_CONTEXT_NUM

Contexts == 0..(MAX_CONTEXT_NUM - 1)
ContextId(hart, is_supervisor) == 2 * hart + (IF is_supervisor THEN 1 ELSE 0)
\* The only context the hypervisor ever claims for.
SCtx == ContextId(HartId, TRUE)
ThresholdOffset(c) == CONTEXT_BASE + CONTEXT_REGS_SIZE * c
ClaimOffset(c) == ThresholdOffset(c) + CONTEXT_CLAIM

\* The passed-through registers: enable bits of each context, priority of
\* each source.
IsConfig(g) ==
    /\ DOMAIN g = {"enabled", "priority"}
    /\ g.enabled \in [Contexts -> SUBSET Irq]
    /\ g.priority \in [Irq -> 0..U32_MAX]
ResetConfig == [enabled |-> [c \in Contexts |-> {}], priority |-> [i \in Irq |-> 0]]

ASSUME GuestAssumption ==
    /\ MaxOutstanding \in Nat \ {0}
    /\ GuestOffsets \subseteq Int
    /\ GuestValues \subseteq Nat
    /\ \A g \in GuestConfigs : IsConfig(g)

VARIABLES
    line,            \* sources whose wire is asserted by the device
    pending,         \* sources latched by the gateway, not yet claimed
    in_service,      \* sources claimed from the hardware, not yet completed
    threshold,       \* threshold register of each hardware context
    config,          \* the passed-through registers of the hardware
    claim_complete,  \* Plic.claim_complete: the emulated claim register
    vseip,           \* hvip.VSEIP: the external interrupt shown to the guest
    rd,              \* last value a guest load received from the emulation
    hart             \* "guest", or how the hypervisor stopped

\* History, read by the properties only.
VARIABLES
    foreign,         \* completions the guest stored through other contexts
                     \* since the last external interrupt
    intact           \* no store has gone past the context registers

devVars == <<line, pending>>
emuVars == <<claim_complete, vseip, rd, hart>>
history == <<foreign, intact>>
vars == <<line, pending, in_service, threshold, config,
          claim_complete, vseip, rd, hart, foreign, intact>>

\* A store past the contexts may land on a claim register: until then they
\* hold sources.
TypeOK ==
    /\ line \subseteq Irq
    /\ pending \subseteq Irq
    /\ in_service \subseteq Irq
    /\ threshold \in [Contexts -> 0..U32_MAX]
    /\ IsConfig(config)
    /\ claim_complete \in [Contexts -> 0..U32_MAX]
    /\ rd \in 0..U32_MAX
    /\ intact => rd \in Irq \cup {0} /\ claim_complete \in [Contexts -> Irq \cup {0}]
    /\ vseip \in BOOLEAN
    /\ hart \in {"guest", "panic", "spin"}
    /\ foreign \subseteq 0..U32_MAX
    /\ intact \in BOOLEAN

\* Nothing asserted, claimed or injected.
Idle ==
    /\ line = {} /\ pending = {} /\ in_service = {}
    /\ threshold = [c \in Contexts |-> 0]
    /\ claim_complete = [c \in Contexts |-> 0]
    /\ vseip = FALSE
    /\ rd = 0
    /\ hart = "guest"
    /\ foreign = {} /\ intact = TRUE

Init == Idle /\ config = ResetConfig

----------------------------------------------------------------------------
(* The physical PLIC (external).                                           *)

\* A device asserts its wire.  MaxOutstanding bounds how many sources are
\* active together: 1 is a machine whose devices never overlap.
DeviceRaise(i) ==
    /\ i \notin line
    /\ Cardinality(line \cup pending \cup in_service \cup {i}) <= MaxOutstanding
    /\ line' = line \cup {i}
    /\ UNCHANGED <<pending, in_service, threshold, config, emuVars, history>>

\* The gateway forwards a request, and no other one for the same source
\* before the first has been completed.
GatewayLatch(i) ==
    /\ i \in line
    /\ i \notin pending
    /\ i \notin in_service
    /\ pending' = pending \cup {i}
    /\ UNCHANGED <<line, in_service, threshold, config, emuVars, history>>

\* The device's condition goes away (the guest serviced it).
DeviceLower(i) ==
    /\ i \in line
    /\ line' = line \ {i}
    /\ UNCHANGED <<pending, in_service, threshold, config, emuVars, history>>

\* What the PLIC may signal to, and hand out through, the supervisor context.
Deliverable ==
    {i \in pending \cap config.enabled[SCtx] : config.priority[i] > threshold[SCtx]}

\* A completion that reaches context c.  One of a source that is not enabled
\* there is ignored by the PLIC specification; QEMU's PLIC takes it.
HwComplete(c, v) ==
    \/ in_service' = in_service \ {v}
    \/ v \notin config.enabled[c] /\ UNCHANGED in_service

\* The guest stores to the registers passed through to it (Plic::memmap).
GuestConfigure(g) ==
    /\ hart = "guest"
    /\ config' = g
    /\ UNCHANGED <<devVars, in_service, threshold, emuVars, history>>

----------------------------------------------------------------------------
(* Interrupt from the hardware to the guest.                               *)

\* Mutant: a new claim acknowledges the one it overwrites.
update_claim_complete_acks(c, i) ==
    /\ pending' = pending \ {i}
    /\ in_service' = (in_service \ {claim_complete[c]}) \cup {i}
    /\ claim_complete' = [claim_complete EXCEPT ![c] = i]

\* Plic::update_claim_complete: read the hardware claim register, keep it.
update_claim_complete(c, i) ==
    /\ pending' = pending \ {i}
    /\ in_service' = in_service \cup {i}
    /\ claim_complete' = [claim_complete EXCEPT ![c] = i]

\* Mutant: claims for the machine context.
SupervisorExternal_machine ==
    /\ hart = "guest"
    /\ \E i \in Deliverable : update_claim_complete(ContextId(HartId, FALSE), i)
    /\ vseip' = TRUE
    /\ foreign' = {}
    /\ UNCHANGED <<line, threshold, config, rd, hart, intact>>

\* Mutant: the guest's interrupt is not raised.
SupervisorExternal_silent ==
    /\ hart = "guest"
    /\ \E i \in Deliverable : update_claim_complete(SCtx, i)
    /\ foreign' = {}
    /\ UNCHANGED <<line, threshold, config, vseip, rd, hart, intact>>

\* trap_interrupt, arm SupervisorExternal.  HS-level interrupts are taken
\* whenever the guest runs, whatever the guest's own interrupt enable.
SupervisorExternal ==
    /\ hart = "guest"
    /\ \E i \in Deliverable : update_claim_complete(SCtx, i)
    /\ vseip' = TRUE
    /\ foreign' = {}
    /\ UNCHANGED <<line, threshold, config, rd, hart, intact>>

----------------------------------------------------------------------------
(* Guest accesses to the context registers.                                *)

context_id(offset) == (offset - CONTEXT_BASE) \div CONTEXT_REGS_SIZE
register(offset) == offset % CONTEXT_REGS_SIZE

Ok(v) == [tag |-> "ok", value |-> v]
Err(e) == [tag |-> "err", value |-> e]
Panic == [tag |-> "panic", value |-> 0]

\* Plic::context_read.  The register within the context is not looked at:
\* a threshold load also returns the claim.  The bound check admits
\* context_id = MAX_CONTEXT_NUM, which then indexes past the array.
context_read(offset) ==
    IF context_id(offset) > MAX_CONTEXT_NUM THEN Err("InvalidContextId")
    ELSE IF context_id(offset) \in Contexts
         THEN Ok(claim_complete[context_id(offset)])
         ELSE Panic

\* Plic::emulate_read
emulate_read(offset) ==
    IF offset \in CONTEXT_BASE..CONTEXT_END
    THEN context_read(offset)
    ELSE Err("InvalidAddress")

\* How an access ends.  An error is handed to hs_forward_exception by a
\* caller that still holds HYPERVISOR_DATA, which hs_forward_exception locks
\* again: the hart spins forever (module TrapFlow has the steps).  An offset
\* below the PLIC makes the usize subtraction overflow, a panic or (without
\* overflow checks) an InvalidAddress.
Stops(offset, tag) ==
    \/ tag = "err" /\ hart' = "spin"
    \/ tag = "panic" /\ hart' = "panic"
    \/ offset < 0 /\ hart' = "panic"

\* load_guest_page_fault, with its Ok and its failing ends
load_guest_page_fault(offset) ==
    LET r == emulate_read(offset) IN
    /\ hart = "guest"
    /\ \/ /\ r.tag = "ok"
          /\ rd' = r.value
          /\ UNCHANGED hart
       \/ /\ Stops(offset, r.tag)
          /\ UNCHANGED rd
    /\ UNCHANGED <<devVars, in_service, threshold, config, claim_complete, vseip, history>>

\* A store past the last context goes to whatever the host has at that
\* address.  Of the emulation's own state that is at most one word of
\* claim_complete; what else it may be is not modelled, and nothing is
\* promised from then on (intact).
StrayStore(v) ==
    /\ intact' = FALSE
    /\ \/ UNCHANGED claim_complete
       \/ \E c \in Contexts : claim_complete' = [claim_complete EXCEPT ![c] = v]

\* Plic::context_write, arm 0: written through, with no bound on the context.
write_threshold(offset, v) ==
    LET c == context_id(offset) IN
    /\ IF c \in Contexts
       THEN /\ threshold' = [threshold EXCEPT ![c] = v]
            /\ UNCHANGED <<claim_complete, intact>>
       ELSE StrayStore(v) /\ UNCHANGED threshold
    /\ UNCHANGED <<in_service, vseip, hart, foreign>>

\* Mutant: the completion does not clear the emulated claim.
write_complete_keeps_claim(offset, v) ==
    LET c == context_id(offset) IN
    /\ IF c \in Contexts
       THEN /\ HwComplete(c, v)
            /\ vseip' = FALSE
            /\ foreign' = IF c = SCtx THEN foreign ELSE foreign \cup {v}
            /\ UNCHANGED <<claim_complete, hart, intact>>
       ELSE /\ StrayStore(v)
            /\ hart' = "panic"
            /\ UNCHANGED <<in_service, vseip, foreign>>
    /\ UNCHANGED threshold

\* Mutant: the completion does not withdraw the guest's interrupt.
write_complete_keeps_vseip(offset, v) ==
    LET c == context_id(offset) IN
    /\ IF c \in Contexts
       THEN /\ HwComplete(c, v)
            /\ claim_complete' = [claim_complete EXCEPT ![c] = 0]
            /\ foreign' = IF c = SCtx THEN foreign ELSE foreign \cup {v}
            /\ UNCHANGED <<vseip, hart, intact>>
       ELSE /\ StrayStore(v)
            /\ hart' = "panic"
            /\ UNCHANGED <<in_service, vseip, foreign>>
    /\ UNCHANGED threshold

\* Plic::context_write, arm 4: the completion is written through, then the
\* emulated claim is cleared (an index past the array panics, after the
\* store) and the guest's external interrupt is withdrawn.
write_complete(offset, v) ==
    LET c == context_id(offset) IN
    /\ IF c \in Contexts
       THEN /\ HwComplete(c, v)
            /\ claim_complete' = [claim_complete EXCEPT ![c] = 0]
            /\ vseip' = FALSE
            /\ foreign' = IF c = SCtx THEN foreign ELSE foreign \cup {v}
            /\ UNCHANGED <<hart, intact>>
       ELSE /\ StrayStore(v)
            /\ hart' = "panic"
            /\ UNCHANGED <<in_service, vseip, foreign>>
    /\ UNCHANGED threshold

\* Arms 8 (ReservedRegister) and _ (InvalidAddress), and the offsets that
\* emulate_write refuses before.
write_rejected(offset) ==
    /\ Stops(offset, "err")
    /\ UNCHANGED <<in_service, threshold, claim_complete, vseip, history>>

\* Mutant: the match has no arm for the claim register.
emulate_write_no_claim(offset, v) ==
    LET inRange == offset \in CONTEXT_BASE..CONTEXT_END IN
    \/ inRange /\ register(offset) = 0 /\ write_threshold(offset, v)
    \/ ~(inRange /\ register(offset) = 0) /\ write_rejected(offset)

\* Plic::emulate_write and context_write
emulate_write(offset, v) ==
    LET inRange == offset \in CONTEXT_BASE..CONTEXT_END IN
    \/ inRange /\ register(offset) = 0 /\ write_threshold(offset, v)
    \/ inRange /\ register(offset) = CONTEXT_CLAIM /\ write_complete(offset, v)
    \/ ~(inRange /\ register(offset) \in {0, CONTEXT_CLAIM}) /\ write_rejected(offset)

\* Mutant: the register is not narrowed to u32.
store_guest_page_fault_wide(offset, v) ==
    /\ hart = "guest"
    /\ emulate_write(offset, v)
    /\ UNCHANGED <<devVars, config, rd>>

\* store_guest_page_fault: the 64-bit register is converted to u32 first,
\* and the conversion is unwrapped.
store_guest_page_fault(offset, v) ==
    /\ hart = "guest"
    /\ \/ v <= U32_MAX /\ emulate_write(offset, v)
       \/ /\ v > U32_MAX
          /\ hart' = "panic"
          /\ UNCHANGED <<in_service, threshold, claim_complete, vseip, history>>
    /\ UNCHANGED <<devVars, config, rd>>

----------------------------------------------------------------------------

Hardware == \E i \in Irq : DeviceRaise(i) \/ GatewayLatch(i) \/ DeviceLower(i)
GuestLoad == \E o \in GuestOffsets : load_guest_page_fault(o)
GuestStore == \E o \in GuestOffsets, v \in GuestValues : store_guest_page_fault(o, v)
GuestSetup == \E g \in GuestConfigs : GuestConfigure(g)

Next == Hardware \/ SupervisorExternal \/ GuestLoad \/ GuestStore \/ GuestSetup
Spec == Init /\ [][Next]_vars

----------------------------------------------------------------------------
(* Safety, for every guest, until one of its stores goes past the context  *)
(* registers into the host's memory.                                       *)

\* The source that the claim register shows is claimed from the hardware and
\* not completed, unless the guest itself stored the completion of that very
\* source through another context since the interrupt (plic.rs:59 against
\* 106).  No completion of another source, and no later interrupt, leaves
\* the guest with a source that is already released.
ClaimIsInService ==
    intact /\ claim_complete[SCtx] # 0
        => claim_complete[SCtx] \in in_service \cup foreign

\* The guest has an external interrupt pending only while its claim register
\* names a source, so a guest that takes the interrupt finds one
\* (interrupt.rs:43 against plic.rs:106-107).
InjectedHasClaim == intact /\ vseip => claim_complete[SCtx] # 0

\* A claim is announced until it is completed: the guest's interrupt is
\* withdrawn from under a claim by nothing but a completion that the guest
\* stored through another context since (plic.rs:107 withdraws it whatever
\* the context).
ClaimIsAnnounced ==
    intact /\ claim_complete[SCtx] # 0 => vseip \/ foreign # {}

\* Claims are recorded for this hart's supervisor context and no other: a
\* load through any other context sees no interrupt (interrupt.rs:33).
OtherContextsSilent ==
    intact => \A c \in Contexts \ {SCtx} : claim_complete[c] = 0

\* A source leaves service only by the guest's store of that source to the
\* claim register of a context, which clears the emulated claim there and
\* withdraws the interrupt: no interrupt, load, other store, configuration
\* or device step releases it, so a level-triggered source cannot fire twice
\* for one claim.
ReleasedOnlyByCompletion ==
    [][\A i \in in_service \ in_service' :
          /\ \E o \in GuestOffsets :
                /\ register(o) = CONTEXT_CLAIM
                /\ store_guest_page_fault(o, i)
                /\ claim_complete'[context_id(o)] = 0
          /\ in_service' = in_service \ {i}
          /\ ~vseip']_vars
=============================================================================
