----------------------------- MODULE PlicProofs -----------------------------
(***************************************************************************)
(* The safety of the emulated PLIC for every number of harts and sources,  *)
(* every layout of the context registers and every guest, as long as no    *)
(* store of it goes past the context registers.                            *)
(***************************************************************************)
EXTENDS Plic, TLAPS

Safe == ClaimIsInService /\ InjectedHasClaim /\ ClaimIsAnnounced /\ OtherContextsSilent
IInv == TypeOK /\ Safe

\* What the properties depend on.
emulated == <<in_service, claim_complete, vseip, foreign, intact>>

LEMMA ConstantFacts ==
    /\ SCtx \in Contexts
    /\ MAX_CONTEXT_NUM \in Nat
    /\ CONTEXT_END \in Nat
    /\ Contexts \subseteq Nat
    /\ Irq \cup {0} \subseteq 0..U32_MAX
    /\ 0 \notin Irq
BY SizeAssumption, IrqAssumption
   DEF SCtx, ContextId, Contexts, MAX_CONTEXT_NUM, CONTEXT_END

\* A load that succeeds returns the emulated claim of an existing context.
LEMMA LoadValue ==
    ASSUME NEW o \in Int, emulate_read(o).tag = "ok"
    PROVE  \E c \in Contexts : emulate_read(o).value = claim_complete[c]
BY DEF emulate_read, context_read, Ok, Err, Panic

LEMMA SafeUnchanged == ASSUME Safe, UNCHANGED emulated PROVE Safe'
BY DEF Safe, emulated, ClaimIsInService, InjectedHasClaim, ClaimIsAnnounced,
   OtherContextsSilent

\* The initial states, for every setting of the passed-through registers.
LEMMA IdleIInv == ASSUME Idle, IsConfig(config) PROVE IInv
<1>1. /\ threshold \in [Contexts -> 0..U32_MAX]
      /\ claim_complete \in [Contexts -> 0..U32_MAX]
      /\ claim_complete \in [Contexts -> Irq \cup {0}]
      /\ rd \in 0..U32_MAX
  BY SizeAssumption DEF Idle
<1>2. TypeOK
  BY <1>1, Zenon DEF Idle, TypeOK
<1>3. Safe
  BY ConstantFacts DEF Idle, Safe, ClaimIsInService, InjectedHasClaim,
     ClaimIsAnnounced, OtherContextsSilent
<1>4. QED
  BY <1>2, <1>3 DEF IInv

\* Init establishes the invariant.
LEMMA InitIInv == Init => IInv
<1>1. IsConfig(ResetConfig)
  BY SizeAssumption DEF IsConfig, ResetConfig
<1>2. QED
  BY <1>1, IdleIInv DEF Init

\* A device or the gateway changes none of what the emulation keeps.
LEMMA HardwareIInv ==
    ASSUME IInv, NEW i \in Irq, DeviceRaise(i) \/ GatewayLatch(i) \/ DeviceLower(i)
    PROVE  IInv'
<1>1. UNCHANGED emulated /\ UNCHANGED <<threshold, config, rd, hart>>
  BY DEF DeviceRaise, GatewayLatch, DeviceLower, emuVars, history, emulated
<1>2. line' \subseteq Irq /\ pending' \subseteq Irq
  BY DEF IInv, TypeOK, DeviceRaise, GatewayLatch, DeviceLower
<1>3. TypeOK'
  BY <1>1, <1>2 DEF IInv, TypeOK, emulated
<1>4. QED
  BY <1>1, <1>3, SafeUnchanged DEF IInv

LEMMA ExternalIInv == ASSUME IInv, SupervisorExternal PROVE IInv'
<1> USE DEF IInv
<1>1. PICK i \in Deliverable : update_claim_complete(SCtx, i)
  BY DEF SupervisorExternal
<1>2. i \in Irq /\ i # 0 /\ i \in 0..U32_MAX
  BY ConstantFacts DEF TypeOK, Deliverable
<1>3. /\ pending' = pending \ {i}
      /\ in_service' = in_service \cup {i}
      /\ claim_complete' = [claim_complete EXCEPT ![SCtx] = i]
      /\ vseip' = TRUE /\ foreign' = {}
      /\ UNCHANGED <<line, threshold, config, rd, hart, intact>>
  BY <1>1 DEF SupervisorExternal, update_claim_complete
<1>4. TypeOK'
  BY <1>2, <1>3, ConstantFacts DEF TypeOK
<1>5. claim_complete'[SCtx] = i
      /\ \A c \in Contexts \ {SCtx} : claim_complete'[c] = claim_complete[c]
  BY <1>3, ConstantFacts DEF TypeOK
<1>6. Safe'
  BY <1>2, <1>3, <1>5 DEF Safe, ClaimIsInService, InjectedHasClaim,
     ClaimIsAnnounced, OtherContextsSilent
<1>7. QED
  BY <1>4, <1>6

\* A load through any offset only reads.
LEMMA LoadIInv == ASSUME IInv, NEW o \in Int, load_guest_page_fault(o) PROVE IInv'
<1>1. UNCHANGED emulated /\ UNCHANGED <<line, pending, threshold, config>>
  BY DEF load_guest_page_fault, devVars, history, emulated
<1>2. /\ rd' \in 0..U32_MAX
      /\ intact => rd' \in Irq \cup {0}
      /\ hart' \in {"guest", "panic", "spin"}
  BY LoadValue DEF IInv, load_guest_page_fault, Stops, TypeOK
<1>3. TypeOK'
  BY <1>1, <1>2 DEF IInv, TypeOK, emulated
<1>4. QED
  BY <1>1, <1>3, SafeUnchanged DEF IInv

\* A store past the contexts ends what is promised, not the types.
LEMMA StrayStoreIInv ==
    ASSUME IInv, NEW v \in 0..U32_MAX, StrayStore(v), hart' \in {"guest", "panic"},
           UNCHANGED <<line, pending, in_service, threshold, config, vseip, rd, foreign>>
    PROVE  IInv'
<1>1. ~intact' /\ claim_complete' \in [Contexts -> 0..U32_MAX]
  BY DEF IInv, TypeOK, StrayStore
<1>2. TypeOK'
  BY <1>1, Zenon DEF IInv, TypeOK, StrayStore
<1>3. Safe'
  BY <1>1 DEF Safe, ClaimIsInService, InjectedHasClaim, ClaimIsAnnounced,
     OtherContextsSilent
<1>4. QED
  BY <1>2, <1>3 DEF IInv

\* A completion through any context.
LEMMA CompleteIInv ==
    ASSUME IInv, NEW v \in 0..U32_MAX, NEW c \in Contexts, HwComplete(c, v),
           claim_complete' = [claim_complete EXCEPT ![c] = 0],
           vseip' = FALSE,
           foreign' = IF c = SCtx THEN foreign ELSE foreign \cup {v},
           UNCHANGED <<line, pending, threshold, config, rd, hart, intact>>
    PROVE  IInv'
<1> USE DEF IInv
<1>1. in_service' \subseteq in_service /\ in_service \subseteq in_service' \cup {v}
  BY DEF HwComplete
<1>2. /\ claim_complete'[c] = 0
      /\ \A d \in Contexts \ {c} : claim_complete'[d] = claim_complete[d]
      /\ claim_complete' \in [Contexts -> 0..U32_MAX]
      /\ intact' => claim_complete' \in [Contexts -> Irq \cup {0}]
  BY SizeAssumption, ConstantFacts DEF TypeOK
<1>3. in_service' \subseteq Irq /\ foreign' \subseteq 0..U32_MAX
  BY <1>1 DEF TypeOK
<1>4. TypeOK'
  BY <1>2, <1>3 DEF TypeOK
<1>5. ASSUME c = SCtx PROVE Safe'
  BY <1>2, <1>5 DEF Safe, ClaimIsInService, InjectedHasClaim, ClaimIsAnnounced,
     OtherContextsSilent
<1>6. ASSUME c # SCtx PROVE Safe'
  <2>1. claim_complete'[SCtx] = claim_complete[SCtx] /\ v \in foreign'
        /\ foreign \subseteq foreign'
    BY <1>2, <1>6, ConstantFacts
  <2>2. QED
    BY <1>1, <1>2, <1>6, <2>1 DEF Safe, ClaimIsInService, InjectedHasClaim,
       ClaimIsAnnounced, OtherContextsSilent
<1>7. QED
  BY <1>4, <1>5, <1>6

\* A store of any register to any offset.
LEMMA StoreIInv ==
    ASSUME IInv, NEW o \in Int, NEW v \in Nat, store_guest_page_fault(o, v)
    PROVE  IInv'
<1>0. UNCHANGED <<line, pending, config, rd>> /\ hart = "guest"
  BY DEF store_guest_page_fault, devVars
<1>1. ASSUME UNCHANGED emulated, threshold' \in [Contexts -> 0..U32_MAX],
             hart' \in {"guest", "panic", "spin"}
      PROVE  IInv'
  <2>1. TypeOK'
    BY <1>0, <1>1, Zenon DEF IInv, TypeOK, emulated
  <2>2. QED
    BY <1>1, <2>1, SafeUnchanged DEF IInv
<1>2. CASE v > U32_MAX
  <2>1. UNCHANGED emulated /\ UNCHANGED threshold /\ hart' = "panic"
    BY <1>2, SizeAssumption DEF store_guest_page_fault, history, emulated
  <2>2. QED
    BY <1>1, <2>1 DEF IInv, TypeOK
<1>3. CASE v <= U32_MAX
  <2>0. v \in 0..U32_MAX /\ emulate_write(o, v)
    BY <1>3, SizeAssumption DEF store_guest_page_fault
  <2> DEFINE c == context_id(o)
  <2>1. CASE write_threshold(o, v) /\ c \in Contexts
    <3>1. UNCHANGED emulated /\ UNCHANGED hart
          /\ threshold' = [threshold EXCEPT ![c] = v]
      BY <2>1 DEF write_threshold, emulated
    <3>2. QED
      BY <1>0, <1>1, <2>0, <3>1 DEF IInv, TypeOK
  <2>2. CASE write_threshold(o, v) /\ c \notin Contexts
    BY <1>0, <2>0, <2>2, StrayStoreIInv DEF write_threshold
  <2>3. CASE write_complete(o, v) /\ c \in Contexts
    <3>1. /\ HwComplete(c, v)
          /\ claim_complete' = [claim_complete EXCEPT ![c] = 0]
          /\ vseip' = FALSE
          /\ foreign' = IF c = SCtx THEN foreign ELSE foreign \cup {v}
          /\ UNCHANGED <<threshold, hart, intact>>
      BY <2>3 DEF write_complete
    <3>2. QED
      BY <1>0, <2>0, <2>3, <3>1, CompleteIInv
  <2>4. CASE write_complete(o, v) /\ c \notin Contexts
    BY <1>0, <2>0, <2>4, StrayStoreIInv DEF write_complete
  <2>5. CASE write_rejected(o)
    <3>1. UNCHANGED emulated /\ UNCHANGED threshold /\ hart' \in {"panic", "spin"}
      BY <2>5 DEF write_rejected, Stops, history, emulated
    <3>2. QED
      BY <1>1, <3>1 DEF IInv, TypeOK
  <2>6. QED
    BY <2>0, <2>1, <2>2, <2>3, <2>4, <2>5 DEF emulate_write
<1>4. QED
  BY <1>2, <1>3, SizeAssumption

LEMMA ConfigureIInv ==
    ASSUME IInv, NEW g \in GuestConfigs, GuestConfigure(g) PROVE IInv'
<1>1. UNCHANGED emulated /\ UNCHANGED <<line, pending, threshold, rd, hart>>
  BY DEF GuestConfigure, devVars, emuVars, history, emulated
<1>2. IsConfig(config')
  BY GuestAssumption DEF GuestConfigure
<1>3. TypeOK'
  BY <1>1, <1>2 DEF IInv, TypeOK, emulated, IsConfig
<1>4. QED
  BY <1>1, <1>3, SafeUnchanged DEF IInv

\* Every step of the hardware, the hypervisor and the guest preserves it.
LEMMA NextIInv == IInv /\ [Next]_vars => IInv'
<1>0. SUFFICES ASSUME IInv, [Next]_vars PROVE IInv'
  OBVIOUS
<1>1. CASE Hardware
  BY <1>0, <1>1, HardwareIInv DEF Hardware
<1>2. CASE SupervisorExternal
  BY <1>0, <1>2, ExternalIInv
<1>3. CASE GuestLoad
  BY <1>0, <1>3, LoadIInv, GuestAssumption DEF GuestLoad
<1>4. CASE GuestStore
  BY <1>0, <1>4, StoreIInv, GuestAssumption DEF GuestStore
<1>5. CASE GuestSetup
  BY <1>0, <1>5, ConfigureIInv DEF GuestSetup
<1>6. CASE UNCHANGED vars
  <2>1. TypeOK' /\ UNCHANGED emulated
    BY <1>0, <1>6 DEF IInv, vars, TypeOK, emulated, IsConfig
  <2>2. QED
    BY <1>0, <2>1, SafeUnchanged DEF IInv
<1>7. QED
  BY <1>0, <1>1, <1>2, <1>3, <1>4, <1>5, <1>6 DEF Next

\* Claim register, injected interrupt and the hardware's state stay in step,
\* whatever the guest accesses (plic.rs, emulate_read and emulate_write),
\* until a store goes past the context registers.
THEOREM IInvariant == Spec => []IInv
<1>1. QED
  BY InitIInv, NextIInv, PTL DEF Spec

\* Only the guest's store of a source to a claim register takes that source
\* out of service (context_write, arm 4); this holds after a store past the
\* context registers too.
THEOREM ReleasesAreCompletions == Spec => ReleasedOnlyByCompletion
<1> DEFINE P == \A i \in in_service \ in_service' :
                  /\ \E o \in GuestOffsets :
                        /\ register(o) = CONTEXT_CLAIM
                        /\ store_guest_page_fault(o, i)
                        /\ claim_complete'[context_id(o)] = 0
                  /\ in_service' = in_service \ {i}
                  /\ ~vseip'
<1>1. ASSUME IInv, Next, NEW i \in in_service \ in_service'
      PROVE  /\ \E o \in GuestOffsets :
                   /\ register(o) = CONTEXT_CLAIM
                   /\ store_guest_page_fault(o, i)
                   /\ claim_complete'[context_id(o)] = 0
             /\ in_service' = in_service \ {i}
             /\ ~vseip'
  <2>1. PICK o \in GuestOffsets, v \in GuestValues : store_guest_page_fault(o, v)
    BY <1>1 DEF Next, Hardware, GuestLoad, GuestStore, GuestSetup, DeviceRaise,
       GatewayLatch, DeviceLower, SupervisorExternal, update_claim_complete,
       load_guest_page_fault, GuestConfigure
  <2>2. write_complete(o, v) /\ register(o) = CONTEXT_CLAIM
    BY <1>1, <2>1 DEF store_guest_page_fault, emulate_write, write_threshold, write_rejected
  <2>3. context_id(o) \in Contexts /\ HwComplete(context_id(o), v)
        /\ claim_complete' = [claim_complete EXCEPT ![context_id(o)] = 0] /\ ~vseip'
    BY <1>1, <2>2 DEF write_complete
  <2>4. v = i /\ in_service' = in_service \ {i}
    BY <1>1, <2>3 DEF HwComplete
  <2>5. claim_complete'[context_id(o)] = 0
    BY <1>1, <2>3 DEF IInv, TypeOK
  <2>6. QED
    BY <2>1, <2>2, <2>3, <2>4, <2>5
<1>2. IInv /\ [Next]_vars => [P]_vars
  BY <1>1
<1>3. QED
  BY IInvariant, <1>2, PTL DEF Spec, ReleasedOnlyByCompletion

\* The variables keep their types, for every guest; after a store past the
\* context registers a claim register may hold any 32-bit value.
THEOREM TypeCorrect == Spec => []TypeOK
BY IInvariant, PTL DEF IInv

\* A claim shown to the guest is in service in the hardware, unless the guest
\* completed that source through another context (plic.rs:59 and 106).
THEOREM ClaimsAreInService == Spec => []ClaimIsInService
BY IInvariant, PTL DEF IInv, Safe

\* An injected external interrupt always has a claim behind it.
THEOREM InjectedAlwaysHasClaim == Spec => []InjectedHasClaim
BY IInvariant, PTL DEF IInv, Safe

\* A claim is announced until the guest stores a completion (plic.rs:107).
THEOREM ClaimsAreAnnounced == Spec => []ClaimIsAnnounced
BY IInvariant, PTL DEF IInv, Safe

\* No other context ever shows a claim.
THEOREM OthersAlwaysSilent == Spec => []OtherContextsSilent
BY IInvariant, PTL DEF IInv, Safe
=============================================================================
