-------------------------- MODULE PlicDriverProofs --------------------------
(***************************************************************************)
(* The emulated PLIC under a guest's driver, for every number of harts and *)
(* sources and every layout of the context registers: the driver never     *)
(* stops the hypervisor, and, as long as sources do not overlap, it sees   *)
(* the controller that module DirectPlic describes.                        *)
(***************************************************************************)
EXTENDS PlicDriver, PlicProofs, FiniteSetTheorems

----------------------------------------------------------------------------
(* Where the driver's accesses go.                                         *)

\* The quotient and the remainder of a sum with a multiple of the divisor.
LEMMA DivOfSum ==
    ASSUME NEW d \in Nat \ {0}, NEW q \in Nat, NEW r \in 0..(d - 1)
    PROVE  (d * q + r) \div d = q /\ (d * q + r) % d = r
OBVIOUS

\* The last register of the last context lies inside the range that
\* emulate_read and emulate_write accept.
LEMMA InRange ==
    ASSUME NEW c \in Contexts, NEW r \in 0..CONTEXT_CLAIM
    PROVE  ThresholdOffset(c) + r \in CONTEXT_BASE..CONTEXT_END
<1> DEFINE B == CONTEXT_BASE  R == CONTEXT_REGS_SIZE  n == MAX_CONTEXT_NUM
<1>1. B \in Nat /\ R \in Nat /\ n \in Nat /\ B >= 1 /\ R >= 9 /\ n >= 2 /\ c \in 0..(n - 1)
  BY SizeAssumption DEF MAX_CONTEXT_NUM, Contexts
<1>2. B >= R
  BY <1>1, SizeAssumption
<1> HIDE DEF B, R, n
<1>3. R * c \in Nat /\ R * c <= R * (n - 1) /\ R * (n - 1) = R * n - R /\ R * n \in Nat
  BY <1>1
<1>4. B * R \in Nat /\ B * R >= 9 * B
  BY <1>1
<1>5. B * R * n = B * (R * n)
  BY <1>1
<1>6. B * (R * n) >= 9 * (R * n)
  BY <1>1, <1>2, <1>3
<1>7. (B * R) * n >= (B * R) * 2
  BY <1>1, <1>4
<1>8. B + R * c + r <= B * R * n
  BY <1>1, <1>2, <1>3, <1>4, <1>5, <1>6, <1>7 DEF CONTEXT_CLAIM
<1>9. QED
  BY <1>1, <1>3, <1>8 DEF B, R, n, ThresholdOffset, CONTEXT_END, CONTEXT_CLAIM

\* A register of context c is found again in that context.
LEMMA Decoded ==
    ASSUME NEW c \in Contexts, NEW r \in 0..CONTEXT_CLAIM
    PROVE  /\ context_id(ThresholdOffset(c) + r) = c
           /\ register(ThresholdOffset(c) + r) = r
           /\ ThresholdOffset(c) + r \in Int
<1> DEFINE B == CONTEXT_BASE  R == CONTEXT_REGS_SIZE
<1>1. B \in Nat /\ R \in Nat \ {0} /\ c \in Nat /\ r \in 0..(R - 1) /\ B % R = 0
  BY SizeAssumption, ConstantFacts DEF CONTEXT_CLAIM
<1>2. B \div R \in Nat /\ B = R * (B \div R)
  BY <1>1
<1> HIDE DEF B, R
<1>3. (R * c + r) \div R = c
  BY <1>1, DivOfSum
<1>4. R * c \in Nat /\ (B + R * c + r) - B = R * c + r
  BY <1>1
<1>5. B + R * c + r = R * ((B \div R) + c) + r
  BY <1>1, <1>2
<1>6. (B + R * c + r) % R = r
  <2>1. (B \div R) + c \in Nat
    BY <1>1, <1>2
  <2>2. (R * ((B \div R) + c) + r) % R = r
    BY <1>1, <2>1, DivOfSum
  <2>3. QED
    BY <1>5, <2>2
<1>7. QED
  BY <1>1, <1>3, <1>4, <1>6 DEF B, R, context_id, register, ThresholdOffset

\* The driver's load of its claim register returns the emulated claim.
LEMMA DriverLoads ==
    ASSUME IInv, load_guest_page_fault(ClaimOffset(SCtx))
    PROVE  /\ rd' = claim_complete[SCtx]
           /\ UNCHANGED <<line, pending, in_service, threshold, config,
                          claim_complete, vseip, hart, foreign, intact>>
<1> DEFINE o == ClaimOffset(SCtx)
<1>1. o = ThresholdOffset(SCtx) + CONTEXT_CLAIM /\ CONTEXT_CLAIM \in 0..CONTEXT_CLAIM
  BY DEF ClaimOffset, CONTEXT_CLAIM
<1>2. context_id(o) = SCtx /\ o \in CONTEXT_BASE..CONTEXT_END /\ o \in Int
  BY <1>1, Decoded, InRange, ConstantFacts
<1>3. SCtx \in Contexts /\ ~(SCtx > MAX_CONTEXT_NUM)
  BY ConstantFacts DEF Contexts
<1>4. emulate_read(o) = Ok(claim_complete[SCtx])
  BY <1>2, <1>3 DEF emulate_read, context_read
<1>5. ~(o < 0)
  BY <1>2, SizeAssumption
<1>6. QED
  BY <1>4, <1>5 DEF load_guest_page_fault, Stops, Ok, devVars, history

\* The driver's store to its claim register completes the source.
LEMMA DriverCompletes ==
    ASSUME IInv, intact, config = DriverConfig,
           store_guest_page_fault(ClaimOffset(SCtx), rd)
    PROVE  /\ in_service' = in_service \ {rd}
           /\ claim_complete' = [claim_complete EXCEPT ![SCtx] = 0]
           /\ vseip' = FALSE
           /\ UNCHANGED <<line, pending, threshold, config, rd, hart, foreign, intact>>
<1> DEFINE o == ClaimOffset(SCtx)
<1>1. o = ThresholdOffset(SCtx) + CONTEXT_CLAIM /\ CONTEXT_CLAIM \in 0..CONTEXT_CLAIM
  BY DEF ClaimOffset, CONTEXT_CLAIM
<1>2. context_id(o) = SCtx /\ o \in CONTEXT_BASE..CONTEXT_END /\ register(o) = CONTEXT_CLAIM
  BY <1>1, Decoded, InRange, ConstantFacts
<1>3. rd \in Nat /\ ~(rd > U32_MAX)
  BY IrqAssumption, SizeAssumption DEF IInv, TypeOK
<1>4. emulate_write(o, rd) /\ UNCHANGED <<line, pending, config, rd>>
  BY <1>3 DEF store_guest_page_fault, devVars
<1>5. write_complete(o, rd)
  BY <1>2, <1>4 DEF emulate_write, CONTEXT_CLAIM
<1>6. config.enabled[SCtx] = Irq
  BY ConstantFacts DEF DriverConfig
<1>7. rd \in Irq \/ (rd = 0 /\ rd \notin in_service)
  BY ConstantFacts DEF IInv, TypeOK
<1>8. HwComplete(SCtx, rd) => in_service' = in_service \ {rd}
  BY <1>6, <1>7 DEF HwComplete
<1>9. QED
  BY <1>2, <1>4, <1>5, <1>8, ConstantFacts DEF write_complete

\* Its store to the threshold register changes the threshold only.
LEMMA DriverMasks ==
    ASSUME IInv, NEW v \in {0, 1}, store_guest_page_fault(ThresholdOffset(SCtx), v)
    PROVE  UNCHANGED <<line, pending, in_service, config, claim_complete, vseip,
                       rd, hart, foreign, intact>>
<1> DEFINE o == ThresholdOffset(SCtx)
<1>1. o = o + 0 /\ 0 \in 0..CONTEXT_CLAIM
  BY SizeAssumption, ConstantFacts DEF ThresholdOffset, CONTEXT_CLAIM
<1>2. context_id(o) = SCtx /\ o \in CONTEXT_BASE..CONTEXT_END /\ register(o) = 0
  BY <1>1, Decoded, InRange, ConstantFacts
<1>3. v \in Nat /\ ~(v > U32_MAX)
  BY SizeAssumption
<1>4. emulate_write(o, v) /\ UNCHANGED <<line, pending, config, rd>>
  BY <1>3 DEF store_guest_page_fault, devVars
<1>5. write_threshold(o, v)
  BY <1>2, <1>4 DEF emulate_write, CONTEXT_CLAIM
<1>6. QED
  BY <1>2, <1>4, <1>5, ConstantFacts DEF write_threshold

----------------------------------------------------------------------------
(* The hypervisor never stops.                                             *)

\* The driver keeps to the context registers and to its own set-up.
Tame == intact /\ config = DriverConfig

DriverIInv == IInv /\ DriverTypeOK /\ DriverNeverStops /\ Tame

LEMMA DriverInitIInv == DriverInit => DriverIInv
<1>0. SUFFICES ASSUME DriverInit PROVE DriverIInv
  OBVIOUS
<1>1. IsConfig(DriverConfig)
  BY SizeAssumption DEF IsConfig, DriverConfig
<1>2. IInv
  BY <1>0, <1>1, IdleIInv DEF DriverInit
<1>3. QED
  BY <1>0, <1>2 DEF DriverInit, Idle, DriverIInv, DriverTypeOK, IInv, DriverNeverStops, Tame

LEMMA DriverNextIInv == DriverIInv /\ [DriverNext]_driverVars => DriverIInv'
<1>0. SUFFICES ASSUME DriverIInv, [DriverNext]_driverVars PROVE DriverIInv'
  OBVIOUS
<1>c. ClaimOffset(SCtx) \in Int /\ ThresholdOffset(SCtx) \in Int
  BY SizeAssumption, ConstantFacts DEF ClaimOffset, ThresholdOffset, CONTEXT_CLAIM
<1>r. rd \in Nat /\ IInv /\ Tame /\ hart = "guest"
  BY <1>0 DEF DriverIInv, DriverNeverStops, IInv, TypeOK
<1>k. ASSUME IInv', UNCHANGED <<intact, config, hart>>,
             gpc' \in {"task", "masked", "claim", "handle", "complete"}
      PROVE  DriverIInv'
  BY <1>r, <1>k DEF DriverIInv, DriverTypeOK, DriverNeverStops, Tame, IInv
<1>g. gpc \in {"task", "masked", "claim", "handle", "complete"}
  BY <1>0 DEF DriverIInv, DriverTypeOK
<1>1. CASE Raise \/ Latch
  <2>1. PICK i \in Irq : (DeviceRaise(i) \/ GatewayLatch(i)) /\ UNCHANGED gpc
    BY <1>1 DEF Raise, Latch
  <2>2. UNCHANGED <<intact, config, hart>>
    BY <2>1 DEF DeviceRaise, GatewayLatch, emuVars, history
  <2>3. QED
    BY <1>r, <1>k, <1>g, <2>1, <2>2, HardwareIInv
<1>2. CASE External
  BY <1>r, <1>k, <1>g, <1>2, ExternalIInv DEF External, SupervisorExternal
<1>3. CASE GuestTake
  <2>1. IInv'
    BY <1>r, <1>3, NextIInv DEF GuestTake
  <2>2. QED
    BY <1>k, <1>3, <2>1 DEF GuestTake, vars
<1>4. CASE GuestClaim
  BY <1>r, <1>k, <1>4, <1>c, LoadIInv, DriverLoads DEF GuestClaim
<1>5. CASE GuestHandle
  <2>1. UNCHANGED emulated /\ UNCHANGED <<pending, threshold, config, rd, hart>>
    BY <1>5 DEF GuestHandle, emuVars, history, emulated
  <2>2. line' \subseteq Irq /\ gpc' = "complete"
    BY <1>r, <1>5 DEF GuestHandle, IInv, TypeOK
  <2>3. TypeOK'
    BY <1>r, <2>1, <2>2 DEF IInv, TypeOK, emulated
  <2>4. IInv'
    BY <1>r, <2>1, <2>3, SafeUnchanged DEF IInv
  <2>5. QED
    BY <1>k, <2>1, <2>2, <2>4 DEF emulated
<1>6. CASE GuestComplete
  BY <1>r, <1>k, <1>6, <1>c, StoreIInv, DriverCompletes DEF GuestComplete, Tame
<1>7. CASE GuestMask \/ GuestUnmask
  BY <1>r, <1>k, <1>7, <1>c, StoreIInv, DriverMasks DEF GuestMask, GuestUnmask
<1>8. CASE UNCHANGED driverVars
  <2>1. IInv'
    BY <1>r, <1>8, NextIInv DEF driverVars, vars
  <2>2. QED
    BY <1>k, <1>g, <1>8, <2>1 DEF driverVars
<1>9. QED
  BY <1>0, <1>1, <1>2, <1>3, <1>4, <1>5, <1>6, <1>7, <1>8 DEF DriverNext

\* With a driver as guest the invariant of the emulation holds, and the driver
\* is where its claims say (plic.rs, context_read and context_write).
THEOREM DriverIInvariant == DriverSpec => []DriverIInv
BY DriverInitIInv, DriverNextIInv, PTL DEF DriverSpec

\* Whatever a driver claims, completes and masks, overlapping sources
\* included, the emulation accepts it (plic.rs, emulate_read and
\* emulate_write): no error is forwarded and no index is out of range.
THEOREM DriverKeepsRunning == DriverSpec => []DriverNeverStops
BY DriverIInvariant, PTL DEF DriverIInv

----------------------------------------------------------------------------
(* Sources that do not overlap.                                            *)

\* At most one source is active; the gateway forwards a source once, and
\* only while it is asserted.
OneAtATime ==
    /\ \A i, j \in line \cup pending \cup in_service : i = j
    /\ pending \cap in_service = {}
    /\ pending \subseteq line
    /\ gpc \in {"handle", "complete"} => rd # 0

SingleIInv == DriverIInv /\ NothingLost /\ OneAtATime

LEMMA AtMostOne ==
    ASSUME NEW S, IsFiniteSet(S), Cardinality(S) <= 1
    PROVE  \A i, j \in S : i = j
<1>1. SUFFICES ASSUME NEW i \in S, NEW j \in S, i # j PROVE FALSE
  OBVIOUS
<1>2. IsFiniteSet(S \ {i}) /\ Cardinality(S \ {i}) = Cardinality(S) - 1
  BY <1>1, FS_RemoveElement
<1>3. IsFiniteSet((S \ {i}) \ {j})
      /\ Cardinality((S \ {i}) \ {j}) = Cardinality(S \ {i}) - 1
  BY <1>1, <1>2, FS_RemoveElement
<1>4. Cardinality(S) \in Nat /\ Cardinality((S \ {i}) \ {j}) \in Nat
  BY <1>3, FS_CardinalityType
<1>5. QED
  BY <1>2, <1>3, <1>4

LEMMA ActiveSetFinite ==
    ASSUME TypeOK, NEW i \in Irq
    PROVE  IsFiniteSet(line \cup pending \cup in_service \cup {i})
<1>1. IsFiniteSet(1..U32_MAX)
  BY FS_Interval, SizeAssumption
<1>2. line \cup pending \cup in_service \cup {i} \subseteq 1..U32_MAX
  BY IrqAssumption DEF TypeOK
<1>3. QED
  BY <1>1, <1>2, FS_Subset

LEMMA SingleInit == DriverInit => SingleIInv
<1>1. ASSUME DriverInit PROVE NothingLost /\ OneAtATime
  BY <1>1, ConstantFacts
     DEF DriverInit, Idle, NothingLost, OneAtATime, Active, Unread
<1>2. QED
  BY <1>1, DriverInitIInv DEF SingleIInv

LEMMA SingleNext ==
    ASSUME MaxOutstanding = 1
    PROVE  SingleIInv /\ [DriverNext]_driverVars => SingleIInv'
<1>0. SUFFICES ASSUME SingleIInv, [DriverNext]_driverVars
               PROVE  NothingLost' /\ OneAtATime'
  BY DriverNextIInv DEF SingleIInv
<1>t. TypeOK /\ IInv /\ intact /\ config = DriverConfig
  BY <1>0 DEF SingleIInv, DriverIInv, IInv, Tame
<1> USE DEF SingleIInv
<1>1. ASSUME NEW i \in Irq, DeviceRaise(i), UNCHANGED gpc
      PROVE  NothingLost' /\ OneAtATime'
  <2>1. \A j, k \in line \cup pending \cup in_service \cup {i} : j = k
    BY <1>1, <1>t, ActiveSetFinite, AtMostOne DEF DeviceRaise
  <2>2. QED
    BY <1>0, <1>1, <2>1 DEF DeviceRaise, NothingLost, OneAtATime, Active, Unread, emuVars
<1>2. ASSUME NEW i \in Irq, GatewayLatch(i), UNCHANGED gpc
      PROVE  NothingLost' /\ OneAtATime'
  BY <1>0, <1>2 DEF GatewayLatch, NothingLost, OneAtATime, Active, Unread, emuVars
<1>3. CASE External
  <2>1. PICK i \in pending : update_claim_complete(SCtx, i)
    BY <1>3 DEF External, SupervisorExternal, Deliverable
  <2>2. UNCHANGED <<line, rd, gpc>>
    BY <1>3 DEF External, SupervisorExternal
  <2>3. i \in Irq /\ i # 0 /\ i \notin in_service
    BY <1>0, <1>t, IrqAssumption, SizeAssumption DEF TypeOK, OneAtATime
  <2>4. in_service = {} /\ Active = {}
    BY <1>0, <2>3 DEF OneAtATime, NothingLost
  <2>5. in_service' = {i} /\ claim_complete'[SCtx] = i /\ pending' = pending \ {i}
    BY <2>1, <2>4, <1>t, ConstantFacts DEF update_claim_complete, TypeOK
  <2>6. Active' = {}
    BY <2>2, <2>4 DEF Active
  <2>7. NothingLost'
    BY <2>3, <2>5, <2>6 DEF NothingLost, Unread
  <2>8. OneAtATime'
    BY <1>0, <2>2, <2>5 DEF OneAtATime
  <2>9. QED
    BY <2>7, <2>8
<1>4. CASE GuestTake
  BY <1>0, <1>4 DEF GuestTake, vars, NothingLost, OneAtATime, Active, Unread
<1>5. CASE GuestClaim
  <2>1. rd' = claim_complete[SCtx]
        /\ UNCHANGED <<line, pending, in_service, claim_complete>>
    BY <1>t, <1>5, DriverLoads DEF GuestClaim
  <2>2. gpc = "claim" /\ gpc' = IF rd' = 0 THEN "task" ELSE "handle"
    BY <1>5 DEF GuestClaim
  <2>3. QED
    BY <1>0, <2>1, <2>2 DEF NothingLost, OneAtATime, Active, Unread
<1>6. CASE GuestHandle
  <2>1. rd \in in_service /\ rd \notin pending
    BY <1>0, <1>6 DEF GuestHandle, NothingLost, OneAtATime, Active
  <2>2. QED
    BY <1>0, <1>6, <2>1 DEF GuestHandle, NothingLost, OneAtATime, Active, Unread, emuVars
<1>7. CASE GuestComplete
  <2>1. /\ in_service' = in_service \ {rd}
        /\ claim_complete' = [claim_complete EXCEPT ![SCtx] = 0]
        /\ UNCHANGED <<line, pending, rd>>
    BY <1>t, <1>7, DriverCompletes DEF GuestComplete
  <2>2. gpc = "complete" /\ gpc' = "claim"
    BY <1>7 DEF GuestComplete
  <2>3. in_service' = {} /\ claim_complete'[SCtx] = 0
    BY <1>0, <1>t, <2>1, <2>2, ConstantFacts DEF NothingLost, OneAtATime, Active, TypeOK
  <2>4. QED
    BY <1>0, <2>1, <2>2, <2>3 DEF NothingLost, OneAtATime, Active, Unread
<1>8. CASE GuestMask \/ GuestUnmask
  <2>1. UNCHANGED <<line, pending, in_service, claim_complete, rd>>
    BY <1>t, <1>8, DriverMasks DEF GuestMask, GuestUnmask
  <2>2. gpc \in {"task", "masked"} /\ gpc' \in {"task", "masked"}
    BY <1>8 DEF GuestMask, GuestUnmask
  <2>3. QED
    BY <1>0, <2>1, <2>2 DEF NothingLost, OneAtATime, Active, Unread
<1>9. CASE UNCHANGED driverVars
  BY <1>0, <1>9 DEF driverVars, NothingLost, OneAtATime, Active, Unread
<1>10. QED
  BY <1>0, <1>1, <1>2, <1>3, <1>4, <1>5, <1>6, <1>7, <1>8, <1>9
     DEF DriverNext, Raise, Latch

\* As long as sources do not overlap, each source claimed from the hardware
\* is in the emulated claim register or in the driver's hands, and nowhere
\* twice (plic.rs, update_claim_complete overwrites the register).
THEOREM NothingIsLost == ASSUME MaxOutstanding = 1 PROVE DriverSpec => []NothingLost
<1>1. SingleIInv /\ [DriverNext]_driverVars => SingleIInv'
  BY SingleNext
<1>2. QED
  BY SingleInit, <1>1, PTL DEF DriverSpec, SingleIInv

----------------------------------------------------------------------------
(* The refinement.                                                         *)

AbstractPc == IF gpc = "masked" THEN "task" ELSE gpc

LEMMA DirectInit == DriverInit => Direct!Init
BY ConstantFacts DEF DriverInit, Idle, Direct!Init, Active, Unread

\* Each step of the driver, the hypervisor and the hardware is a step of the
\* abstract controller, or changes nothing there.
LEMMA DirectStep ==
    ASSUME SingleIInv, [DriverNext]_driverVars
    PROVE  Direct!Next \/ UNCHANGED <<line, Unread, Active, AbstractPc>>
<1>t. TypeOK /\ IInv /\ DriverTypeOK /\ intact /\ config = DriverConfig
  BY DEF SingleIInv, DriverIInv, IInv, Tame
<1> USE DEF SingleIInv, AbstractPc
<1>1. ASSUME NEW i \in Irq, DeviceRaise(i), UNCHANGED gpc
      PROVE  Direct!Raise(i)
  BY <1>1 DEF DeviceRaise, Direct!Raise, Active, Unread, emuVars
<1>2. ASSUME NEW i \in Irq, GatewayLatch(i), UNCHANGED gpc
      PROVE  UNCHANGED <<line, Unread, Active, AbstractPc>>
  BY <1>2 DEF GatewayLatch, Active, Unread, emuVars
<1>3. ASSUME External
      PROVE  \E i \in Irq : Direct!Latch(i)
  <2>1. PICK i \in pending : update_claim_complete(SCtx, i)
    BY <1>3 DEF External, SupervisorExternal, Deliverable
  <2>2. UNCHANGED <<line, rd, gpc>>
    BY <1>3 DEF External, SupervisorExternal
  <2>3. i \in Irq /\ i # 0 /\ i \in line /\ i \notin in_service
    BY <1>t, IrqAssumption, SizeAssumption DEF TypeOK, OneAtATime
  <2>4. Active = {} /\ Unread = {}
    BY <2>3 DEF OneAtATime, NothingLost
  <2>5. claim_complete'[SCtx] = i
    BY <2>1, <1>t, ConstantFacts DEF update_claim_complete, TypeOK
  <2>6. Active' = {} /\ Unread' = {i}
    BY <2>2, <2>3, <2>4, <2>5 DEF Active, Unread
  <2>7. QED
    BY <2>2, <2>3, <2>4, <2>6 DEF Direct!Latch
<1>4. ASSUME GuestTake
      PROVE  Direct!Take
  BY <1>4, <1>t DEF GuestTake, vars, IInv, Safe, InjectedHasClaim, Direct!Take, Active, Unread
<1>5. ASSUME GuestClaim
      PROVE  Direct!ClaimNone \/ \E i \in Irq : Direct!Claim(i)
  <2>1. rd' = claim_complete[SCtx] /\ UNCHANGED <<line, claim_complete>>
    BY <1>t, <1>5, DriverLoads DEF GuestClaim
  <2>2. gpc = "claim" /\ gpc' = IF rd' = 0 THEN "task" ELSE "handle"
    BY <1>5 DEF GuestClaim
  <2>3. claim_complete[SCtx] \in Irq \cup {0}
    BY <1>t, ConstantFacts DEF TypeOK
  <2>4. CASE claim_complete[SCtx] = 0
    BY <2>1, <2>2, <2>4 DEF Direct!ClaimNone, Active, Unread
  <2>5. CASE claim_complete[SCtx] # 0
    <3>1. Direct!Claim(claim_complete[SCtx])
      BY <2>1, <2>2, <2>5 DEF Direct!Claim, Active, Unread
    <3>2. QED
      BY <2>3, <2>5, <3>1
  <2>6. QED
    BY <2>4, <2>5
<1>6. ASSUME GuestHandle
      PROVE  Direct!Handle
  BY <1>6 DEF GuestHandle, Direct!Handle, Active, Unread, emuVars
<1>7. ASSUME GuestComplete
      PROVE  Direct!Complete
  <2>1. /\ claim_complete' = [claim_complete EXCEPT ![SCtx] = 0]
        /\ UNCHANGED <<line, rd>>
    BY <1>t, <1>7, DriverCompletes DEF GuestComplete
  <2>2. gpc = "complete" /\ gpc' = "claim" /\ claim_complete'[SCtx] = 0
    BY <1>t, <1>7, <2>1, ConstantFacts DEF GuestComplete, TypeOK
  <2>3. Unread = {} /\ Active = {rd}
    BY <2>2 DEF NothingLost, OneAtATime, Active, Unread
  <2>4. QED
    BY <2>1, <2>2, <2>3 DEF Direct!Complete, Active, Unread
<1>8. ASSUME GuestMask \/ GuestUnmask
      PROVE  UNCHANGED <<line, Unread, Active, AbstractPc>>
  <2>1. UNCHANGED <<line, claim_complete, rd>>
    BY <1>t, <1>8, DriverMasks DEF GuestMask, GuestUnmask
  <2>2. QED
    BY <1>8, <2>1 DEF GuestMask, GuestUnmask, Active, Unread
<1>9. ASSUME UNCHANGED driverVars
      PROVE  UNCHANGED <<line, Unread, Active, AbstractPc>>
  BY <1>9 DEF driverVars, Active, Unread
<1>10. QED
  BY <1>1, <1>2, <1>3, <1>4, <1>5, <1>6, <1>7, <1>8, <1>9
     DEF DriverNext, Raise, Latch, Direct!Next

\* With sources that do not overlap, the guest's driver sees a controller of
\* its own: every source is handed over once, and 0 is read only when nothing
\* waits (interrupt.rs, SupervisorExternal; plic.rs).
THEOREM DriverSeesDirectPlic ==
    ASSUME MaxOutstanding = 1 PROVE DriverSpec => ImplementsDirectPlic
<1>1. SingleIInv /\ [DriverNext]_driverVars => SingleIInv'
  BY SingleNext
<1>2. SingleIInv /\ [DriverNext]_driverVars
        => [Direct!Next]_<<line, Unread, Active, AbstractPc>>
  BY DirectStep
<1>3. QED
  BY SingleInit, DirectInit, <1>1, <1>2, PTL
     DEF DriverSpec, ImplementsDirectPlic, Direct!Spec, AbstractPc
=============================================================================
