----------------------------- MODULE PlicDriver -----------------------------
(***************************************************************************)
(* The emulated PLIC with a guest that drives it the way a PLIC driver     *)
(* does (external; guest_image/README.md boots Linux): on an external      *)
(* interrupt it loads the claim register, services the source, stores the  *)
(* completion, and loads again until it reads 0.  Between interrupts it may *)
(* mask and unmask its context with the threshold register.  Each load and *)
(* store is one of the page-fault handlers of module Plic.                 *)
(***************************************************************************)
EXTENDS Plic

VARIABLE gpc    \* where the guest's driver is

driverVars == <<line, pending, in_service, threshold, config,
                claim_complete, vseip, rd, hart, foreign, intact, gpc>>

DriverTypeOK == TypeOK /\ gpc \in {"task", "masked", "claim", "handle", "complete"}

\* The driver has enabled every source for the supervisor context of its
\* hart and for no other, all with the same priority.
DriverConfig ==
    [enabled  |-> [c \in Contexts |-> IF c = SCtx THEN Irq ELSE {}],
     priority |-> [i \in Irq |-> 1]]

DriverInit == Idle /\ config = DriverConfig /\ gpc = "task"

\* The guest's external interrupt is enabled: it enters its handler.
GuestTake ==
    /\ hart = "guest" /\ gpc = "task" /\ vseip
    /\ gpc' = "claim"
    /\ UNCHANGED vars

GuestClaim ==
    /\ gpc = "claim"
    /\ load_guest_page_fault(ClaimOffset(SCtx))
    /\ gpc' = IF rd' = 0 THEN "task" ELSE "handle"

\* The device's condition is serviced and its wire drops.
GuestHandle ==
    /\ hart = "guest" /\ gpc = "handle"
    /\ line' = line \ {rd}
    /\ gpc' = "complete"
    /\ UNCHANGED <<pending, in_service, threshold, config, emuVars, history>>

GuestComplete ==
    /\ gpc = "complete"
    /\ store_guest_page_fault(ClaimOffset(SCtx), rd)
    /\ gpc' = "claim"

\* The guest holds all external interrupts off for a while (threshold = 1,
\* the priority of every source), and lets them through again.
GuestMask ==
    /\ gpc = "task"
    /\ store_guest_page_fault(ThresholdOffset(SCtx), 1)
    /\ gpc' = "masked"

GuestUnmask ==
    /\ gpc = "masked"
    /\ store_guest_page_fault(ThresholdOffset(SCtx), 0)
    /\ gpc' = "task"

Raise == \E i \in Irq : DeviceRaise(i) /\ UNCHANGED gpc
Latch == \E i \in Irq : GatewayLatch(i) /\ UNCHANGED gpc
External == SupervisorExternal /\ UNCHANGED gpc

DriverNext ==
    \/ Raise \/ Latch \/ External
    \/ GuestTake \/ GuestClaim \/ GuestHandle \/ GuestComplete
    \/ GuestMask \/ GuestUnmask

\* The gateway and the guest's driver keep going, and the hart takes an
\* interrupt that is enabled again and again (it looks for one before every
\* instruction, so masking now and then cannot put it off forever).  Devices
\* are under no obligation to raise anything, nor the guest to mask.
DriverFairness ==
    /\ WF_driverVars(Latch)
    /\ SF_driverVars(External)
    /\ SF_driverVars(GuestTake)
    /\ WF_driverVars(GuestClaim)
    /\ WF_driverVars(GuestHandle)
    /\ WF_driverVars(GuestComplete)
    /\ WF_driverVars(GuestUnmask)

DriverSpec == DriverInit /\ [][DriverNext]_driverVars /\ DriverFairness

----------------------------------------------------------------------------

\* The source the driver is between claim and completion of.
Active == IF gpc \in {"handle", "complete"} THEN {rd} ELSE {}

\* A source claimed for the guest that its driver has not read yet.
Unread == {claim_complete[SCtx]} \ (Active \cup {0})

\* With sources that do not overlap, everything claimed from the hardware is
\* either waiting in the emulated claim register or in the driver's hands,
\* and never in both: the two copies of the claim (plic.rs:51 and the
\* guest's register) cannot drift apart.
NothingLost == in_service = Active \cup Unread

\* The guest's hypervisor never stops on what its driver does.
DriverNeverStops == hart = "guest"

\* Every asserted source is serviced by the guest: through the gateway, the
\* HS trap, the injected interrupt, the emulated claim and the completion.
EverySourceServed == \A i \in Irq : i \in line ~> i \notin line

\* Refinement: the guest sees a controller of its own.  A source is pending
\* there from the moment the hypervisor has claimed it, until the driver's
\* load returns it.
Direct == INSTANCE DirectPlic
    WITH pending <- Unread, active <- Active,
         gpc <- IF gpc = "masked" THEN "task" ELSE gpc
ImplementsDirectPlic == Direct!Spec
=============================================================================
