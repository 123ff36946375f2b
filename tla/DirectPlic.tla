----------------------------- MODULE DirectPlic -----------------------------
(***************************************************************************)
(* What a guest may expect of its interrupt controller, with no hypervisor *)
(* in sight: a source that is asserted becomes pending, the guest's driver *)
(* takes the interrupt, claims each pending source exactly once, services  *)
(* it and completes it.  PlicDriver is shown to implement this.            *)
(***************************************************************************)
CONSTANT Irq

VARIABLES line, pending, active, gpc

Init == line = {} /\ pending = {} /\ active = {} /\ gpc = "task"

Raise(i) ==
    /\ i \notin line
    /\ line' = line \cup {i}
    /\ UNCHANGED <<pending, active, gpc>>

Latch(i) ==
    /\ i \in line
    /\ i \notin pending \cup active
    /\ pending' = pending \cup {i}
    /\ UNCHANGED <<line, active, gpc>>

\* The interrupt is taken only when a source is waiting: no spurious entry.
Take ==
    /\ gpc = "task" /\ pending # {}
    /\ gpc' = "claim"
    /\ UNCHANGED <<line, pending, active>>

\* A claim hands over one pending source, and removes it from the queue.
Claim(i) ==
    /\ gpc = "claim" /\ i \in pending
    /\ pending' = pending \ {i}
    /\ active' = active \cup {i}
    /\ gpc' = "handle"
    /\ UNCHANGED line

\* A claim of 0 ends the driver's loop, and means that nothing is waiting.
ClaimNone ==
    /\ gpc = "claim" /\ pending = {}
    /\ gpc' = "task"
    /\ UNCHANGED <<line, pending, active>>

Handle ==
    /\ gpc = "handle"
    /\ line' = line \ active
    /\ gpc' = "complete"
    /\ UNCHANGED <<pending, active>>

Complete ==
    /\ gpc = "complete"
    /\ active' = {}
    /\ gpc' = "claim"
    /\ UNCHANGED <<line, pending>>

Next ==
    \/ \E i \in Irq : Raise(i) \/ Latch(i) \/ Claim(i)
    \/ Take \/ ClaimNone \/ Handle \/ Complete

Spec == Init /\ [][Next]_<<line, pending, active, gpc>>
=============================================================================
