------------------------------- MODULE MCPlic -------------------------------
(* Plic with an arbitrary guest, scaled down: contexts of 16 bytes from    *)
(* offset 32, one hart (two contexts).                                     *)
EXTENDS Plic, TLC

MCIrq == {1, 2}
\* Below the PLIC; threshold, claim, reserved and undefined register of the M
\* and the S context; threshold and claim register of the first context past
\* the array and the claim register of the one after it; past CONTEXT_END.
MCOffsets == {-4, 32, 36, 48, 52, 56, 60, 64, 68, 84, 1040}
\* 0, both sources, and a register value that does not fit a u32.
MCValues == {0, 1, 2, 4}
\* Both sources for the S context; source 1 for the M context too, and of
\* higher priority; source 2 for the M context alone.
MCConfigs == {
    [enabled |-> (0 :> {} @@ 1 :> {1, 2}), priority |-> <<1, 1>>],
    [enabled |-> (0 :> {1} @@ 1 :> {1, 2}), priority |-> <<2, 1>>],
    [enabled |-> (0 :> {2} @@ 1 :> {1}), priority |-> <<1, 1>>]}
=============================================================================
