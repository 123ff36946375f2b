---------------------------- MODULE MCPlicDriver ----------------------------
(* PlicDriver with six sources; the offsets are the driver's own.        *)
EXTENDS PlicDriver

MCIrq == 1..6
NoOffsets == {}
NoValues == {}
NoConfigs == {}
=============================================================================
