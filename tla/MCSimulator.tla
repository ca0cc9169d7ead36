---------------------------- MODULE MCSimulator -----------------------------
(* Instance of Simulator: FaultConfig names every kind of fault unless it  *)
(* is told which; the bounds are numbers, given in the cfg.                *)
EXTENDS Simulator

MCFaultKinds ==
    {"dropConnection", "goSilent", "delayReply", "splitFrame", "coalesceFrames",
     "rejectCommand", "refuseConnections"}
=============================================================================
