----------------------------- MODULE MCVMEngine -----------------------------
(* Up to five calls: two runs, each paused, resumed or stopped.            *)
EXTENDS VMEngine
MCExits == {"handled", "halt", "error"}
MCNoHalt == {"handled"}
=============================================================================
