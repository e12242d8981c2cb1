----------------------------- MODULE MCAppleSoC -----------------------------
(* Constants for model checking AppleSoC: two CPUs, interrupt 0 shared     *)
(* with the one IPI, interrupt 1 of the UART and 2 of the enclave.  A      *)
(* register group has the three interrupts there are, the watchdog counts  *)
(* in base 3 and the clock runs long enough for a tick to come too late.   *)
EXTENDS AppleSoC

MCCtrlValues == {[enabled |-> TRUE, mask_all |-> FALSE]}
MCIpiMasks == {{}, {0}}
MCMaskWrites == {{1}}
=============================================================================
