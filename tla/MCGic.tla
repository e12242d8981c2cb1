-------------------------------- MODULE MCGic --------------------------------
(* Two CPUs, one SGI, one PPI, two SPIs of which one is reprogrammed.      *)
EXTENDS GicGuest
MCPriorityWrites == {<<3, 0>>, <<3, 2>>}
MCRouteWrites == {<<3, 1>>}
MCWritten == {1, 3}
=============================================================================
