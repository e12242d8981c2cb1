------------------------------ MODULE MCPl011 ------------------------------
(* One CPU and one SPI, a ring of two bytes that wraps.                    *)
EXTENDS Pl011Driver
=============================================================================
