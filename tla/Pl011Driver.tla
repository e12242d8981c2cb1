---------------------------- MODULE Pl011Driver ----------------------------
(***************************************************************************)
(* PL011, GIC and the guest's serial driver: it routes and enables the     *)
(* interrupt, reads the bytes that came before, and then sleeps until the  *)
(* interrupt, drains the receiver, clears the transmit interrupt and ends  *)
(* the interrupt.  The driver is an external component; what it relies on  *)
(* of the code is what the properties state.                               *)
(***************************************************************************)
EXTENDS Pl011

CONSTANTS
  MaxPut       (* bound: bytes the host injects                            *)

VARIABLES
  driver,   (* where the driver is                                         *)
  puts      (* bytes injected so far                                       *)

driverVars == <<uartVars, gicVars, driver, puts>>

DriverInit == Pl011Init /\ GicInit /\ driver = "off" /\ puts = 0

Inject ==
  /\ puts < MaxPut
  /\ RxPut
  /\ puts' = puts + 1
  /\ UNCHANGED driver

Boot ==
  /\ pc["vcpu"] = "idle"
  /\ \/ driver = "off" /\ CtlrWrite(TRUE) /\ driver' = "routed"
     \/ /\ driver = "routed" /\ EnableWrite(UartIrq, TRUE)
        /\ driver' = "boot drain"
  /\ UNCHANGED <<uartVars, puts>>

Interrupted ==
  /\ pc["vcpu"] = "idle" /\ driver = "wait"
  /\ signal[0] # {} /\ Acknowledge(0)
  /\ driver' = "drain"
  /\ UNCHANGED <<uartVars, puts>>

Drain ==
  \/ /\ driver \in {"boot drain", "drain"} /\ DrRead
     /\ UNCHANGED <<driver, puts>>
  \/ /\ driver = "drain" /\ rx_count = 0 /\ "TX" \in ris
     /\ IcrWrite({"TX"})
     /\ UNCHANGED <<driver, puts>>
  \/ /\ driver = "boot drain" /\ pc["vcpu"] = "idle" /\ rx_count = 0
     /\ driver' = "wait"
     /\ UNCHANGED <<uartVars, gicVars, puts>>

Finish ==
  /\ driver = "drain" /\ pc["vcpu"] = "idle" /\ rx_count = 0 /\ "TX" \notin ris
  /\ Eoi(UartIrq)
  /\ driver' = "wait"
  /\ UNCHANGED <<uartVars, puts>>

(* Between interrupts the guest prints, and masks or unmasks transmit      *)
(* interrupts.                                                             *)
SendChar ==
  /\ driver = "wait"
  /\ DrWrite \/ \E S \in SUBSET {"TX"} : ImscWrite(S)
  /\ UNCHANGED <<driver, puts>>

HostCall == HostStep /\ UNCHANGED <<driver, puts>>
VcpuCall == VcpuStep /\ UNCHANGED <<driver, puts>>

DriverNext ==
  Inject \/ HostCall \/ VcpuCall \/ Boot \/ Interrupted \/ Drain \/ Finish \/ SendChar

(* Both threads keep running; an interrupt that stays there is taken       *)
(* although the guest may print in between, for it preempts the guest.     *)
DriverSpec ==
  /\ DriverInit /\ [][DriverNext]_driverVars
  /\ WF_driverVars(HostCall) /\ WF_driverVars(VcpuCall)
  /\ WF_driverVars(Boot) /\ SF_driverVars(Interrupted)
  /\ WF_driverVars(Drain) /\ WF_driverVars(Finish)

-----------------------------------------------------------------------------
(* As long as calls have not overlapped: while the guest sleeps and no     *)
(* call is under way, an unmasked interrupt of the UART is there for CPU 0 *)
(* to take (pl011_update_irq, gic_raise_spi), so no byte is stranded in    *)
(* the ring of a sleeping guest.                                           *)
AssertedIsDelivered ==
  serial /\ Quiet /\ driver = "wait" /\ ris \ imsc # {}
    => UartIrq \in Eligible(0) /\ UartIrq \in signal[0]

(* As long as calls have not overlapped, a byte in the ring keeps the      *)
(* receive interrupt up until it is read (DR, ICR).                        *)
ByteInterrupts == serial /\ Quiet /\ rx_count > 0 => "RX" \in ris

(* The ring is emptied again and again, unless calls overlap.              *)
BytesAreRead == rx_count > 0 ~> rx_count = 0 \/ ~serial

=============================================================================
