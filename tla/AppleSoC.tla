------------------------------ MODULE AppleSoC ------------------------------
(***************************************************************************)
(* The interrupt controller of the Apple machine with what                 *)
(* machine_apple.c wires to it.  A behaviour has one workload:             *)
(*   "signalled" a guest with drivers for the UART and the enclave that    *)
(*               reads IACK when the callback has announced something;     *)
(*   "polling"   the same guest on the machine as it is built, whose       *)
(*               callback does nothing: it reads IACK by itself;           *)
(*   "watchdog" and "timer" the two clocks, which raise no interrupt;      *)
(*   "any"       any caller of the controller, in any order.               *)
(* The guest ends what it acknowledged before it acknowledges again.       *)
(***************************************************************************)
EXTENDS AppleUart, AppleSep, AppleClocks

CONSTANTS
  Workloads,                      (* those of the model                 *)
  Requests,                       (* the requests the guest makes       *)
  MaxIpis, MaxBytes, MaxRequests, (* bounds on what a behaviour sends   *)
  MaxSettings                     (* and on its writes to UINTM and UCON *)

ASSUME SoCConstants ==
  /\ UartIrq \in OwnedSpi /\ SepIrq \in OwnedSpi /\ UartIrq # SepIrq
  /\ MaxIpis \in Nat /\ MaxBytes \in Nat /\ MaxRequests \in Nat
  /\ MaxSettings \in Nat /\ Requests \subseteq SepRequest

VARIABLES
  workload,   (* which of the five                                         *)
  drains,     (* the UART's handler reads until UTRSTAT shows no byte, or  *)
              (* one byte per interrupt                                    *)
  served,     (* the UART's handler has read                               *)
  asked,      (* the request the guest waits for the enclave to answer     *)
  left        (* IPIs, bytes, requests and settings still to come          *)

guest == <<drains, served, asked>>
socVars == <<vars, uart, sep, clockVars, workload, guest, left>>

Driven == workload \in {"signalled", "polling"}

SoCInit ==
  /\ Init /\ UartInit /\ SepInit /\ ClocksInit
  /\ workload \in Workloads
  /\ drains \in BOOLEAN
  /\ ~Driven => drains
  /\ served = FALSE
  /\ asked = None
  /\ left = [ipis |-> MaxIpis, bytes |-> MaxBytes, requests |-> MaxRequests,
             settings |-> MaxSettings]

-----------------------------------------------------------------------------
Sent(what) == left[what] > 0 /\ left' = [left EXCEPT ![what] = @ - 1]

Ipis(c) ==
  /\ Sent("ipis") /\ \E n \in Ipi : SendIpi(c, n)
  /\ UNCHANGED <<uart, sep, guest>>

Console ==
  /\ Sent("bytes") /\ \E b \in Byte : RxPut(b)
  /\ UNCHANGED <<sep, guest>>

(* The guest sends one request at a time.                                  *)
Request ==
  /\ asked = None
  /\ Sent("requests")
  /\ \E m \in Requests : asked' = m /\ SendToSep(m)
  /\ UNCHANGED <<uart, drains, served>>

Mask ==
  /\ \E S \in MaskWrites : MaskSet(S) \/ MaskClr(S)
  /\ UNCHANGED <<uart, sep, guest, left>>

Setting ==
  /\ Sent("settings")
  /\ \/ \E S \in {{}, IntLine} : MaskLines(S)
     \/ \E b \in BOOLEAN : EnableTxIrq(b)
  /\ UNCHANGED <<sep, guest>>

Take(c) ==
  /\ Driven
  /\ workload = "signalled" => signal[c] # {}
  /\ active_irq[c] = None
  /\ Acknowledge(c)
  /\ UNCHANGED <<uart, sep, clockVars, workload, guest, left>>

(* The handlers, on CPU 0: the UART's reads URXH while UTRSTAT shows a     *)
(* byte and may clear UINTP; the enclave's reads MSG_OUT when STATUS shows *)
(* an answer.                                                              *)
MayRead == uart.rx_fifo # <<>> /\ (drains \/ ~served)

UartHandler ==
  /\ Driven /\ active_irq[0] = UartIrq /\ MayRead
  /\ ReadRx
  /\ served' = TRUE
  /\ UNCHANGED <<sep, clockVars, workload, drains, asked, left>>

UartClear ==
  /\ active_irq[0] = UartIrq /\ drains /\ "RX" \in uart.uintp
  /\ ClearLines({"RX"})
  /\ UNCHANGED <<sep, guest, left>>

SepHandler ==
  /\ Driven /\ active_irq[0] = SepIrq /\ sep.ready /\ asked # None
  /\ ReadMsgOut
  /\ asked' = None
  /\ UNCHANGED <<uart, clockVars, workload, drains, served, left>>

Handled(i) == CASE i = UartIrq -> ~MayRead
                [] i = SepIrq  -> ~(sep.ready /\ asked # None)
                [] OTHER       -> TRUE

Finish(c) ==
  /\ Driven /\ active_irq[c] # None
  /\ c = 0 => Handled(active_irq[0])
  /\ Eoi(c, active_irq[c])
  /\ served' = FALSE
  /\ UNCHANGED <<uart, sep, clockVars, workload, drains, asked, left>>

Drivers ==
  /\ Driven
  /\ \/ \E c \in Cpu : Ipis(c)
     \/ Console \/ Request \/ Mask \/ Setting \/ UartClear
  /\ UNCHANGED <<clockVars, workload>>

Clocks ==
  /\ \/ workload = "watchdog" /\ (Pass \/ WdtNext)
     \/ workload = "timer" /\ (Pass \/ TimerNext)
  /\ UNCHANGED <<vars, uart, sep, workload, guest, left>>

Anyone ==
  /\ workload = "any" /\ Next
  /\ UNCHANGED <<uart, sep, clockVars, workload, guest, left>>

(* What a CPU does next: it takes an interrupt, or goes on in a handler.   *)
Handling(c) ==
  \/ Take(c) \/ Finish(c)
  \/ c = 0 /\ (UartHandler \/ SepHandler)

SoCNext == Anyone \/ Drivers \/ Clocks \/ \E c \in Cpu : Handling(c)

(* A CPU keeps executing: it reads IACK, and a handler runs to its end.    *)
SoCSpec ==
  SoCInit /\ [][SoCNext]_socVars /\ \A c \in Cpu : WF_socVars(Handling(c))

-----------------------------------------------------------------------------
(* Under that discipline no device interrupt is stranded in service: it is *)
(* active exactly while a CPU has still to end it.                         *)
ActiveIsHeld ==
  Driven => \A i \in OwnedSpi :
    (irq[i].state \in {"ACTIVE", "ACTIVE_PENDING"}) <=> (\E c \in Cpu : active_irq[c] = i)

(* Every device interrupt is eventually taken, also the one raised again   *)
(* while it is in service, and every IPI reaches the CPU it was sent to.   *)
EventuallyTaken ==
  /\ \A i \in OwnedSpi :
       (Driven /\ Asserted(irq[i])) ~> ~Asserted(irq[i])
  /\ \A c \in Cpu, n \in Ipi :
       (Driven /\ n \in cpu[c].ipi_pending) ~> (n \notin cpu[c].ipi_pending)

(* Every byte the UART accepts is read and every request is answered,      *)
(* whether the handler drains the FIFO or reads one byte per interrupt,    *)
(* and whenever it clears UINTP, unless it masks the line in the UART.     *)
DevicesServed ==
  /\ (uart.rx_fifo # <<>>) ~> (uart.rx_fifo = <<>> \/ "RX" \in uart.uintm)
  /\ (asked # None) ~> (asked = None)

=============================================================================
