------------------------------ MODULE GicGuest ------------------------------
(***************************************************************************)
(* The GICv3 of core/irq/gic.c under two kinds of guest.  One makes any    *)
(* call in any order.  The other, a kernel, programs it by the rules of    *)
(* the architecture: affinity routing is switched on before any SPI is     *)
(* enabled, an SPI is rerouted only while it is disabled and idle, and a   *)
(* CPU acknowledges when it has been signalled and ends what it took.      *)
(***************************************************************************)
EXTENDS Gic

CONSTANTS
  None,
  MaxRaise   (* bound: raises by all devices                               *)

VARIABLES
  kernel,     (* whether the guest keeps the rules; the same for ever      *)
  in_service, (* what each CPU of a kernel is handling                     *)
  raises      (* raises by the devices of a kernel so far                  *)

kernelVars == <<kernel, in_service, raises>>
guestVars  == <<gicVars, kernelVars>>

GuestInit ==
  /\ GicInit
  /\ kernel \in BOOLEAN
  /\ in_service = [c \in Cpu |-> None]
  /\ raises = 0

GuestRaise(i) ==
  /\ kernel
  /\ raises < MaxRaise
  /\ RaiseSpi(i)
  /\ raises' = raises + 1
  /\ UNCHANGED <<kernel, in_service>>

GuestLower(i) == kernel /\ LowerSpi(i) /\ UNCHANGED kernelVars

GuestSetup ==
  /\ kernel
  /\ \/ ~are_ns /\ CtlrWrite(TRUE)
     \/ are_ns /\ \E i \in Spi, b \in BOOLEAN : EnableWrite(i, b)
     \/ \E w \in PriorityWrites : PriorityWrite(w[1], w[2])
     \/ \E w \in RouteWrites : /\ irq[w[1]].state = "INACTIVE"
                               /\ ~irq[w[1]].enabled
                               /\ RouteWrite(w[1], w[2])
  /\ UNCHANGED kernelVars

Take(c) ==
  /\ kernel
  /\ in_service[c] = None
  /\ signal[c] # {}
  /\ Acknowledge(c)
  /\ in_service' = [in_service EXCEPT ![c] = Selected(c)]
  /\ UNCHANGED <<kernel, raises>>

Finish(c) ==
  /\ kernel
  /\ in_service[c] # None
  /\ Eoi(in_service[c])
  /\ in_service' = [in_service EXCEPT ![c] = None]
  /\ UNCHANGED <<kernel, raises>>

AnyCall == ~kernel /\ GicNext /\ UNCHANGED kernelVars

GuestNext ==
  \/ AnyCall
  \/ \E i \in Spi : GuestRaise(i) \/ GuestLower(i)
  \/ GuestSetup
  \/ \E c \in Cpu : Take(c) \/ Finish(c)

GuestSpec ==
  /\ GuestInit /\ [][GuestNext]_guestVars
  /\ \A c \in Cpu : WF_guestVars(Take(c)) /\ WF_guestVars(Finish(c))

-----------------------------------------------------------------------------
(* No lost wake-up: an SPI that a CPU could take has been announced to     *)
(* that CPU, although it is raised, lowered, disabled, enabled, rerouted   *)
(* and raised again while it is in service.                                *)
EligibleAnnounced ==
  kernel => \A c \in Cpu : \A i \in Eligible(c) : i \in signal[c]

(* Every SPI a CPU could take is taken, unless it is lowered or disabled.  *)
EventuallyTaken ==
  \A c \in Cpu, i \in Spi : (kernel /\ i \in Eligible(c)) ~> i \notin Eligible(c)

=============================================================================
