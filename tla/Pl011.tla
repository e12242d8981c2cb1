------------------------------- MODULE Pl011 -------------------------------
(***************************************************************************)
(* The PL011 UART, devices/uart/pl011.c, wired to the GIC of Gic.tla.      *)
(*                                                                         *)
(* pl011_rx_put is called by the user interface's thread (VMEngine.m 307,  *)
(* sendKey) and the register accesses by the thread that runs the vCPU,    *)
(* with no lock between them.  Each call is therefore a sequence of steps, *)
(* one per access to a shared field: an increment, a decrement, a `|=` and *)
(* a `&=` are a load and a store, and a count loaded before may be used    *)
(* again or loaded anew, as the build decides.  serial says that so far no *)
(* call began while the other thread was in one, as when one thread makes  *)
(* them all.                                                               *)
(***************************************************************************)
EXTENDS Gic, Sequences

CONSTANTS
  UartIrq,   (* uart->irq_num                                              *)
  Depth,     (* the 256 entries of rx_fifo                                 *)
  Byte       (* the bytes the host may inject                              *)

ASSUME Pl011Constants ==
  /\ UartIrq \in Spi
  /\ Depth \in Nat \ {0}
  /\ Byte # {}

Thread == {"host", "vcpu"}
Interrupt == {"RX", "TX"}
Slot == 0 .. (Depth - 1)

VARIABLES
  rx_fifo, rx_head, rx_count,  (* the receive ring                         *)
  ris, imsc,                   (* raw status and mask, as sets of bits     *)
  pc,      (* per thread, the next step of its call; "idle" outside one    *)
  tmp,     (* per thread, the count it loaded                              *)
  edit,    (* per thread, the bits its call sets and clears in ris, and    *)
           (* the value of ris, later of the masked status, it loaded      *)
  pending, (* ghost: the bytes accepted and not yet read, oldest first     *)
  serial   (* ghost: no two calls have overlapped                          *)

ring == <<rx_fifo, rx_head, rx_count, pending>>
uartVars == <<ring, ris, imsc, pc, tmp, edit, serial>>

NoEdit == [set |-> {}, clear |-> {}, seen |-> {}]

Pl011Init ==
  /\ rx_fifo \in [Slot -> {CHOOSE b \in Byte : TRUE}]
  /\ rx_head = 0 /\ rx_count = 0
  /\ ris = {} /\ imsc = {}
  /\ pc = [t \in Thread |-> "idle"]
  /\ tmp = [t \in Thread |-> 0]
  /\ edit = [t \in Thread |-> NoEdit]
  /\ pending = <<>> /\ serial = TRUE

(* A thread starts a call.                                                 *)
Quiet == \A t \in Thread : pc[t] = "idle"
Enter(t) == pc[t] = "idle" /\ serial' = (serial /\ Quiet)

Goto(t, label) == pc' = [pc EXCEPT ![t] = label]

(* Go on to `uart->ris |= set` or `uart->ris &= ~clear`.                   *)
EditRis(t, set, clear) ==
  /\ Goto(t, "ris load")
  /\ edit' = [edit EXCEPT ![t] = [set |-> set, clear |-> clear, seen |-> {}]]

-----------------------------------------------------------------------------
(* The values of rx_count a call may go on with: the build keeps the one   *)
(* it has in a register or loads it again.                                 *)
Loads(t) == {tmp[t], rx_count}

(* pl011_rx_put(byte): dropped when the ring is full.                      *)
RxFullLate == rx_count > Depth
RxFull == rx_count >= Depth

RxPut ==
  /\ Enter("host")
  /\ ~RxFull
  /\ tmp' = [tmp EXCEPT !["host"] = rx_count]
  /\ Goto("host", "rx write")
  /\ UNCHANGED <<ring, ris, imsc, edit, gicVars>>

RxSlotNoHead(n) == n % Depth
RxSlot(n) == (rx_head + n) % Depth

RxWrite(b) ==
  /\ pc["host"] = "rx write"
  /\ \E n \in Loads("host") : rx_fifo' = [rx_fifo EXCEPT ![RxSlot(n)] = b]
  /\ pending' = Append(pending, b)
  /\ Goto("host", "rx load")
  /\ UNCHANGED <<rx_head, rx_count, ris, imsc, tmp, edit, serial, gicVars>>

(* The load of a thread's increment or decrement.                          *)
CountLoad(t, at, next) ==
  /\ pc[t] = at
  /\ \E n \in Loads(t) : tmp' = [tmp EXCEPT ![t] = n]
  /\ Goto(t, next)
  /\ UNCHANGED <<ring, ris, imsc, edit, serial, gicVars>>

RxLoad == CountLoad("host", "rx load", "rx count")

RxCountSilent ==
  /\ pc["host"] = "rx count"
  /\ rx_count' = tmp["host"] + 1
  /\ ris' = ris \cup {"RX"}
  /\ Goto("host", "idle")
  /\ UNCHANGED <<rx_fifo, rx_head, pending, imsc, tmp, edit, serial, gicVars>>
RxCount ==
  /\ pc["host"] = "rx count"
  /\ rx_count' = tmp["host"] + 1
  /\ EditRis("host", {"RX"}, {})
  /\ UNCHANGED <<rx_fifo, rx_head, pending, ris, imsc, tmp, serial, gicVars>>

(* A read of DR: pop the oldest byte, and withdraw the interrupt with the  *)
(* last one.                                                               *)
DrRead ==
  /\ Enter("vcpu")
  /\ rx_count > 0
  /\ rx_head' = (rx_head + 1) % Depth
  /\ tmp' = [tmp EXCEPT !["vcpu"] = rx_count]
  /\ pending' = IF pending # <<>> THEN Tail(pending) ELSE pending
  /\ Goto("vcpu", "dr load")
  /\ UNCHANGED <<rx_fifo, rx_count, ris, imsc, edit, gicVars>>

DrLoad == CountLoad("vcpu", "dr load", "dr count")

DrCount ==
  /\ pc["vcpu"] = "dr count"
  /\ rx_count' = tmp["vcpu"] - 1
  /\ tmp' = [tmp EXCEPT !["vcpu"] = @ - 1]
  /\ Goto("vcpu", "dr empty")
  /\ UNCHANGED <<rx_fifo, rx_head, pending, ris, imsc, edit, serial, gicVars>>

LastByteReadAlways(n) == TRUE
LastByteRead(n) == n = 0

DrEmpty ==
  /\ pc["vcpu"] = "dr empty"
  /\ \E n \in Loads("vcpu") :
     \/ LastByteRead(n) /\ EditRis("vcpu", {}, {"RX"})
     \/ /\ ~LastByteRead(n)
        /\ Goto("vcpu", "mis")
        /\ UNCHANGED edit
  /\ UNCHANGED <<ring, ris, imsc, tmp, serial, gicVars>>

(* Writes to DR (the byte goes to tx_callback), ICR and IMSC.              *)
DrWrite ==
  /\ Enter("vcpu")
  /\ EditRis("vcpu", {"TX"}, {})
  /\ UNCHANGED <<ring, ris, imsc, tmp, gicVars>>

IcrWrite(S) ==
  /\ Enter("vcpu")
  /\ EditRis("vcpu", {}, S)
  /\ UNCHANGED <<ring, ris, imsc, tmp, gicVars>>

ImscWriteSilent(S) ==
  /\ Enter("vcpu")
  /\ imsc' = S
  /\ UNCHANGED <<ring, ris, pc, tmp, edit, gicVars>>
ImscWrite(S) ==
  /\ Enter("vcpu")
  /\ imsc' = S
  /\ Goto("vcpu", "mis")
  /\ UNCHANGED <<ring, ris, tmp, edit, gicVars>>

-----------------------------------------------------------------------------
(* The tail of every call: change ris, then pl011_update_irq.              *)
RisLoad(t) ==
  /\ pc[t] = "ris load"
  /\ edit' = [edit EXCEPT ![t].seen = ris]
  /\ Goto(t, "ris store")
  /\ UNCHANGED <<ring, ris, imsc, tmp, serial, gicVars>>

RisStore(t) ==
  /\ pc[t] = "ris store"
  /\ ris' = (edit[t].seen \cup edit[t].set) \ edit[t].clear
  /\ Goto(t, "mis")
  /\ UNCHANGED <<ring, imsc, tmp, edit, serial, gicVars>>

MisLoad(t) ==
  /\ pc[t] = "mis"
  /\ edit' = [edit EXCEPT ![t] = [NoEdit EXCEPT !.seen = ris \ imsc]]
  /\ Goto(t, "irq")
  /\ UNCHANGED <<ring, ris, imsc, tmp, serial, gicVars>>

UpdateIrq(t) ==
  /\ pc[t] = "irq"
  /\ IF edit[t].seen # {} THEN RaiseSpi(UartIrq) ELSE LowerSpi(UartIrq)
  /\ edit' = [edit EXCEPT ![t] = NoEdit]
  /\ tmp' = [tmp EXCEPT ![t] = 0]
  /\ Goto(t, "idle")
  /\ UNCHANGED <<ring, ris, imsc, serial>>

UpdateStep(t) == RisLoad(t) \/ RisStore(t) \/ MisLoad(t) \/ UpdateIrq(t)

HostStep == (\E b \in Byte : RxWrite(b)) \/ RxLoad \/ RxCount \/ UpdateStep("host")
VcpuStep == DrLoad \/ DrCount \/ DrEmpty \/ UpdateStep("vcpu")

-----------------------------------------------------------------------------
(* Every variable has its C type, and the indices stay inside the ring     *)
(* although the two threads race for the count.                            *)
Pl011TypeOK ==
  /\ rx_fifo \in [Slot -> Byte] /\ rx_head \in Slot /\ rx_count \in 0 .. Depth
  /\ ris \subseteq Interrupt /\ imsc \subseteq Interrupt
  /\ pc \in [Thread -> {"idle", "rx write", "rx load", "rx count",
                        "dr load", "dr count", "dr empty",
                        "ris load", "ris store", "mis", "irq"}]
  /\ tmp \in [Thread -> 0 .. Depth]
  /\ edit \in [Thread -> [set : SUBSET Interrupt, clear : SUBSET Interrupt,
                          seen : SUBSET Interrupt]]
  /\ pending \in Seq(Byte)

(* While calls do not overlap, the ring holds between them the accepted    *)
(* bytes the guest has not read, in the order they were injected:          *)
(* pl011_rx_put followed by a read of DR yields the byte, as               *)
(* tests/unit/test_uart.c expects.                                         *)
RingContent == [k \in 1 .. rx_count |-> rx_fifo[(rx_head + k - 1) % Depth]]

FifoIntact == serial /\ Quiet => RingContent = pending

=============================================================================
