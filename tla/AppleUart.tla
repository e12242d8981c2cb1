----------------------------- MODULE AppleUart -----------------------------
(***************************************************************************)
(* The S5L UART, devices/apple-uart/apple_uart.c, wired to the AIC by      *)
(* machine_apple.c.  A transmitted byte leaves the transmit FIFO within    *)
(* the same register write and that write does not touch the interrupt, so *)
(* the transmit FIFO is always empty; line, FIFO, modem and baud registers *)
(* are stored and consulted by nothing.                                    *)
(***************************************************************************)
EXTENDS AppleAIC, Sequences

CONSTANTS
  UartIrq,     (* uart->irq_num, SV_IRQ_APPLE_UART0                        *)
  RxFifoSize,  (* APPLE_UART_RX_FIFO_SIZE                                  *)
  Byte         (* the bytes the host sends                                 *)

IntLine == {"TX", "RX", "ERROR", "TIMEOUT"}  (* S5L_INT_* *)

VARIABLE uart  (* uintp, uintm, UCON's TX_IRQ_EN and the receive FIFO      *)

UartInit == uart = [uintp |-> {}, uintm |-> IntLine, tx_irq_en |-> FALSE,
                    rx_fifo |-> <<>>]

(* apple_uart_update_irq on the state the caller has just written: the     *)
(* transmit FIFO is empty, so its line follows the enable bit alone.       *)
PendingLines(u) ==
  (u.uintp \ u.uintm) \cup (IF u.tx_irq_en THEN {"TX"} ELSE {})

UpdateIrq ==
  IF PendingLines(uart') # {} THEN RaiseIrq(UartIrq) ELSE LowerIrq(UartIrq)

RxFull == Len(uart.rx_fifo) >= RxFifoSize

(* A byte for the console: dropped without an interrupt when there is no   *)
(* room.                                                                   *)
RxPut(b) ==
  \/ RxFull /\ UNCHANGED <<uart, vars>>
  \/ /\ ~RxFull
     /\ uart' = [uart EXCEPT !.rx_fifo = Append(@, b),
                             !.uintp = @ \cup {"RX"}]
     /\ UpdateIrq

(* The guest reads URXH with a byte in the FIFO; with none, zero is        *)
(* returned and nothing changes.                                           *)
PopRxKeepsLine(u) == [u EXCEPT !.rx_fifo = Tail(@), !.uintp = @ \ {"RX"}]
PopRx(u) ==
  [u EXCEPT !.rx_fifo = Tail(@),
            !.uintp = IF Len(u.rx_fifo) = 1 THEN @ \ {"RX"} ELSE @]

ReadRx ==
  /\ uart.rx_fifo # <<>>
  /\ uart' = PopRx(uart)
  /\ UpdateIrq

(* A write to UINTP clears lines and leaves the interrupt as it is.        *)
ClearLines(S) ==
  /\ uart' = [uart EXCEPT !.uintp = @ \ S]
  /\ UNCHANGED vars

MaskLines(S) ==
  /\ uart' = [uart EXCEPT !.uintm = S]
  /\ UpdateIrq

(* A write to UCON enables the transmit interrupt without raising it.      *)
EnableTxIrq(b) ==
  /\ uart' = [uart EXCEPT !.tx_irq_en = b]
  /\ UNCHANGED vars

=============================================================================
