------------------------------ MODULE AppleSep ------------------------------
(***************************************************************************)
(* The mailbox of the secure enclave, devices/apple-sep/apple_sep.c.  A    *)
(* write to CTRL with bit 0 answers the message within the write; CTRL is  *)
(* clear again when it returns.  SRAM and the random number registers are  *)
(* memory.                                                                 *)
(***************************************************************************)
EXTENDS AppleAIC

CONSTANTS
  SepIrq,  (* sep->irq_num, SV_IRQ_APPLE_SEP                               *)
  NoReply  (* the zero in mbox_msg_out before the first answer, and the    *)
           (* answer to a boot request of an enclave that is not asleep    *)

SepRequest == {"ping", "status", "boot", "random", "key", "crypto", "unknown"}
SepState == {"SLEEPING", "ACTIVE"}

VARIABLE sep  (* state, mbox_msg_out and bit 0 of mbox_status              *)

SepInit == sep = [state |-> "SLEEPING", msg_out |-> NoReply, ready |-> FALSE]

(* sep_handle_message: the answer by the type of the message.  Random      *)
(* data and the payload of the stubs are left out; an unknown message is   *)
(* echoed.                                                                 *)
Reply(m) ==
  CASE m = "status" -> <<m, sep.state>>
    [] m = "boot" /\ sep.state # "SLEEPING" -> NoReply
    [] OTHER -> <<m>>

Booted(m) == IF m = "boot" THEN "ACTIVE" ELSE sep.state

(* MSG_IN and then CTRL are written.                                       *)
SendToSep(m) ==
  /\ sep' = [state |-> Booted(m), msg_out |-> Reply(m), ready |-> TRUE]
  /\ RaiseIrq(SepIrq)

(* Reading MSG_OUT: the code that would clear the status and lower the     *)
(* interrupt stands behind the return for the mailbox registers.           *)
ReadMsgOut == UNCHANGED <<sep, vars>>

=============================================================================
