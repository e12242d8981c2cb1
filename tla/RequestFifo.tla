----------------------------- MODULE RequestFifo ----------------------------
(***************************************************************************)
(* What a virtqueue promises its driver: requests are served in the order  *)
(* they were made available, each is handed back exactly once, in that     *)
(* order, and a reset forgets them all.                                    *)
(***************************************************************************)
EXTENDS Sequences

CONSTANT Request

VARIABLES
  todo,  (* made available and not served, oldest first                    *)
  done   (* served and not collected, oldest first                         *)

Held == {todo[i] : i \in DOMAIN todo} \cup {done[i] : i \in DOMAIN done}

Init == todo = <<>> /\ done = <<>>

Submit(r) ==
  /\ r \notin Held
  /\ todo' = Append(todo, r)
  /\ UNCHANGED done

Serve ==
  /\ todo # <<>>
  /\ done' = Append(done, Head(todo))
  /\ todo' = Tail(todo)

Collect ==
  /\ done # <<>>
  /\ done' = Tail(done)
  /\ UNCHANGED todo

Reset == todo' = <<>> /\ done' = <<>>

Next == (\E r \in Request : Submit(r)) \/ Serve \/ Collect \/ Reset

Spec == Init /\ [][Next]_<<todo, done>>

=============================================================================
