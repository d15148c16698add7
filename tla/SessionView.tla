---------------------------- MODULE SessionView ----------------------------
(***************************************************************************)
(* What a session promises those who attach to it, without channels,       *)
(* goroutines or an emulator: a terminal that is behind is first brought   *)
(* to some point of the output so far, then shown every batch after it in  *)
(* turn, and told of the exit only when there is nothing left to show.     *)
(* SessionLoop implements it.                                              *)
(***************************************************************************)
EXTENDS Naturals, Sequences

CONSTANT Conn

VARIABLES
  output,  \* how many batches the shell has put out
  over,    \* it will put out no more
  seen,    \* the batches on each client's terminal
  told     \* the client knows of the exit

view == <<output, over, seen, told>>

UpTo(k) == [i \in 1 .. k |-> i]

Init ==
  /\ output = 0 /\ over = FALSE
  /\ seen = [c \in Conn |-> <<>>]
  /\ told = [c \in Conn |-> FALSE]

Produce ==
  /\ ~over
  /\ output' = output + 1
  /\ UNCHANGED <<over, seen, told>>

End ==
  /\ ~over
  /\ over' = TRUE
  /\ UNCHANGED <<output, seen, told>>

\* The dump, for a terminal that has nothing yet, or the next batch.
Show(c) ==
  /\ ~told[c]
  /\ \E k \in Len(seen[c]) + 1 .. output :
       /\ k = Len(seen[c]) + 1 \/ seen[c] = <<>>
       /\ seen' = [seen EXCEPT ![c] = UpTo(k)]
  /\ UNCHANGED <<output, over, told>>

Tell(c) ==
  /\ over /\ ~told[c] /\ seen[c] = UpTo(output)
  /\ told' = [told EXCEPT ![c] = TRUE]
  /\ UNCHANGED <<output, over, seen>>

Next == Produce \/ End \/ \E c \in Conn : Show(c) \/ Tell(c)

Spec == Init /\ [][Next]_view
=============================================================================
