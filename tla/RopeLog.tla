------------------------------ MODULE RopeLog ------------------------------
(***************************************************************************)
(* What the rope buffer promises its client (buffer.h, test_rope.cpp): a   *)
(* log of texts that buf_write extends and buf_dump prints in the order of *)
(* the writes, from buf_init to buf_destroy.                               *)
(***************************************************************************)
EXTENDS Sequences

CONSTANT Text

VARIABLES
  opened,   \* between buf_init and buf_destroy
  log,      \* the texts written
  shown     \* what the last complete dump printed

vars == <<opened, log, shown>>

Init == opened = FALSE /\ log = << >> /\ shown = << >>

Open == ~opened /\ opened' = TRUE /\ log' = << >> /\ UNCHANGED shown

Write(t) == opened /\ log' = Append(log, t) /\ UNCHANGED <<opened, shown>>

Dump == opened /\ shown' = log /\ UNCHANGED <<opened, log>>

Close == opened /\ opened' = FALSE /\ log' = << >> /\ UNCHANGED shown

Next == Open \/ Dump \/ Close \/ \E t \in Text : Write(t)

Spec == Init /\ [][Next]_vars
===============================================================================
