----------------------------- MODULE AtomicValue ----------------------------
(***************************************************************************)
(* "properties are atomic" (property.h): what a property promises to those *)
(* who read and assign it, from the bus and in the program, is a value per *)
(* cell that is read, written and copied in one step.                      *)
(***************************************************************************)
CONSTANTS Thread, Cell, Value, First   \* First: the initial value of a cell

VARIABLES
  value,    \* of each cell
  got       \* what each thread has read last

vars == <<value, got>>

Init ==
  /\ value = [c \in Cell |-> First]
  /\ got = [t \in Thread |-> First]

Read(t, c) ==
  /\ got' = [got EXCEPT ![t] = value[c]]
  /\ UNCHANGED value

Write(c, v) ==
  /\ value' = [value EXCEPT ![c] = v]
  /\ UNCHANGED got

Copy(c, d) == Write(c, value[d])

Next ==
  \/ \E t \in Thread, c \in Cell : Read(t, c)
  \/ \E c \in Cell, v \in Value : Write(c, v)
  \/ \E c, d \in Cell : Copy(c, d)

Spec == Init /\ [][Next]_vars
=============================================================================
