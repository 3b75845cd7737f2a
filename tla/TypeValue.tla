----------------------------- MODULE TypeValue -------------------------------
(***************************************************************************)
(* What variant_type promises: an object of it is a value, the type it     *)
(* stands for, which only operations on that object change.  A new one is  *)
(* a basic type, a copy, built from others, or a part of another.          *)
(*                                                                         *)
(* Two things are not as with other values.  Copy assignment of an object  *)
(* without a type changes nothing, and is therefore no step; and what a    *)
(* move leaves behind depends on how it is made.                           *)
(***************************************************************************)
EXTENDS Sequences

CONSTANTS Slot, Type, Basic, Compose, Gone, Null, Moved

VARIABLE val

Init == val = [s \in Slot |-> Gone]

Is(s, v) == val[s] = Gone /\ val' = [val EXCEPT ![s] = v]

\* The composite types of which v is one part.
Around(v) == {c \in DOMAIN Compose : \E i \in DOMAIN c[2] : c[2][i] = v}

Make(s) ==
  \/ Is(s, Null)
  \/ \E v \in Basic : Is(s, v)
  \/ \E r \in Slot : val[r] \in Type \cup {Null} /\ Is(s, val[r])
  \/ \E c \in DOMAIN Compose :
       /\ \A i \in DOMAIN c[2] : \E r \in Slot : val[r] = c[2][i]
       /\ Is(s, Compose[c])
  \/ \E r \in Slot, v \in Type :
       (\E c \in Around(v) : Compose[c] = val[r]) /\ Is(s, v)

\* Built from parts that are used up.
MakeOf(s, parts, rest) ==
  /\ val[s] = Gone /\ s \notin parts
  /\ \E c \in DOMAIN Compose :
       /\ {c[2][i] : i \in DOMAIN c[2]} = {val[r] : r \in parts}
       /\ val' = [r \in Slot |-> IF r = s THEN Compose[c]
                                 ELSE IF r \in parts THEN rest ELSE val[r]]

Move(s, r) ==
  /\ val[s] = Gone /\ val[r] # Gone
  /\ val' = [val EXCEPT ![s] = val[r], ![r] = Moved]

Assign(s, r) ==
  /\ val[s] # Gone /\ val[r] \in Type
  /\ val' = [val EXCEPT ![s] = val[r]]

MoveAssign(s, r) ==
  /\ val[s] # Gone /\ val[r] # Gone
  /\ val' = [val EXCEPT ![s] = val[r], ![r] = val[s]]

Destroy(s) == val[s] # Gone /\ val' = [val EXCEPT ![s] = Gone]

Next ==
  \/ \E s \in Slot : Make(s) \/ Destroy(s)
  \/ \E s \in Slot, parts \in SUBSET Slot, rest \in {Null, Gone} :
       MakeOf(s, parts, rest)
  \/ \E s, r \in Slot : Move(s, r) \/ Assign(s, r) \/ MoveAssign(s, r)

Spec == Init /\ [][Next]_val
=============================================================================
