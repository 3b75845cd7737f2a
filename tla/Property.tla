------------------------------ MODULE Property ------------------------------
(***************************************************************************)
(* The value of a property (property.h, property.cpp).  A property object  *)
(* shares its data and the lock of the data with every copy of it: the one *)
(* in the table of an interface, which the bus reads and sets, is a copy   *)
(* of the one the program works with.  Data and lock together are a cell   *)
(* here, and CellOf says which objects share one.                          *)
(*                                                                         *)
(* A value is two words, `lo' and `hi', which are copied one after the     *)
(* other: a value that is read while it is written may be torn.            *)
(*                                                                         *)
(* An operator marked "mutant" is a wrong variant of the one after it,     *)
(* kept to show that a property notices the difference.                    *)
(***************************************************************************)
CONSTANTS
  Thread, NoThread,
  Prop, Writeable,        \* property objects, and those the bus may set
  Cell, CellOf, NoCell,
  Value, Valid,           \* values, and those the validator accepts
  First, Torn,            \* the initial value; no value
  Quiet                   \* the program assigns no property from another one
                          \* that somebody writes at the same time

ASSUME CellOfAssumption == CellOf \in [Prop -> Cell]
ASSUME PropAssumption == Writeable \subseteq Prop /\ NoCell \notin Cell
ASSUME ValueAssumption == First \in Value /\ Torn \notin Value
ASSUME NoThreadAssumption == NoThread \notin Thread

VARIABLES
  lo, hi,       \* *_data of each cell
  lock,         \* the thread that holds *_lock
  pc,           \* where each thread is
  cell,         \* the cell it works on
  from,         \* the cell it copies
  arg,          \* the value it writes
  bufLo, bufHi  \* the value it has read

data == <<lo, hi>>
buf == <<bufLo, bufHi>>
vars == <<data, lock, pc, cell, from, arg, buf>>

-----------------------------------------------------------------------------
\* Half way through an access, under the lock of the cell.
Inside(t) == pc[t] \in {"reading", "writing", "copying"}

\* The types, and that a thread that is inside has the lock, nobody else.
TypeOK ==
  /\ lo \in [Cell -> Value] /\ hi \in [Cell -> Value]
  /\ lock \in [Cell -> Thread \cup {NoThread}]
  /\ pc \in [Thread -> {"idle", "read", "validate", "write", "copy",
                        "reading", "writing", "copying"}]
  /\ cell \in [Thread -> Cell \cup {NoCell}]
  /\ from \in [Thread -> Cell \cup {NoCell}]
  /\ arg \in [Thread -> Value]
  /\ bufLo \in [Thread -> Value] /\ bufHi \in [Thread -> Value]
  /\ \A t \in Thread, c \in Cell : lock[c] = t <=> Inside(t) /\ cell[t] = c

Init ==
  /\ lo = [c \in Cell |-> First] /\ hi = [c \in Cell |-> First]
  /\ lock = [c \in Cell |-> NoThread]
  /\ pc = [t \in Thread |-> "idle"]
  /\ cell = [t \in Thread |-> NoCell] /\ from = [t \in Thread |-> NoCell]
  /\ arg = [t \in Thread |-> First]
  /\ bufLo = [t \in Thread |-> First] /\ bufHi = [t \in Thread |-> First]

-----------------------------------------------------------------------------
\* Calls.  get_variant and set_variant of a property without the permission
\* throw before anything happens; the program's own reads and assignments need
\* none, and their values are not validated.
Call(t, to, p, v) ==
  /\ pc[t] = "idle"
  /\ pc' = [pc EXCEPT ![t] = to]
  /\ cell' = [cell EXCEPT ![t] = CellOf[p]]
  /\ arg' = [arg EXCEPT ![t] = v]
  /\ UNCHANGED <<data, lock, from, buf>>

Read(t, p) == Call(t, "read", p, arg[t])

Assign(t, p, v) == Call(t, "write", p, v)

SetVariant(t, p, v) == p \in Writeable /\ Call(t, "validate", p, v)

Validate(t) ==
  /\ pc[t] = "validate"
  /\ pc' = [pc EXCEPT ![t] = IF arg[t] \in Valid THEN "write" ELSE "idle"]
  /\ UNCHANGED <<data, lock, cell, from, arg, buf>>

\* operator=(const property&) of another object.  (operator=(property&&) does
\* the same, and is left out for values that a move does not just copy.)
AssignFrom(t, p, q) ==
  /\ pc[t] = "idle" /\ p # q
  /\ pc' = [pc EXCEPT ![t] = "copy"]
  /\ cell' = [cell EXCEPT ![t] = CellOf[p]]
  /\ from' = [from EXCEPT ![t] = CellOf[q]]
  /\ UNCHANGED <<data, lock, arg, buf>>

-----------------------------------------------------------------------------
\* A lock is taken for an access of its cell, and released after it.
Enter(t, at, to) ==
  /\ pc[t] = at /\ lock[cell[t]] = NoThread
  /\ pc' = [pc EXCEPT ![t] = to]
  /\ lock' = [lock EXCEPT ![cell[t]] = t]
  /\ UNCHANGED <<cell, from, arg>>

Leave(t, at) ==
  /\ pc[t] = at
  /\ pc' = [pc EXCEPT ![t] = "idle"]
  /\ lock' = [lock EXCEPT ![cell[t]] = NoThread]
  /\ UNCHANGED <<cell, from, arg>>

\* Nobody else copies the cell t is about to write (of another cell), and
\* nobody else writes the cell t is about to copy.
NotCopied(t) ==
  \A u \in Thread \ {t} : pc[u] = "copying" => from[u] # cell[t]

NotWritten(t) ==
  \A u \in Thread \ {t} :
    pc[u] \in {"writing", "copying"} => cell[u] # from[t]

\* operator T and _get_property.
ReadUnlocked(t) ==                                                 \* mutant
  /\ pc[t] = "read"
  /\ pc' = [pc EXCEPT ![t] = "reading"]
  /\ bufLo' = [bufLo EXCEPT ![t] = lo[cell[t]]]
  /\ UNCHANGED <<data, lock, cell, from, arg, bufHi>>

ReadBegin(t) ==
  /\ Enter(t, "read", "reading")
  /\ bufLo' = [bufLo EXCEPT ![t] = lo[cell[t]]]
  /\ UNCHANGED <<data, bufHi>>

ReadEnd(t) ==
  /\ Leave(t, "reading")
  /\ bufHi' = [bufHi EXCEPT ![t] = hi[cell[t]]]
  /\ UNCHANGED <<data, bufLo>>

\* operator=(const T&), operator=(T&&) and _set_property.
WriteUnlocked(t) ==                                                \* mutant
  /\ pc[t] = "write"
  /\ pc' = [pc EXCEPT ![t] = "writing"]
  /\ lo' = [lo EXCEPT ![cell[t]] = arg[t]]
  /\ UNCHANGED <<hi, lock, cell, from, arg, buf>>

WriteBegin(t) ==
  /\ Enter(t, "write", "writing")
  /\ Quiet => NotCopied(t)
  /\ lo' = [lo EXCEPT ![cell[t]] = arg[t]]
  /\ UNCHANGED <<hi, buf>>

WriteEnd(t) ==
  /\ Leave(t, "writing")
  /\ hi' = [hi EXCEPT ![cell[t]] = arg[t]]
  /\ UNCHANGED <<lo, buf>>

\* The lock is the one of the property that is assigned; *o._data is read
\* without the lock of its own cell.
CopyBegin(t) ==
  /\ Enter(t, "copy", "copying")
  /\ Quiet => NotCopied(t) /\ NotWritten(t)
  /\ lo' = [lo EXCEPT ![cell[t]] = lo[from[t]]]
  /\ UNCHANGED <<hi, buf>>

CopyEnd(t) ==
  /\ Leave(t, "copying")
  /\ hi' = [hi EXCEPT ![cell[t]] = hi[from[t]]]
  /\ UNCHANGED <<lo, buf>>

-----------------------------------------------------------------------------
Next ==
  \E t \in Thread :
    \/ \E p \in Prop : Read(t, p)
    \/ \E p \in Prop, v \in Value : Assign(t, p, v) \/ SetVariant(t, p, v)
    \/ \E p, q \in Prop : AssignFrom(t, p, q)
    \/ Validate(t)
    \/ ReadBegin(t) \/ ReadEnd(t)
    \/ WriteBegin(t) \/ WriteEnd(t)
    \/ CopyBegin(t) \/ CopyEnd(t)

Spec == Init /\ [][Next]_vars

-----------------------------------------------------------------------------
(***************************************************************************)
(* Properties.                                                             *)
(***************************************************************************)
Got ==
  [t \in Thread |-> IF pc[t] = "reading" \/ bufLo[t] = bufHi[t]
                      THEN bufLo[t] ELSE Torn]

Register == INSTANCE AtomicValue WITH value <- lo, got <- Got

\* Every property behaves as a single value that is read, written and copied
\* in one step, from the bus and by the program, through whatever copies of
\* the property object: each access takes effect when it reaches the first
\* word.  (Only if the program is Quiet, see WholeValues.)
Atomic == Register!Spec

\* property.h:152, "properties are atomic": a value that has been read, and
\* one that nobody is writing, was written by somebody as a whole.  So it is
\* in a program that is Quiet; without that, an assignment from another property
\* can leave a mixture of two values behind.
WholeValues ==
  /\ \A t \in Thread : pc[t] # "reading" => bufLo[t] = bufHi[t]
  /\ \A c \in Cell : lock[c] = NoThread => lo[c] = hi[c]
=============================================================================
