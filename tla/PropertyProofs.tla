--------------------------- MODULE PropertyProofs ---------------------------
(***************************************************************************)
(* Theorems about Property, for any number of threads, property objects,   *)
(* cells and values: accesses exclude each other, and, if the program is   *)
(* Quiet, a property implements an atomic value.                           *)
(***************************************************************************)
EXTENDS Property, TLAPS

\* A thread that is in a function has a cell, and a second one to copy.
CellsKnown ==
  \A t \in Thread :
    /\ pc[t] # "idle" => cell[t] \in Cell
    /\ pc[t] \in {"copy", "copying"} => from[t] \in Cell

Base == TypeOK /\ CellsKnown

\* The two words differ at most between a writer's two steps.
WordsOK ==
  /\ \A c \in Cell : lock[c] = NoThread => lo[c] = hi[c]
  /\ \A t \in Thread :
       /\ pc[t] = "reading" => /\ lo[cell[t]] = hi[cell[t]]
                               /\ bufLo[t] = lo[cell[t]]
       /\ pc[t] = "writing" => lo[cell[t]] = arg[t]
       /\ pc[t] = "copying" => /\ lo[from[t]] = hi[from[t]]
                               /\ lo[cell[t]] = lo[from[t]]
       /\ pc[t] # "reading" => bufLo[t] = bufHi[t]

\* Nobody writes a cell that somebody copies.
SourcesKept ==
  \A t, u \in Thread :
    t # u /\ pc[t] = "copying" /\ pc[u] \in {"writing", "copying"} =>
      cell[u] # from[t]

IInv == Base /\ WordsOK /\ SourcesKept

-----------------------------------------------------------------------------
\* Init establishes the invariant.
LEMMA IInvInit == Init => IInv
BY ValueAssumption, NoThreadAssumption
   DEF Init, IInv, Base, TypeOK, CellsKnown, WordsOK, SourcesKept, Inside

\* Every step preserves the types and the ownership of the locks.
LEMMA BaseStep == Base /\ [Next]_vars => Base'
<1> SUFFICES ASSUME Base, [Next]_vars PROVE Base'
  OBVIOUS
<1> USE NoThreadAssumption, CellOfAssumption
    DEF Base, TypeOK, CellsKnown, Inside, data, buf
<1>1. ASSUME NEW t \in Thread, NEW p \in Prop, Read(t, p) PROVE Base'
  BY <1>1 DEF Read, Call
<1>2. ASSUME NEW t \in Thread, NEW p \in Prop, NEW v \in Value,
             Assign(t, p, v) \/ SetVariant(t, p, v)
      PROVE  Base'
  BY <1>2 DEF Assign, SetVariant, Call
<1>3. ASSUME NEW t \in Thread, NEW p \in Prop, NEW q \in Prop,
             AssignFrom(t, p, q)
      PROVE  Base'
  BY <1>3 DEF AssignFrom
<1>4. ASSUME NEW t \in Thread, Validate(t) PROVE Base'
  BY <1>4 DEF Validate
<1>5. ASSUME NEW t \in Thread, ReadBegin(t) PROVE Base'
  BY <1>5 DEF ReadBegin, Enter
<1>6. ASSUME NEW t \in Thread, ReadEnd(t) PROVE Base'
  BY <1>6 DEF ReadEnd, Leave
<1>7. ASSUME NEW t \in Thread, WriteBegin(t) PROVE Base'
  BY <1>7 DEF WriteBegin, Enter
<1>8. ASSUME NEW t \in Thread, WriteEnd(t) PROVE Base'
  BY <1>8 DEF WriteEnd, Leave
<1>9. ASSUME NEW t \in Thread, CopyBegin(t) PROVE Base'
  BY <1>9 DEF CopyBegin, Enter
<1>10. ASSUME NEW t \in Thread, CopyEnd(t) PROVE Base'
  BY <1>10 DEF CopyEnd, Leave
<1>11. CASE UNCHANGED vars
  BY <1>11 DEF vars
<1>12. QED
  BY <1>1, <1>2, <1>3, <1>4, <1>5, <1>6, <1>7, <1>8, <1>9, <1>10, <1>11
     DEF Next

\* A thread that holds a lock excludes the others from the cell.
LEMMA Exclusion ==
  ASSUME Base, NEW t \in Thread, NEW u \in Thread,
         Inside(t), Inside(u), cell[t] = cell[u]
  PROVE  t = u
<1>1. cell[t] \in Cell
  BY DEF Base, CellsKnown, Inside
<1>2. lock[cell[t]] = t /\ lock[cell[t]] = u
  BY <1>1 DEF Base, TypeOK
<1>3. QED
  BY <1>2

\* A quiet program leaves a cell alone that is being copied.
LEMMA SourcesStep ==
  ASSUME Quiet, Base, SourcesKept, [Next]_vars
  PROVE  SourcesKept'
<1> USE DEF Base, TypeOK, CellsKnown, SourcesKept, Inside, data, buf
<1>1. ASSUME NEW t \in Thread, NEW p \in Prop, Read(t, p) PROVE SourcesKept'
  BY <1>1 DEF Read, Call
<1>2. ASSUME NEW t \in Thread, NEW p \in Prop, NEW v \in Value,
             Assign(t, p, v) \/ SetVariant(t, p, v)
      PROVE  SourcesKept'
  BY <1>2 DEF Assign, SetVariant, Call
<1>3. ASSUME NEW t \in Thread, NEW p \in Prop, NEW q \in Prop,
             AssignFrom(t, p, q)
      PROVE  SourcesKept'
  BY <1>3 DEF AssignFrom
<1>4. ASSUME NEW t \in Thread, Validate(t) PROVE SourcesKept'
  BY <1>4 DEF Validate
<1>5. ASSUME NEW t \in Thread, ReadBegin(t) \/ ReadEnd(t) PROVE SourcesKept'
  BY <1>5 DEF ReadBegin, Enter, ReadEnd, Leave
<1>6. ASSUME NEW t \in Thread, WriteBegin(t) PROVE SourcesKept'
  BY <1>6 DEF WriteBegin, Enter, NotCopied
<1>7. ASSUME NEW t \in Thread, CopyBegin(t) PROVE SourcesKept'
  BY <1>7 DEF CopyBegin, Enter, NotCopied, NotWritten
<1>8. ASSUME NEW t \in Thread, WriteEnd(t) \/ CopyEnd(t) PROVE SourcesKept'
  BY <1>8 DEF WriteEnd, CopyEnd, Leave
<1>9. CASE UNCHANGED vars
  BY <1>9 DEF vars
<1>10. QED
  BY <1>1, <1>2, <1>3, <1>4, <1>5, <1>6, <1>7, <1>8, <1>9 DEF Next

\* The words are whole again whenever a lock is released.
LEMMA WordsStep ==
  ASSUME Quiet, IInv, [Next]_vars
  PROVE  WordsOK'
<1> USE NoThreadAssumption
    DEF IInv, Base, TypeOK, CellsKnown, WordsOK, SourcesKept, Inside, data, buf
<1>1. ASSUME NEW t \in Thread, NEW p \in Prop, Read(t, p) PROVE WordsOK'
  BY <1>1 DEF Read, Call
<1>2. ASSUME NEW t \in Thread, NEW p \in Prop, NEW v \in Value,
             Assign(t, p, v) \/ SetVariant(t, p, v)
      PROVE  WordsOK'
  BY <1>2 DEF Assign, SetVariant, Call
<1>3. ASSUME NEW t \in Thread, NEW p \in Prop, NEW q \in Prop,
             AssignFrom(t, p, q)
      PROVE  WordsOK'
  BY <1>3 DEF AssignFrom
<1>4. ASSUME NEW t \in Thread, Validate(t) PROVE WordsOK'
  BY <1>4 DEF Validate
<1>5. ASSUME NEW t \in Thread, ReadBegin(t) PROVE WordsOK'
  BY <1>5 DEF ReadBegin, Enter
<1>6. ASSUME NEW t \in Thread, ReadEnd(t) PROVE WordsOK'
  BY <1>6 DEF ReadEnd, Leave
<1>7. ASSUME NEW t \in Thread, WriteBegin(t) PROVE WordsOK'
  BY <1>7 DEF WriteBegin, Enter, NotCopied
<1>8. ASSUME NEW t \in Thread, WriteEnd(t) PROVE WordsOK'
  BY <1>8 DEF WriteEnd, Leave
<1>9. ASSUME NEW t \in Thread, CopyBegin(t) PROVE WordsOK'
  BY <1>9 DEF CopyBegin, Enter, NotCopied, NotWritten
<1>10. ASSUME NEW t \in Thread, CopyEnd(t) PROVE WordsOK'
  BY <1>10 DEF CopyEnd, Leave
<1>11. CASE UNCHANGED vars
  BY <1>11 DEF vars
<1>12. QED
  BY <1>1, <1>2, <1>3, <1>4, <1>5, <1>6, <1>7, <1>8, <1>9, <1>10, <1>11
     DEF Next

-----------------------------------------------------------------------------
\* Locks and types are right for any program, quiet or not.
THEOREM TypeCorrect == Spec => []TypeOK
<1>1. Init => Base
  BY IInvInit DEF IInv
<1>2. Base => TypeOK
  BY DEF Base
<1>3. QED
  BY <1>1, <1>2, BaseStep, PTL DEF Spec

\* The invariant holds in every state of a quiet program.
LEMMA Invariance == ASSUME Quiet PROVE Spec => []IInv
<1>1. IInv /\ [Next]_vars => IInv'
  BY BaseStep, SourcesStep, WordsStep DEF IInv
<1>2. QED
  BY IInvInit, <1>1, PTL DEF Spec

\* Initially the words are the initial values of the abstract registers.
LEMMA RefinementInit == Init => Register!Init
BY DEF Init, Register!Init, Got

\* A read takes effect with the first word, as a read of the register.
LEMMA ReadRefines ==
  ASSUME IInv, NEW t \in Thread, ReadBegin(t)
  PROVE  Register!Read(t, cell[t])
<1>1. bufLo' = [bufLo EXCEPT ![t] = lo[cell[t]]] /\ bufHi' = bufHi
  BY DEF ReadBegin
<1>2. pc[t] = "read" /\ pc' = [pc EXCEPT ![t] = "reading"]
  BY DEF ReadBegin, Enter
<1>3. Got' = [Got EXCEPT ![t] = lo[cell[t]]]
  BY <1>1, <1>2 DEF Got, IInv, Base, TypeOK
<1>4. QED
  BY <1>3 DEF Register!Read, ReadBegin, data

\* The first word of a write is the write; the other threads' results stay.
LEMMA WriteRefines ==
  ASSUME IInv, NEW t \in Thread, WriteBegin(t)
  PROVE  Register!Write(cell[t], arg[t])
<1>1. Got' = Got
  BY DEF WriteBegin, Enter, buf, Got, IInv, Base, TypeOK
<1>2. QED
  BY <1>1 DEF Register!Write, WriteBegin

\* The first word of a copy is the copy.
LEMMA CopyRefines ==
  ASSUME IInv, NEW t \in Thread, CopyBegin(t)
  PROVE  Register!Copy(cell[t], from[t])
<1>1. Got' = Got
  BY DEF CopyBegin, Enter, buf, Got, IInv, Base, TypeOK
<1>2. QED
  BY <1>1 DEF Register!Copy, Register!Write, CopyBegin

\* The second word of a read is the one that belongs to the first.
LEMMA ReadEndStutters ==
  ASSUME IInv, NEW t \in Thread, ReadEnd(t)
  PROVE  UNCHANGED Register!vars
<1>1. /\ pc[t] = "reading" /\ pc' = [pc EXCEPT ![t] = "idle"]
      /\ bufHi' = [bufHi EXCEPT ![t] = hi[cell[t]]] /\ bufLo' = bufLo
  BY DEF ReadEnd, Leave
<1>2. bufLo[t] = hi[cell[t]]
  BY <1>1 DEF IInv, WordsOK
<1>3. Got' = Got
  BY <1>1, <1>2 DEF Got, IInv, Base, TypeOK
<1>4. QED
  BY <1>3 DEF ReadEnd, data, Register!vars

\* No other step shows.
LEMMA OthersStutter ==
  ASSUME IInv, NEW t \in Thread,
         \/ \E p \in Prop : Read(t, p)
         \/ \E p \in Prop, v \in Value : Assign(t, p, v) \/ SetVariant(t, p, v)
         \/ \E p, q \in Prop : AssignFrom(t, p, q)
         \/ Validate(t) \/ WriteEnd(t) \/ CopyEnd(t)
  PROVE  UNCHANGED Register!vars
<1>1. lo' = lo /\ bufLo' = bufLo /\ bufHi' = bufHi
  BY DEF Read, Assign, SetVariant, Call, AssignFrom, Validate, WriteEnd,
         CopyEnd, data, buf
<1>2. \E s : s # "reading" /\ pc[t] # "reading" /\ pc' = [pc EXCEPT ![t] = s]
  BY DEF Read, Assign, SetVariant, Call, AssignFrom, Validate, WriteEnd,
         CopyEnd, Leave
<1>3. Got' = Got
  BY <1>1, <1>2 DEF Got, IInv, Base, TypeOK
<1>4. QED
  BY <1>1, <1>3 DEF Register!vars

\* A property of a quiet program implements an atomic value.
THEOREM PropertiesAtomic == ASSUME Quiet PROVE Spec => Atomic
<1>1. ASSUME IInv, [Next]_vars PROVE [Register!Next]_Register!vars
  <2>1. ASSUME NEW t \in Thread, ReadBegin(t) PROVE Register!Next
    <3>1. cell[t] \in Cell
      BY <1>1, <2>1 DEF ReadBegin, Enter, IInv, Base, CellsKnown
    <3>2. QED
      BY <1>1, <2>1, <3>1, ReadRefines DEF Register!Next
  <2>2. ASSUME NEW t \in Thread, WriteBegin(t) PROVE Register!Next
    <3>1. cell[t] \in Cell /\ arg[t] \in Value
      BY <1>1, <2>2 DEF WriteBegin, Enter, IInv, Base, TypeOK, CellsKnown
    <3>2. QED
      BY <1>1, <2>2, <3>1, WriteRefines DEF Register!Next
  <2>3. ASSUME NEW t \in Thread, CopyBegin(t) PROVE Register!Next
    <3>1. cell[t] \in Cell /\ from[t] \in Cell
      BY <1>1, <2>3 DEF CopyBegin, Enter, IInv, Base, CellsKnown
    <3>2. QED
      BY <1>1, <2>3, <3>1, CopyRefines DEF Register!Next
  <2>4. CASE UNCHANGED vars
    BY <2>4 DEF vars, data, buf, Got, Register!vars
  <2>5. CASE Next
    BY <1>1, <2>1, <2>2, <2>3, <2>5, ReadEndStutters, OthersStutter DEF Next
  <2>6. QED
    BY <1>1, <2>4, <2>5
<1>2. QED
  BY RefinementInit, Invariance, <1>1, PTL DEF Spec, Atomic, Register!Spec

\* Under the same condition nobody ever reads, or leaves behind, a torn value.
THEOREM ValuesWhole == ASSUME Quiet PROVE Spec => []WholeValues
<1>1. IInv => WholeValues
  BY DEF IInv, WordsOK, WholeValues
<1>2. QED
  BY <1>1, Invariance, PTL
=============================================================================
