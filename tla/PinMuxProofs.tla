---------------------------- MODULE PinMuxProofs ----------------------------
(***************************************************************************)
(* Proofs about the pin multiplexer tool, for every table of functions.    *)
(***************************************************************************)
EXTENDS PinMux, WellFoundedInduction, TLAPS

LEMMA FrontAndLast ==
  ASSUME NEW s \in Seq(Nat), s # <<>>
  PROVE  /\ Front(s) \in Seq(Nat) /\ Last(s) \in Nat
         /\ s = Append(Front(s), Last(s))
<1>1. Len(s) >= 1 /\ Last(s) = s[Len(s)]
  BY DEF Last
<1>2. Front(s) = SubSeq(s, 1, Len(s) - 1) /\ Len(Front(s)) = Len(s) - 1
  BY <1>1 DEF Front
<1>3. Front(s) \in Seq(Nat) /\ Last(s) \in Nat
  BY <1>1, <1>2
<1>4. \A i \in 1 .. Len(s) : s[i] = Append(Front(s), Last(s))[i]
  BY <1>1, <1>2, <1>3
<1> QED
  BY <1>1, <1>2, <1>3, <1>4

LEMMA FrontAndLastOfAppend ==
  ASSUME NEW s \in Seq(Nat), NEW v \in Nat
  PROVE  Front(Append(s, v)) = s /\ Last(Append(s, v)) = v
<1>1. Append(s, v) \in Seq(Nat) /\ Len(Append(s, v)) = Len(s) + 1
  OBVIOUS
<1>2. Last(Append(s, v)) = v
  BY <1>1 DEF Last
<1>3. Front(Append(s, v)) = SubSeq(Append(s, v), 1, Len(s))
  BY <1>1 DEF Front
<1> QED
  BY <1>1, <1>2, <1>3

LEMMA PrefixOfAppend ==
  ASSUME NEW p \in Seq(Nat), NEW q \in Seq(Nat), NEW v \in Nat,
         IsPrefix(p, Append(q, v)), p # Append(q, v)
  PROVE  IsPrefix(p, q)
<1>1. Len(Append(q, v)) = Len(q) + 1 /\ Append(q, v) \in Seq(Nat)
  OBVIOUS
<1>2. /\ Len(p) <= Len(q) + 1
      /\ \A i \in 1 .. Len(p) : p[i] = Append(q, v)[i]
  BY <1>1 DEF IsPrefix
<1>3. Len(p) <= Len(q)
  <2> SUFFICES ASSUME Len(p) = Len(q) + 1
               PROVE  FALSE
    BY <1>2
  <2> QED
    BY <1>1, <1>2
<1>4. \A i \in 1 .. Len(p) : p[i] = q[i]
  BY <1>2, <1>3
<1>5. SubSeq(q, 1, Len(p)) = p
  BY <1>3, <1>4
<1>6. SubSeq(p, 1, Len(p)) = p
  OBVIOUS
<1> QED
  BY <1>3, <1>5, <1>6 DEF IsPrefix

LEMMA PrefixOfItself ==
  ASSUME NEW q \in Seq(Nat), NEW v \in Nat
  PROVE  IsPrefix(q, Append(q, v))
<1>1. Append(q, v) \in Seq(Nat) /\ Len(Append(q, v)) = Len(q) + 1
  OBVIOUS
<1>2. SubSeq(Append(q, v), 1, Len(q)) = q /\ SubSeq(q, 1, Len(q)) = q
  BY <1>1
<1> QED
  BY <1>1, <1>2 DEF IsPrefix

-----------------------------------------------------------------------------
(* Rows.                                                                   *)

LEMMA RowFields ==
  ASSUME NEW p \in PinNames, NEW v
  PROVE  Row(p, v) = [stem |-> p.stem, digits |-> Append(p.digits, v)]
<1>1. p = [stem |-> p.stem, digits |-> p.digits]
  BY DEF PinNames
<1>2. Row(p, v) = [p EXCEPT !.digits = Append(p.digits, v)]
  BY DEF Row
<1> QED
  BY <1>1, <1>2

LEMMA RowTyped ==
  ASSUME NEW i \in DOMAIN Table
  PROVE  /\ Table[i].name \in PinNames
         /\ Table[i].name.digits # <<>>
         /\ Last(Table[i].name.digits) \in Values
<1> DEFINE TableRow == [name : PinNames, func : STRING]
<1>1. Table \in Seq(TableRow)
  BY TableAssumption
<1> HIDE DEF TableRow
<1>2. Table[i] \in TableRow
  BY <1>1
<1>3. Table[i].name \in PinNames
  BY <1>2 DEF TableRow
<1>4. Table[i].name.digits # <<>> /\ Last(Table[i].name.digits) \in Values
  BY TableAssumption
<1> QED
  BY <1>3, <1>4

LEMMA RowOfOwner ==
  ASSUME NEW i \in DOMAIN Table
  PROVE  /\ Owner(i) \in PinNames
         /\ Last(Table[i].name.digits) \in Values
         /\ Table[i].name = Row(Owner(i), Last(Table[i].name.digits))
<1> DEFINE n == Table[i].name
<1>1. n \in PinNames /\ n.digits # <<>> /\ Last(n.digits) \in Values
  BY RowTyped
<1>2. n.digits \in Seq(Nat) /\ n.stem \in STRING
  BY <1>1 DEF PinNames
<1>3. /\ Front(n.digits) \in Seq(Nat)
      /\ n.digits = Append(Front(n.digits), Last(n.digits))
  BY <1>1, <1>2, FrontAndLast
<1>4. Owner(i) = [stem |-> n.stem, digits |-> Front(n.digits)]
  BY <1>1 DEF Owner, PinNames
<1>5. Owner(i) \in PinNames
  BY <1>2, <1>3, <1>4 DEF PinNames
<1>6. Row(Owner(i), Last(n.digits)) =
        [stem |-> Owner(i).stem, digits |-> Append(Owner(i).digits, Last(n.digits))]
  BY <1>5, RowFields
<1>7. Owner(i).stem = n.stem /\ Owner(i).digits = Front(n.digits)
  BY <1>4
<1>8. n = [stem |-> n.stem, digits |-> n.digits]
  BY <1>1 DEF PinNames
<1>9. n = Row(Owner(i), Last(n.digits))
  BY <1>3, <1>6, <1>7, <1>8
<1> QED
  BY <1>1, <1>5, <1>9

LEMMA OwnerOfRow ==
  ASSUME NEW i \in DOMAIN Table, NEW p \in PinNames, NEW v \in Values,
         Table[i].name = Row(p, v)
  PROVE  Owner(i) = p /\ Last(Table[i].name.digits) = v
<1>1. p.digits \in Seq(Nat) /\ v \in Nat
  BY TableAssumption DEF PinNames
<1>2. Table[i].name = [stem |-> p.stem, digits |-> Append(p.digits, v)]
  BY RowFields
<1>3. /\ Front(Append(p.digits, v)) = p.digits
      /\ Last(Append(p.digits, v)) = v
  BY <1>1, FrontAndLastOfAppend
<1>4. p = [stem |-> p.stem, digits |-> p.digits]
  BY DEF PinNames
<1> QED
  BY <1>2, <1>3, <1>4 DEF Owner

LEMMA BeginsOwnRow ==
  ASSUME NEW p \in PinNames, NEW v \in Values
  PROVE  Begins(p, Row(p, v))
<1>1. p.digits \in Seq(Nat) /\ v \in Nat
  BY TableAssumption DEF PinNames
<1>2. Row(p, v).stem = p.stem /\ Row(p, v).digits = Append(p.digits, v)
  BY RowFields
<1> QED
  BY <1>1, <1>2, PrefixOfItself DEF Begins

-----------------------------------------------------------------------------
(* The lookup by prefix.                                                   *)

(* The rows that an unambiguous pin's name begins are its own.             *)
LEMMA OwnRows ==
  ASSUME NEW p \in Pins, ~Ambiguous(p), NEW f, Candidates(p, f) # {}
  PROVE  f \in FunctionsOf(p)
<1>1. PICK i \in DOMAIN Table : Table[i].func = f /\ Begins(p, Table[i].name)
  BY DEF Candidates
<1> DEFINE q == Owner(i)
           v == Last(Table[i].name.digits)
<1>2. /\ q \in PinNames /\ v \in Values /\ v \in Nat
      /\ Table[i].name = Row(q, v)
  BY RowOfOwner, TableAssumption
<1>3. p \in PinNames
  BY TableAssumption
<1> HIDE DEF q, v
<1>4. /\ Row(q, v) = [stem |-> q.stem, digits |-> Append(q.digits, v)]
      /\ p = [stem |-> p.stem, digits |-> p.digits]
      /\ p.digits \in Seq(Nat) /\ q.digits \in Seq(Nat)
  BY <1>2, <1>3, RowFields DEF PinNames
<1>5. p # Row(q, v)
  BY <1>2 DEF Ambiguous
<1>6. p.stem = q.stem /\ IsPrefix(p.digits, Append(q.digits, v))
  BY <1>1, <1>2, <1>4 DEF Begins
<1>7. p.digits # Append(q.digits, v)
  BY <1>4, <1>5, <1>6
<1>8. Begins(p, q)
  BY <1>2, <1>4, <1>6, <1>7, PrefixOfAppend DEF Begins
<1>9. p = q
  BY <1>8 DEF Ambiguous, q
<1>10. f \in Marked(p, v)
  BY <1>1, <1>2, <1>9 DEF Marked
<1> QED
  BY <1>2, <1>10 DEF FunctionsOf

(* What is found for a function of the pin's own is the value it is shown  *)
(* for.                                                                    *)
LEMMA OwnValue ==
  ASSUME NEW p \in Pins, NEW f \in FunctionsOf(p)
  PROVE  Marked(p, Convert(p, f)) = {f}
<1>1. PICK v \in Values : f \in Marked(p, v)
  BY DEF FunctionsOf
<1>2. PICK k \in DOMAIN Table : Table[k].name = Row(p, v) /\ Table[k].func = f
  BY <1>1 DEF Marked
<1>3. p \in PinNames
  BY TableAssumption
<1>4. Owner(k) = p /\ Last(Table[k].name.digits) = v
  BY <1>2, <1>3, OwnerOfRow
<1>5. Begins(p, Table[k].name)
  BY <1>2, <1>3, BeginsOwnRow
<1>6. \A j \in DOMAIN Table :
        Table[j].func = f /\ Begins(p, Table[j].name) => j = k
  BY <1>2, <1>4, FunctionsApart
<1>7. Candidates(p, f) = {k}
  BY <1>2, <1>5, <1>6 DEF Candidates
<1>8. k \in Nat
  BY TableAssumption
<1>9. Min({k}) = k
  BY <1>8 DEF Min
<1>10. Convert(p, f) = v
  BY <1>4, <1>7, <1>9 DEF Convert
<1>11. \A j \in DOMAIN Table : Table[j].name = Row(p, v) <=> j = k
  BY <1>2, TableAssumption
<1>12. Marked(p, v) = {f}
  BY <1>2, <1>11 DEF Marked
<1> QED
  BY <1>10, <1>12

(* Whatever is found is the value of a row.                                *)
LEMMA FoundValue ==
  ASSUME NEW p, NEW f, Candidates(p, f) # {}
  PROVE  Convert(p, f) \in Values
<1> DEFINE C == Candidates(p, f)
<1>1. C \subseteq DOMAIN Table /\ C \subseteq Nat
  <2>1. C \subseteq DOMAIN Table
    BY DEF Candidates
  <2>2. DOMAIN Table \subseteq Nat
    BY TableAssumption
  <2> QED
    BY <2>1, <2>2
<1> HIDE DEF C
<1>2. C # {}
  BY DEF C
<1> DEFINE R == {ss \in Nat \X Nat : ss[1] < ss[2]}
<1>3. IsWellFoundedOn(R, Nat)
  BY NatLessThanWellFounded DEF OpToRel
<1>4. \E k \in C : \A j \in C : k <= j
  <2> HIDE DEF R
  <2>1. PICK k \in C : \A j \in C : ~ (<<j, k>> \in R)
    BY <1>1, <1>2, <1>3, WFMin
  <2>2. \A j \in C : ~ (j < k)
    BY <1>1, <2>1 DEF R
  <2> QED
    BY <1>1, <2>2
<1>5. Min(C) \in C
  BY <1>4 DEF Min
<1>6. Last(Table[Min(C)].name.digits) \in Values
  BY <1>1, <1>5, RowTyped
<1> QED
  BY <1>6 DEF Convert, C

-----------------------------------------------------------------------------
(* The tool.                                                               *)

(* The buffers hold something an option brought or nothing did, and a      *)
(* register always a value of a row: for every table and every option.     *)
THEOREM TypeCorrect == PinSpec => []PinTypeOK
<1>1. PinInit => PinTypeOK
  BY TableAssumption DEF PinInit, PinTypeOK, PinTexts, FuncTexts
<1>2. PinTypeOK /\ [PinNext]_pinVars => PinTypeOK'
  <2> SUFFICES ASSUME PinTypeOK, [PinNext]_pinVars
               PROVE  PinTypeOK'
    OBVIOUS
  <2>1. ASSUME NEW arg \in Options, WriteOption(arg)
        PROVE  PinTypeOK'
    <3>1. pin' \in PinTexts /\ func' \in FuncTexts
      BY <2>1 DEF WriteOption, Scan, PinTexts, FuncTexts, PinTypeOK
    <3>2. running' \in BOOLEAN
      BY <2>1 DEF WriteOption, PinTypeOK
    <3>3. reg' \in [Pins -> Values]
      <4>1. CASE UNCHANGED reg
        BY <4>1 DEF PinTypeOK
      <4>2. CASE /\ Candidates(pin', func') # {}
                 /\ DevmemWrite(pin', Convert(pin', func'))
        <5>1. Convert(pin', func') \in Values
          BY <4>2, FoundValue
        <5> QED
          BY <4>2, <5>1 DEF DevmemWrite, PinTypeOK
      <4> QED
        BY <2>1, <4>1, <4>2 DEF WriteOption
    <3> QED
      BY <3>1, <3>2, <3>3 DEF PinTypeOK
  <2>2. CASE Invoke
    BY <2>2 DEF Invoke, PinTypeOK
  <2>3. CASE Return \/ UNCHANGED pinVars
    BY <2>3 DEF Return, PinTypeOK, pinVars
  <2> QED
    BY <2>1, <2>2, <2>3 DEF PinNext
<1> QED
  BY <1>1, <1>2, PTL DEF PinSpec

(* The pin whose register changes is the one in the buffer, and it gets    *)
(* what is found for the function there.                                   *)
LEMMA OnlyThePinWritten ==
  ASSUME PinNext, NEW p \in Pins, Changed(p)
  PROVE  /\ p = pin' /\ Candidates(p, func') # {}
         /\ PinTypeOK => reg'[p] = Convert(p, func')
<1>1. CASE Invoke \/ Return
  BY <1>1 DEF Invoke, Return, Changed
<1>2. ASSUME NEW arg \in Options, WriteOption(arg)
      PROVE  /\ p = pin' /\ Candidates(p, func') # {}
             /\ PinTypeOK => reg'[p] = Convert(p, func')
  <2>1. /\ pin' \in Pins /\ Candidates(pin', func') # {}
        /\ reg' = [reg EXCEPT ![pin'] = Convert(pin', func')]
    BY <1>2 DEF WriteOption, DevmemWrite, Changed
  <2>2. p = pin'
    BY <2>1 DEF Changed
  <2>3. PinTypeOK => reg'[p] = Convert(p, func')
    BY <2>1, <2>2 DEF PinTypeOK
  <2> QED
    BY <2>1, <2>2, <2>3
<1> QED
  BY <1>1, <1>2 DEF PinNext

(* A register changes only in favour of a function of its own pin, unless  *)
(* the pin's name begins another's or reads like a row: for every table,   *)
(* every argument and every leftover in the buffers.                       *)
THEOREM ForeignRefusedAlways == PinSpec => ForeignRefused
<1>1. [PinNext]_pinVars =>
        [reg' # reg =>
           \A p \in Pins : Changed(p) /\ ~Ambiguous(p)
             => func' \in FunctionsOf(p)]_pinVars
  BY OnlyThePinWritten, OwnRows
<1> QED
  BY <1>1, PTL DEF PinSpec, ForeignRefused

(* A function of the pin's own, once set, is the one the tool shows: for   *)
(* every table in which no pin's name begins another's row for that        *)
(* function.                                                               *)
THEOREM WriteThenReadAlways == PinSpec => WriteThenRead
<1>1. PinTypeOK /\ [PinNext]_pinVars =>
        [reg' # reg =>
           \A p \in Pins : Changed(p) /\ func' \in FunctionsOf(p)
             => Marked(p, reg'[p]) = {func'}]_pinVars
  BY OnlyThePinWritten, OwnValue
<1> QED
  BY <1>1, TypeCorrect, PTL DEF PinSpec, WriteThenRead
=============================================================================
