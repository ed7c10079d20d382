------------------------ MODULE StructBindingsProofs ------------------------
(***************************************************************************)
(* Proofs about StructBindings, for any headers.                           *)
(***************************************************************************)
EXTENDS StructBindings, WellFoundedInduction, TLAPS

\* What the row of the member m has to say besides the offset.
RowOf(row, m) ==
  /\ row.array_size = IF m.array THEN m.size ELSE 0
  /\ row.ftype = m.hs

\* The rows of the members up to n, in a layout that ends at the byte end.
Laid(row, n, end) ==
  \A i \in 1 .. n :
    /\ RowOf(row[i], Members[i])
    /\ row[i].offset % Members[i].align = 0
    /\ row[i].offset + Members[i].size <= end
    /\ \A j \in 1 .. i - 1 : row[j].offset + Members[j].size <= row[i].offset

\* The generator keeps the layout of the members it has seen,
Generating ==
  pc = "fields" =>
    /\ k <= Len(Members) + 1 /\ bc_fielddata.n = k - 1
    /\ Laid(bc_fielddata.row, k - 1, size)

\* and the instance has that of all.
Printed ==
  pc \in {"printed", "poke"} =>
    /\ Len(instance.rows) = Len(Members)
    /\ Laid(instance.rows, Len(Members), instance.sizeOf)

\* There is a content for every member.
Filled == pc = "poke" => Len(mem) = Len(instance.rows)

\* The inductive invariant.
IInv == TypeOK /\ Generating /\ Printed /\ Filled /\ RoundTrip

LEMMA MembersFacts ==
  ASSUME TypeOK
  PROVE  /\ Members \in Seq(Member) /\ Len(Members) \in Nat /\ Len(Members) <= Capacity
         /\ \A i \in 1 .. Len(Members) : Members[i] \in Member
         /\ \A i \in 1 .. Len(Members) : Exact => Matches(Members[i])
<1>1. header \in Seq(Declaration) /\ struct \in 1 .. Len(header)
  BY HeadersOK DEF TypeOK
<1>2. header[struct] \in Declaration
  BY <1>1
<1>3. Members \in Seq(Member)
  BY <1>2 DEF Members, Declaration
<1>4. Len(Members) <= Capacity
  BY HeadersOK, <1>1 DEF TypeOK, Members
<1>5. \A i \in 1 .. Len(Members) : Exact => Matches(Members[i])
  BY HeadersOK, <1>1 DEF TypeOK, Members, Exact
<1>6. QED
  BY <1>3, <1>4, <1>5

\* poke writes no more of a member, and peek reads no more, than it has in C.
LEMMA BytesBound ==
  ASSUME NEW m \in Member, NEW row \in Row, RowOf(row, m), Matches(m), given \in Given
  PROVE  /\ Bytes(row) \in Nat /\ Bytes(row) <= m.size
         /\ Written(row) \in Int /\ Written(row) <= m.size
<1>1. /\ m.size \in Nat /\ m.hs \in Nat \ {0} /\ m.array \in BOOLEAN
      /\ row.array_size \in Nat /\ row.ftype \in Nat \ {0}
  BY DEF Member, Row
<1>2. Bytes(row) = m.size
  <2>1. CASE m.array
    <3>1. row.array_size = m.size /\ row.ftype = m.hs /\ m.size > 0 /\ m.size % m.hs = 0
      BY <2>1 DEF RowOf, Matches
    <3>2. row.array_size % row.ftype = 0
      BY <3>1
    <3>3. QED
      BY <3>1, <3>2, <1>1 DEF Bytes
  <2>2. CASE ~m.array
    BY <2>2, <1>1 DEF RowOf, Matches, Bytes
  <2>3. QED
    BY <2>1, <2>2, <1>1
<1>3. Written(row) = Bytes(row) \/ Written(row) = Bytes(row) - row.ftype
  BY DEF Written
<1>4. QED
  BY <1>1, <1>2, <1>3

LEMMA InitIInv == Init => IInv
<1> SUFFICES ASSUME Init PROVE IInv
  OBVIOUS
<1>1. header \in Seq(Declaration) /\ header # <<>>
  BY HeadersOK DEF Init
<1>2. struct \in 1 .. Len(header)
  BY <1>1 DEF Init
<1>3. TypeOK
  BY <1>2, CapacityOK DEF Init, TypeOK, NoInstance, Instance, Given
<1>4. QED
  BY <1>3 DEF Init, IInv, Generating, Printed, Filled, RoundTrip

LEMMA starttypeIInv == IInv /\ starttype => IInv'
<1> SUFFICES ASSUME IInv, starttype PROVE IInv'
  OBVIOUS
<1>1. TypeOK'
  BY CapacityOK DEF IInv, TypeOK, starttype
<1>2. Generating'
  BY <1>1, MembersFacts DEF starttype, Generating, Laid, IInv, Members
<1>3. Printed' /\ Filled' /\ RoundTrip'
  BY DEF starttype, Printed, Filled, RoundTrip
<1>4. QED
  BY <1>1, <1>2, <1>3 DEF IInv

\* Writing the row behind the ones in use leaves those as they are.
LEMMA PutRowFacts ==
  ASSUME NEW rows \in Seq(Row), NEW n \in Nat, n <= Len(rows), NEW row \in Row
  PROVE  /\ PutRow(rows, n + 1, row) \in Seq(Row)
         /\ n + 1 <= Len(PutRow(rows, n + 1, row))
         /\ PutRow(rows, n + 1, row)[n + 1] = row
         /\ \A i \in 1 .. n : PutRow(rows, n + 1, row)[i] = rows[i]
<1>1. CASE n + 1 <= Len(rows)
  BY <1>1 DEF PutRow
<1>2. CASE n + 1 > Len(rows)
  <2>1. Len(rows) = n
    BY <1>2
  <2>2. PutRow(rows, n + 1, row) = Append(rows, row)
    BY <1>2, <2>1 DEF PutRow
  <2>3. /\ Append(rows, row) \in Seq(Row) /\ Len(Append(rows, row)) = n + 1
        /\ Append(rows, row)[n + 1] = row
        /\ \A i \in 1 .. n : Append(rows, row)[i] = rows[i]
    BY <2>1
  <2>4. QED
    BY <2>2, <2>3
<1>3. QED
  BY <1>1, <1>2

\* The step of field and array_field.
LEMMA basicfieldIInv ==
  ASSUME IInv, pc = "fields", k <= Len(Members),
         NEW array_size, array_size = (IF Members[k].array THEN Members[k].size ELSE 0),
         bc_basicfield(array_size), k' = k + 1,
         UNCHANGED <<header, struct, pc, instance, given, mem>>
  PROVE  IInv'
<1> DEFINE m == Members[k]
           n == bc_fielddata.n
<1>1. /\ TypeOK /\ n = k - 1 /\ Laid(bc_fielddata.row, k - 1, size)
      /\ k \in Nat \ {0} /\ size \in Nat /\ align \in Nat \ {0}
      /\ n \in Nat /\ bc_fielddata.row \in Seq(Row) /\ n <= Len(bc_fielddata.row)
  BY DEF IInv, Generating, TypeOK
<1>2. /\ m \in Member /\ Len(Members) \in Nat /\ Len(Members) <= Capacity
      /\ m.size \in Nat /\ m.align \in Nat \ {0} /\ m.array \in BOOLEAN /\ m.hs \in Nat \ {0}
      /\ \A i \in 1 .. Len(Members) : Members[i] \in Member
  <2>1. /\ Len(Members) \in Nat /\ Len(Members) <= Capacity
        /\ \A i \in 1 .. Len(Members) : Members[i] \in Member
    BY <1>1, MembersFacts
  <2>2. k \in 1 .. Len(Members)
    BY <1>1, <2>1
  <2>3. m \in Member
    BY <2>1, <2>2
  <2>4. QED
    BY <2>1, <2>3 DEF Member
<1>3. Members' = Members
  BY DEF Members
<1>4. PICK pad \in 0 .. m.align - 1 :
        /\ (size + pad) % m.align = 0
        /\ bc_fielddata' =
             [n |-> n + 1,
              row |-> PutRow(bc_fielddata.row, n + 1, [offset |-> size + pad,
                                                       array_size |-> array_size,
                                                       ftype |-> m.hs])]
        /\ size' = size + pad + m.size
        /\ align' = IF m.align > align THEN m.align ELSE align
  BY DEF bc_basicfield, Padding, Offset
<1> DEFINE row == [offset |-> size + pad, array_size |-> array_size, ftype |-> m.hs]
           new == bc_fielddata'.row
<1>0. array_size = IF m.array THEN m.size ELSE 0
  OBVIOUS
<1> HIDE DEF m
<1>5. row \in Row
  BY <1>0, <1>1, <1>2, <1>4 DEF Row
<1>6. /\ new \in Seq(Row) /\ n + 1 <= Len(new) /\ new[n + 1] = row
      /\ \A i \in 1 .. n : new[i] = bc_fielddata.row[i]
  <2>1. new = PutRow(bc_fielddata.row, n + 1, row)
    BY <1>4
  <2> DEFINE rows == bc_fielddata.row
  <2>2. rows \in Seq(Row) /\ n \in Nat /\ n <= Len(rows)
    BY <1>1
  <2> HIDE DEF row, n, rows, new
  <2>3. /\ PutRow(rows, n + 1, row) \in Seq(Row)
        /\ n + 1 <= Len(PutRow(rows, n + 1, row))
        /\ PutRow(rows, n + 1, row)[n + 1] = row
        /\ \A i \in 1 .. n : PutRow(rows, n + 1, row)[i] = rows[i]
    BY <1>5, <2>2, PutRowFacts
  <2>4. QED
    BY <2>1, <2>3 DEF rows
<1>7. TypeOK'
  <2>1. bc_fielddata' \in [n : Nat, row : Seq(Row)] /\ bc_fielddata'.n = n + 1
    BY <1>1, <1>4, <1>6
  <2>2. size' \in Nat /\ align' \in Nat \ {0} /\ k' \in Nat \ {0}
    <3>1. pad \in Nat /\ size' = size + pad + m.size
      BY <1>2, <1>4
    <3>2. size' \in Nat
      BY <1>1, <1>2, <3>1
    <3>3. align' \in Nat \ {0}
      BY <1>1, <1>2, <1>4
    <3>4. k' \in Nat \ {0}
      BY <1>1
    <3>5. QED
      BY <3>2, <3>3, <3>4
  <2>3. n + 1 <= Capacity
    BY <1>1, <1>2, CapacityOK
  <2>4. QED
    BY <1>1, <1>6, <2>1, <2>2, <2>3 DEF TypeOK
<1>8. Generating'
  <2>1. k' <= Len(Members)' + 1 /\ bc_fielddata'.n = k' - 1
    BY <1>1, <1>2, <1>3, <1>4
  <2>2. \A i \in 1 .. k - 1 :
          /\ new[i] = bc_fielddata.row[i]
          /\ new[i].offset \in Nat /\ Members[i].size \in Nat
    <3> SUFFICES ASSUME NEW i \in 1 .. k - 1
                 PROVE  /\ new[i] = bc_fielddata.row[i]
                        /\ new[i].offset \in Nat /\ Members[i].size \in Nat
      OBVIOUS
    <3>1. i \in 1 .. n /\ i \in 1 .. Len(new) /\ i \in 1 .. Len(Members)
      BY <1>1, <1>2, <1>6
    <3>2. new[i] \in Row /\ Members[i] \in Member
      BY <3>1, <1>2, <1>6
    <3>3. QED
      BY <3>1, <3>2, <1>6 DEF Row, Member
  <2>3. new[k] = row /\ row.offset = size + pad
    BY <1>1, <1>6
  <2>4. \A i \in 1 .. k - 1 :
          /\ RowOf(new[i], Members[i])
          /\ new[i].offset % Members[i].align = 0
          /\ new[i].offset + Members[i].size <= size
          /\ \A j \in 1 .. i - 1 : new[j].offset + Members[j].size <= new[i].offset
    <3> TAKE i \in 1 .. k - 1
    <3>1. \A j \in 1 .. i - 1 : j \in 1 .. k - 1
      BY <1>1
    <3>2. QED
      BY <1>1, <2>2, <3>1 DEF Laid
  <2>5. RowOf(row, m) /\ row.offset % m.align = 0
    BY <1>0, <1>4, <2>3 DEF RowOf
  <2>6. /\ row.offset + m.size = size'
        /\ \A i \in 1 .. k - 1 : /\ new[i].offset + Members[i].size <= row.offset
                                 /\ new[i].offset + Members[i].size <= size'
    <3>1. pad \in Nat /\ row.offset = size + pad
      BY <1>2, <1>4, <2>3
    <3>2. row.offset \in Nat /\ row.offset + m.size = size' /\ size <= row.offset
      BY <3>1, <1>1, <1>2, <1>4
    <3> HIDE DEF row
    <3>3. ASSUME NEW i \in 1 .. k - 1
          PROVE  /\ new[i].offset + Members[i].size <= row.offset
                 /\ new[i].offset + Members[i].size <= size'
      <4>1. /\ new[i].offset \in Nat /\ Members[i].size \in Nat
            /\ new[i].offset + Members[i].size <= size
        BY <2>2, <2>4
      <4>2. size \in Nat /\ m.size \in Nat
        BY <1>1, <1>2
      <4>3. QED
        BY <3>2, <4>1, <4>2
    <3>4. QED
      BY <3>2, <3>3
  <2>7. Laid(new, k, size')
    <3> SUFFICES ASSUME NEW i \in 1 .. k
                 PROVE  /\ RowOf(new[i], Members[i])
                        /\ new[i].offset % Members[i].align = 0
                        /\ new[i].offset + Members[i].size <= size'
                        /\ \A j \in 1 .. i - 1 : new[j].offset + Members[j].size <= new[i].offset
      BY DEF Laid
    <3>1. CASE i = k
      BY <3>1, <2>3, <2>5, <2>6, <1>2, <1>1 DEF m
    <3>2. CASE i # k
      <4>1. i \in 1 .. k - 1
        BY <3>2, <1>1
      <4>2. QED
        BY <4>1, <2>4, <2>6
    <3>3. QED
      BY <3>1, <3>2
  <2>8. Laid(bc_fielddata.row, k - 1, size)'
    <3>1. k' - 1 = k
      BY <1>1
    <3>2. QED
      BY <2>7, <3>1, <1>3 DEF Laid, RowOf
  <2>9. QED
    BY <2>1, <2>8 DEF Generating
<1>9. Printed' /\ Filled' /\ RoundTrip'
  BY DEF Printed, Filled, RoundTrip
<1>10. QED
  BY <1>7, <1>8, <1>9 DEF IInv

LEMMA fieldIInv == IInv /\ field => IInv'
<1> SUFFICES ASSUME IInv, field PROVE IInv'
  OBVIOUS
<1>1. 0 = IF Members[k].array THEN Members[k].size ELSE 0
  BY DEF field
<1>2. QED
  BY <1>1, basicfieldIInv DEF field

LEMMA array_fieldIInv == IInv /\ array_field => IInv'
<1> SUFFICES ASSUME IInv, array_field PROVE IInv'
  OBVIOUS
<1>1. Members[k].size = IF Members[k].array THEN Members[k].size ELSE 0
  BY DEF array_field
<1>2. QED
  BY <1>1, basicfieldIInv DEF array_field

LEMMA stoptypeIInv == IInv /\ stoptype => IInv'
<1> SUFFICES ASSUME IInv, stoptype PROVE IInv'
  OBVIOUS
<1> DEFINE n == Len(Members)
           row == bc_fielddata.row
           rows == instance'.rows
<1>1. /\ TypeOK /\ n \in Nat /\ k = n + 1 /\ bc_fielddata.n = n
      /\ Laid(row, n, size)
      /\ size \in Nat /\ align \in Nat \ {0}
      /\ row \in Seq(Row) /\ n <= Len(row)
  BY MembersFacts DEF IInv, Generating, TypeOK, stoptype
<1>2. Members' = Members
  BY DEF Members, stoptype
<1>3. PICK pad \in 0 .. align - 1 :
        instance' = [rows |-> SubSeq(row, 1, n), sizeOf |-> size + pad, alignment |-> align]
  BY <1>1 DEF stoptype, Padding
<1>4. /\ rows \in Seq(Row) /\ Len(rows) = n
      /\ \A i \in 1 .. n : rows[i] = row[i]
  <2> HIDE DEF n, row
  <2>1. rows = SubSeq(row, 1, n)
    BY <1>3
  <2>2. QED
    BY <1>1, <2>1
<1>5. instance'.sizeOf = size + pad /\ pad \in Nat
  BY <1>1, <1>3
<1>6. TypeOK'
  <2>1. instance' \in Instance
    BY <1>1, <1>3, <1>4, <1>5 DEF Instance
  <2>2. QED
    BY <1>1, <2>1 DEF stoptype, TypeOK
<1>7. Laid(rows, n, size + pad)
  <2> SUFFICES ASSUME NEW i \in 1 .. n
               PROVE  /\ RowOf(rows[i], Members[i])
                      /\ rows[i].offset % Members[i].align = 0
                      /\ rows[i].offset + Members[i].size <= size + pad
                      /\ \A j \in 1 .. i - 1 : rows[j].offset + Members[j].size <= rows[i].offset
    BY DEF Laid
  <2>1. /\ RowOf(row[i], Members[i])
        /\ row[i].offset % Members[i].align = 0
        /\ row[i].offset + Members[i].size <= size
        /\ \A j \in 1 .. i - 1 : row[j].offset + Members[j].size <= row[i].offset
    BY <1>1 DEF Laid
  <2>2. \A j \in 1 .. i - 1 : rows[j] = row[j]
    BY <1>1, <1>4
  <2>3. rows[i] = row[i]
    BY <1>4
  <2>4. row[i] \in Row /\ Members[i] \in Member
    BY <1>1, MembersFacts
  <2>5. row[i].offset \in Nat /\ Members[i].size \in Nat
    BY <2>4 DEF Row, Member
  <2>6. row[i].offset + Members[i].size <= size + pad
    BY <1>1, <1>5, <2>1, <2>5
  <2>7. QED
    BY <2>1, <2>2, <2>3, <2>6
<1>8. Printed'
  BY <1>1, <1>2, <1>4, <1>5, <1>7 DEF Printed, Laid, RowOf
<1>9. Generating' /\ Filled' /\ RoundTrip'
  BY DEF stoptype, Generating, Filled, RoundTrip
<1>10. QED
  BY <1>6, <1>8, <1>9 DEF IInv

LEMMA pokeIInv == IInv /\ poke => IInv'
<1> SUFFICES ASSUME IInv, poke PROVE IInv'
  OBVIOUS
<1>1. TypeOK'
  <2>1. instance.rows \in Seq(Row)
    BY DEF IInv, TypeOK, Instance
  <2>2. mem' \in Seq(Content)
    BY <2>1 DEF poke, Content
  <2>3. QED
    BY <2>2 DEF IInv, TypeOK, poke
<1>2. Members' = Members
  BY DEF Members, poke
<1>3. Printed'
  BY <1>2 DEF IInv, Printed, Laid, RowOf, poke
<1>4. Generating' /\ Filled' /\ RoundTrip'
  <2>1. \A i \in 1 .. Len(instance.rows) : ~(i < 1)
    OBVIOUS
  <2>2. Len(mem') = Len(instance.rows)
    BY DEF IInv, TypeOK, Instance, poke
  <2>3. QED
    BY <2>1, <2>2 DEF poke, Generating, Filled, RoundTrip
<1>5. QED
  BY <1>1, <1>3, <1>4 DEF IInv

\* What peek reads of one member is no byte that poke writes for another.
LEMMA NoHit ==
  ASSUME IInv, pc = "poke", Exact,
         NEW i \in 1 .. Len(instance.rows), NEW j \in 1 .. Len(instance.rows), i # j
  PROVE  ~Hits(instance.rows[j], instance.rows[i])
<1> DEFINE row == instance.rows
<1>1. /\ TypeOK /\ Len(row) = Len(Members) /\ Len(Members) \in Nat
      /\ Laid(row, Len(Members), instance.sizeOf)
      /\ row \in Seq(Row) /\ given \in Given
  BY MembersFacts DEF IInv, Printed, TypeOK, Instance
<1>2. ASSUME NEW h \in 1 .. Len(row)
      PROVE  /\ row[h].offset \in Nat /\ Members[h].size \in Nat
             /\ Bytes(row[h]) \in Nat /\ Bytes(row[h]) <= Members[h].size
             /\ Written(row[h]) \in Int /\ Written(row[h]) <= Members[h].size
  <2>1. row[h] \in Row /\ Members[h] \in Member /\ Matches(Members[h])
    BY <1>1, MembersFacts
  <2>2. RowOf(row[h], Members[h])
    BY <1>1 DEF Laid
  <2>3. row[h].offset \in Nat /\ Members[h].size \in Nat
    BY <2>1 DEF Row, Member
  <2> HIDE DEF row
  <2>4. QED
    BY <1>1, <2>1, <2>2, <2>3, BytesBound
<1>3. i \in Nat /\ j \in Nat /\ (i < j \/ j < i)
  BY <1>1
<1>4. CASE i < j
  <2>1. row[i].offset + Members[i].size <= row[j].offset
    BY <1>1, <1>3, <1>4 DEF Laid
  <2>2. row[i].offset + Bytes(row[i]) <= row[j].offset
    BY <1>2, <2>1
  <2>3. QED
    BY <1>2, <2>2 DEF Hits
<1>5. CASE j < i
  <2>1. row[j].offset + Members[j].size <= row[i].offset
    BY <1>1, <1>3, <1>5 DEF Laid
  <2>2. row[j].offset + Written(row[j]) <= row[i].offset
    BY <1>2, <2>1
  <2>3. QED
    BY <1>2, <2>2 DEF Hits
<1>6. QED
  BY <1>3, <1>4, <1>5

LEMMA pokeByteOffIInv == IInv /\ pokeByteOff => IInv'
<1> SUFFICES ASSUME IInv, pokeByteOff PROVE IInv'
  OBVIOUS
<1> DEFINE rows == instance.rows
<1>1. /\ TypeOK /\ rows \in Seq(Row) /\ k \in Nat \ {0} /\ Len(rows) \in Nat
      /\ pc = "poke" /\ k \in 1 .. Len(rows) /\ k' = k + 1
      /\ instance' = instance /\ given' = given /\ pc' = pc
      /\ header' = header /\ struct' = struct
      /\ mem' = [i \in 1 .. Len(rows) |->
                   IF i = k THEN Poked(rows[k])
                   ELSE IF Hits(rows[k], rows[i]) THEN "spoilt" ELSE mem[i]]
  BY DEF IInv, TypeOK, Instance, pokeByteOff
<1>2. Members' = Members /\ Exact' = Exact
  BY <1>1 DEF Members, Exact
<1>3. mem' \in Seq(Content) /\ Len(mem') = Len(rows)
  <2>1. \A i \in 1 .. Len(rows) : mem[i] \in Content
    <3>1. mem \in Seq(Content) /\ Len(mem) = Len(rows)
      BY <1>1 DEF TypeOK, IInv, Filled
    <3>2. QED
      BY <3>1
  <2>2. \A i \in 1 .. Len(rows) : mem'[i] \in Content
    <3>1. Poked(rows[k]) \in Content /\ "spoilt" \in Content
      BY DEF Poked, Content
    <3>2. QED
      BY <1>1, <2>1, <3>1
  <2>3. mem' \in [1 .. Len(rows) -> Content]
    BY <1>1, <2>2
  <2>4. QED
    BY <1>1, <2>3
<1>4. TypeOK'
  BY <1>1, <1>3 DEF TypeOK, pokeByteOff
<1>5. Printed'
  BY <1>1, <1>2 DEF IInv, Printed, Laid, RowOf
<1>6. Generating' /\ Filled'
  BY <1>1, <1>3 DEF Generating, Filled
<1>7. RoundTrip'
  <2> SUFFICES ASSUME Exact, NEW i \in 1 .. Len(rows)
               PROVE  mem'[i] = IF i < k + 1 THEN Poked(rows[i]) ELSE "old"
    BY <1>1, <1>2 DEF RoundTrip, Poked
  <2>1. mem[i] = IF i < k THEN Poked(rows[i]) ELSE "old"
    BY <1>1 DEF IInv, RoundTrip
  <2>2. CASE i = k
    BY <1>1, <2>2
  <2>3. CASE i # k
    <3>1. ~Hits(rows[k], rows[i])
      BY <1>1, <2>3, NoHit
    <3>2. mem'[i] = mem[i]
      BY <1>1, <2>3, <3>1
    <3>3. i < k + 1 <=> i < k
      BY <1>1, <2>3
    <3>4. QED
      BY <2>1, <3>2, <3>3
  <2>4. QED
    BY <2>2, <2>3
<1>8. QED
  BY <1>4, <1>5, <1>6, <1>7 DEF IInv

LEMMA nextStructIInv == IInv /\ nextStruct => IInv'
<1> SUFFICES ASSUME IInv, nextStruct PROVE IInv'
  OBVIOUS
<1>1. TypeOK'
  BY HeadersOK DEF IInv, TypeOK, nextStruct
<1>2. Generating' /\ Printed' /\ Filled' /\ RoundTrip'
  BY DEF nextStruct, Generating, Printed, Filled, RoundTrip
<1>3. QED
  BY <1>1, <1>2 DEF IInv

LEMMA StutterIInv == IInv /\ UNCHANGED vars => IInv'
<1> SUFFICES ASSUME IInv, UNCHANGED vars PROVE IInv'
  OBVIOUS
<1>1. Members' = Members /\ Exact' = Exact
  BY DEF vars, Members, Exact
<1>2. TypeOK'
  BY DEF IInv, TypeOK, vars
<1>3. Generating' /\ Printed' /\ Filled'
  BY <1>1 DEF IInv, Generating, Printed, Filled, Laid, RowOf, vars
<1>4. RoundTrip'
  BY <1>1 DEF IInv, RoundTrip, Poked, vars
<1>5. QED
  BY <1>2, <1>3, <1>4 DEF IInv

LEMMA NextIInv == IInv /\ [Next]_vars => IInv'
BY starttypeIInv, fieldIInv, array_fieldIInv, stoptypeIInv, pokeIInv, pokeByteOffIInv,
   nextStructIInv, StutterIInv DEF Next

THEOREM Invariance == Spec => []IInv
BY NextIInv, InitIInv, PTL DEF Spec

-----------------------------------------------------------------------------
\* The variables have their types; the table bc_fielddata never has more rows in
\* use than it has room for.
THEOREM TypeCorrect == Spec => []TypeOK
<1>1. IInv => TypeOK
  BY DEF IInv
<1>2. QED
  BY <1>1, Invariance, PTL

\* The table of the macros (bindings.dsl.h) never mixes the members of two structs.
THEOREM TableIsOwn == Spec => []OwnRows
<1>1. IInv => OwnRows
  BY DEF IInv, Generating, Laid, RowOf, OwnRows
<1>2. QED
  BY <1>1, Invariance, PTL

\* No list makes poke write behind the struct.
THEOREM PokeInBounds == Spec => []InBounds
<1>1. IInv => InBounds
  <2> SUFFICES ASSUME IInv, pc = "poke", Exact, NEW i \in 1 .. Len(instance.rows)
               PROVE  instance.rows[i].offset + Written(instance.rows[i]) <= instance.sizeOf
    BY DEF InBounds
  <2> DEFINE row == instance.rows[i]
  <2>1. /\ TypeOK /\ i \in 1 .. Len(Members) /\ row \in Row /\ given \in Given
        /\ instance.sizeOf \in Nat
    BY DEF IInv, TypeOK, Printed, Instance
  <2>2. /\ RowOf(row, Members[i])
        /\ row.offset + Members[i].size <= instance.sizeOf
    BY <2>1 DEF IInv, Printed, Laid
  <2>3. Members[i] \in Member /\ Matches(Members[i])
    BY <2>1, MembersFacts
  <2>4. Members[i].size \in Nat /\ row.offset \in Nat
    BY <2>1, <2>3 DEF Member, Row
  <2> HIDE DEF row
  <2>5. Written(row) \in Int /\ Written(row) <= Members[i].size
    BY <2>1, <2>2, <2>3, BytesBound
  <2>6. QED
    BY <2>1, <2>2, <2>4, <2>5 DEF row
<1>2. QED
  BY <1>1, Invariance, PTL

\* poke then peek gives back the struct, whatever the header.
THEOREM PokePeek == Spec => []RoundTrip
<1>1. IInv => RoundTrip
  BY DEF IInv
<1>2. QED
  BY <1>1, Invariance, PTL

-----------------------------------------------------------------------------
(***************************************************************************)
(* No more padding than alignment takes.                                   *)
(***************************************************************************)
Offsets(rows, n) == [i \in 1 .. n |-> rows[i].offset]

\* The generator has put the members that it has seen where C puts them,
Following ==
  pc = "fields" =>
    /\ Close(Offsets(bc_fielddata.row, k - 1), Members, k - 1)
    /\ Strictest(align, Members, k - 1)
    /\ size = EndOf(Offsets(bc_fielddata.row, k - 1), Members, k - 1)

\* and the instance says so.
Followed == pc \in {"printed", "poke"} => LaidOut(Shown, Members)

LEMMA InitFollow == Init => Following /\ Followed
BY DEF Init, Following, Followed

LEMMA starttypeFollow == IInv /\ starttype => (Following /\ Followed)'
<1> SUFFICES ASSUME IInv, starttype PROVE (Following /\ Followed)'
  OBVIOUS
<1>1. pc' = "fields" /\ k' = 1 /\ size' = 0 /\ align' = 1
  BY DEF starttype
<1>2. k' - 1 = 0
  BY <1>1
<1>3. QED
  BY <1>1, <1>2 DEF Following, Followed, Close, Strictest, EndOf

\* One more member, at its offset.
LEMMA CloseMore ==
  ASSUME NEW n \in Nat, NEW rows, NEW new, NEW members,
         \A i \in 1 .. n : new[i] = rows[i], Close(Offsets(rows, n), members, n),
         FirstMultiple(new[n + 1].offset, EndOf(Offsets(rows, n), members, n),
                       members[n + 1].align)
  PROVE  Close(Offsets(new, n + 1), members, n + 1)
<1> DEFINE a == Offsets(rows, n)
           b == Offsets(new, n + 1)
<1>1. \A i \in 1 .. n : b[i] = a[i]
  BY DEF Offsets
<1>2. b[n + 1] = new[n + 1].offset
  BY DEF Offsets
<1> HIDE DEF a, b
<1>3. \A i \in 0 .. n : EndOf(b, members, i) = EndOf(a, members, i)
  BY <1>1 DEF EndOf
<1>4. \A i \in 1 .. n : i - 1 \in 0 .. n
  OBVIOUS
<1>5. \A i \in 1 .. n : FirstMultiple(b[i], EndOf(b, members, i - 1), members[i].align)
  BY <1>1, <1>3, <1>4 DEF Close, a
<1>6. FirstMultiple(b[n + 1], EndOf(b, members, n), members[n + 1].align)
  BY <1>2, <1>3 DEF a
<1>7. n + 1 - 1 = n /\ \A i \in 1 .. n + 1 : i \in 1 .. n \/ i = n + 1
  OBVIOUS
<1>8. QED
  BY <1>5, <1>6, <1>7 DEF Close, b

LEMMA basicfieldFollow ==
  ASSUME IInv, Following, pc = "fields", k <= Len(Members), NEW array_size,
         bc_basicfield(array_size), k' = k + 1,
         UNCHANGED <<header, struct, pc, instance, given, mem>>
  PROVE  Following'
<1> DEFINE m == Members[k]
           n == bc_fielddata.n
           rows == bc_fielddata.row
           new == bc_fielddata'.row
           ms == Members
<1>1. /\ n = k - 1 /\ k \in Nat \ {0} /\ size \in Nat /\ align \in Nat \ {0}
      /\ n \in Nat /\ rows \in Seq(Row) /\ n <= Len(rows)
  BY DEF IInv, Generating, TypeOK
<1>2. m.size \in Nat /\ m.align \in Nat \ {0}
  <2>1. k \in 1 .. Len(Members) /\ \A i \in 1 .. Len(Members) : Members[i] \in Member
    BY <1>1, MembersFacts DEF IInv
  <2>2. QED
    BY <2>1 DEF Member
<1>3. Members' = Members
  BY DEF Members
<1>4. PICK pad \in 0 .. m.align - 1 :
        /\ (size + pad) % m.align = 0
        /\ bc_fielddata' =
             [n |-> n + 1,
              row |-> PutRow(rows, n + 1, [offset |-> size + pad, array_size |-> array_size,
                                           ftype |-> m.hs])]
        /\ size' = size + pad + m.size
        /\ align' = IF m.align > align THEN m.align ELSE align
  BY DEF bc_basicfield, Padding, Offset
<1>5. new[n + 1].offset = size + pad /\ \A i \in 1 .. n : new[i] = rows[i]
  <2> DEFINE row == [offset |-> size + pad, array_size |-> array_size, ftype |-> m.hs]
  <2>1. row.offset = size + pad /\ new = PutRow(rows, n + 1, row)
    BY <1>4
  <2> HIDE DEF row
  <2>2. PutRow(rows, n + 1, row)[n + 1] = row /\ \A i \in 1 .. n : PutRow(rows, n + 1, row)[i] = rows[i]
    <3>1. CASE n + 1 <= Len(rows)
      BY <1>1, <3>1 DEF PutRow
    <3>2. CASE ~(n + 1 <= Len(rows))
      <4>1. Len(rows) = n
        BY <1>1, <3>2
      <4>2. QED
        BY <1>1, <3>2, <4>1 DEF PutRow
    <3>3. QED
      BY <3>1, <3>2
  <2>3. QED
    BY <2>1, <2>2
<1>6. /\ Close(Offsets(rows, n), ms, n) /\ Strictest(align, ms, n)
      /\ size = EndOf(Offsets(rows, n), ms, n)
  BY <1>1 DEF Following
<1>7. ms[n + 1] = m /\ k' - 1 = n + 1 /\ n + 1 # 0
  BY <1>1
<1> HIDE DEF n, rows, new, m, ms
<1>8. FirstMultiple(size + pad, size, m.align)
  BY <1>1, <1>2, <1>4 DEF FirstMultiple
<1>9. Close(Offsets(new, n + 1), ms, n + 1)
  BY <1>1, <1>5, <1>6, <1>7, <1>8, CloseMore
<1>10. size' = EndOf(Offsets(new, n + 1), ms, n + 1)
  <2>1. n + 1 \in 1 .. n + 1
    BY <1>1
  <2>2. Offsets(new, n + 1)[n + 1] = size + pad
    BY <1>5, <2>1 DEF Offsets
  <2>3. QED
    BY <1>4, <1>7, <2>2 DEF EndOf
<1>11. Strictest(align', ms, n + 1)
  <2>1. \A i \in 1 .. n + 1 : i \in 1 .. n \/ i = n + 1
    BY <1>1
  <2>2. \A i \in 1 .. n : i \in 1 .. n + 1 /\ ms[i].align \in Nat
    <3>1. \A i \in 1 .. n : i \in 1 .. n + 1 /\ i \in 1 .. Len(ms)
      BY <1>1, MembersFacts DEF IInv, ms, n
    <3>2. \A i \in 1 .. Len(ms) : ms[i] \in Member
      BY MembersFacts DEF IInv, ms
    <3>3. QED
      BY <3>1, <3>2 DEF Member
  <2>3. n + 1 \in 1 .. n + 1
    BY <1>1
  <2>4. CASE m.align > align
    <3>1. align' = m.align
      BY <1>4, <2>4
    <3>2. \A i \in 1 .. n : ms[i].align <= m.align
      BY <1>1, <1>2, <1>6, <2>2, <2>4 DEF Strictest
    <3>3. QED
      BY <1>2, <1>7, <2>1, <2>3, <3>1, <3>2 DEF Strictest
  <2>5. CASE ~(m.align > align)
    <3>1. align' = align /\ m.align <= align
      BY <1>1, <1>2, <1>4, <2>5
    <3>2. QED
      BY <1>6, <1>7, <2>1, <2>2, <3>1 DEF Strictest
  <2>6. QED
    BY <2>4, <2>5
<1>12. QED
  BY <1>3, <1>7, <1>9, <1>10, <1>11 DEF Following, new, ms

LEMMA stoptypeFollow == IInv /\ Following /\ stoptype => (Following /\ Followed)'
<1> SUFFICES ASSUME IInv, Following, stoptype PROVE (Following /\ Followed)'
  OBVIOUS
<1> DEFINE n == Len(Members)
           row == bc_fielddata.row
           rows == instance'.rows
<1>1. /\ n \in Nat /\ k = n + 1 /\ bc_fielddata.n = n
      /\ size \in Nat /\ align \in Nat \ {0} /\ row \in Seq(Row) /\ n <= Len(row)
  BY MembersFacts DEF IInv, Generating, TypeOK, stoptype
<1>2. Members' = Members /\ pc' = "printed" /\ pc = "fields"
  BY DEF Members, stoptype
<1>3. /\ Close(Offsets(row, n), Members, n) /\ Strictest(align, Members, n)
      /\ size = EndOf(Offsets(row, n), Members, n)
  <2>1. k - 1 = n
    BY <1>1
  <2>2. QED
    BY <1>2, <2>1 DEF Following
<1>4. PICK pad \in 0 .. align - 1 :
        /\ (size + pad) % align = 0
        /\ instance' = [rows |-> SubSeq(row, 1, n), sizeOf |-> size + pad, alignment |-> align]
  BY <1>1 DEF stoptype, Padding
<1>5. FirstMultiple(size + pad, size, align)
  BY <1>1, <1>4 DEF FirstMultiple
<1>6. Len(rows) = n /\ \A i \in 1 .. n : rows[i] = row[i]
  <2> HIDE DEF n, row
  <2>1. rows = SubSeq(row, 1, n)
    BY <1>4
  <2>2. QED
    BY <1>1, <2>1
<1> DEFINE offsets == [i \in 1 .. n |-> rows[i].offset]
<1>7. offsets = Offsets(row, n)
  BY <1>6 DEF Offsets
<1>8. Len(offsets) = n
  BY <1>1
<1>9. Shown' = [offsets |-> offsets, sizeOf |-> size + pad, alignment |-> align]
  BY <1>4, <1>6 DEF Shown
<1> HIDE DEF n, row, rows, offsets
<1>10. Shown'.offsets = offsets /\ Shown'.sizeOf = size + pad /\ Shown'.alignment = align
  BY <1>9
<1>11. LaidOut(Shown', Members)
  BY <1>3, <1>5, <1>7, <1>8, <1>10 DEF LaidOut, n
<1>12. QED
  BY <1>2, <1>11 DEF Following, Followed

LEMMA NextFollow == IInv /\ Following /\ Followed /\ [Next]_vars => (Following /\ Followed)'
<1> SUFFICES ASSUME IInv, Following, Followed, [Next]_vars PROVE (Following /\ Followed)'
  OBVIOUS
<1>1. CASE starttype
  BY <1>1, starttypeFollow
<1>2. CASE field
  <2>1. Following'
    BY <1>2, basicfieldFollow DEF field
  <2>2. Followed'
    BY <1>2 DEF field, Followed
  <2>3. QED
    BY <2>1, <2>2
<1>3. CASE array_field
  <2>1. Following'
    BY <1>3, basicfieldFollow DEF array_field
  <2>2. Followed'
    BY <1>3 DEF array_field, Followed
  <2>3. QED
    BY <2>1, <2>2
<1>4. CASE stoptype
  BY <1>4, stoptypeFollow
<1>5. CASE poke
  BY <1>5 DEF poke, Following, Followed, Shown, Members
<1>6. CASE pokeByteOff
  BY <1>6 DEF pokeByteOff, Following, Followed, Shown, Members
<1>7. CASE nextStruct
  BY <1>7 DEF nextStruct, Following, Followed
<1>8. CASE UNCHANGED vars
  BY <1>8 DEF vars, Following, Followed, Shown, Members
<1>9. QED
  BY <1>1, <1>2, <1>3, <1>4, <1>5, <1>6, <1>7, <1>8 DEF Next

\* The generator's output is the layout of C, padding included, for any headers.
THEOREM LayoutIsC == Spec => []WellLaidOut
<1>1. IInv /\ Followed => WellLaidOut
  BY DEF IInv, Printed, Laid, Followed, WellLaidOut
<1>2. Init => IInv /\ Following /\ Followed
  BY InitIInv, InitFollow
<1>3. IInv /\ Following /\ Followed /\ [Next]_vars => (IInv /\ Following /\ Followed)'
  BY NextFollow, NextIInv
<1>4. QED
  BY <1>1, <1>2, <1>3, PTL DEF Spec

-----------------------------------------------------------------------------
(***************************************************************************)
(* C's rules leave no choice, so that an instance made by hand that obeys  *)
(* them is the one that the generator prints.                              *)
(***************************************************************************)
LEMMA MultipleOf ==
  ASSUME NEW a \in Nat, NEW m \in Nat \ {0}, a % m = 0
  PROVE  \E q \in Nat : a = m * q
<1>1. a = m * (a \div m) + (a % m) /\ a \div m \in Nat
  BY Z3
<1>2. QED
  BY <1>1

LEMMA NoNearMultiple ==
  ASSUME NEW a \in Nat, NEW b \in Nat, NEW m \in Nat \ {0},
         a % m = 0, b % m = 0, a <= b, b < a + m
  PROVE  a = b
<1>1. PICK p \in Nat : a = m * p
  BY MultipleOf
<1>2. PICK q \in Nat : b = m * q
  BY MultipleOf
<1>3. q < p + 1
  <2> SUFFICES ASSUME q >= p + 1 PROVE FALSE
    OBVIOUS
  <2>1. m * q >= m * (p + 1)
    OBVIOUS
  <2>2. m * (p + 1) = m * p + m
    OBVIOUS
  <2>3. QED
    BY <1>1, <1>2, <2>1, <2>2
<1>4. p < q + 1
  <2> SUFFICES ASSUME p >= q + 1 PROVE FALSE
    OBVIOUS
  <2>1. m * p >= m * (q + 1)
    OBVIOUS
  <2>2. m * (q + 1) = m * q + m
    OBVIOUS
  <2>3. QED
    BY <1>1, <1>2, <2>1, <2>2
<1>5. QED
  BY <1>1, <1>2, <1>3, <1>4

LEMMA OneFirst ==
  ASSUME NEW a \in Nat, NEW b \in Nat, NEW m \in Nat \ {0}, NEW from \in Nat,
         FirstMultiple(a, from, m), FirstMultiple(b, from, m)
  PROVE  a = b
<1>1. a % m = 0 /\ b % m = 0 /\ from <= a /\ from <= b /\ a < from + m /\ b < from + m
  BY DEF FirstMultiple
<1>2. CASE a <= b
  <2>1. b < a + m
    BY <1>1
  <2>2. QED
    BY <1>1, <1>2, <2>1, NoNearMultiple
<1>3. CASE b <= a
  <2>1. a < b + m
    BY <1>1
  <2>2. QED
    BY <1>1, <1>3, <2>1, NoNearMultiple
<1>4. QED
  BY <1>2, <1>3

LEMMA OneStrictest ==
  ASSUME NEW n \in Nat, NEW members, \A i \in 1 .. n : members[i].align \in Nat \ {0},
         NEW a \in Nat \ {0}, NEW b \in Nat \ {0},
         Strictest(a, members, n), Strictest(b, members, n)
  PROVE  a = b
<1>1. a <= b /\ b <= a
  BY DEF Strictest
<1>2. QED
  BY <1>1

\* A set of numbers has a least one.
LEMMA LeastOf ==
  ASSUME NEW S \in SUBSET Nat, S # {}
  PROVE  \E i \in S : \A j \in S : ~ (j < i)
<1> DEFINE Less == OpToRel(<, Nat)
<1>1. PICK i \in S : \A j \in S : <<j, i>> \notin Less
  BY NatLessThanWellFounded, WFMin
<1>2. QED
  BY <1>1 DEF OpToRel

Layouts == [offsets : Seq(Nat), sizeOf : Nat, alignment : Nat \ {0}]

LEMMA OneLayout ==
  ASSUME NEW members \in Seq(Member), NEW x \in Layouts, NEW y \in Layouts,
         LaidOut(x, members), LaidOut(y, members)
  PROVE  x = y
<1> DEFINE n == Len(members)
           a == x.offsets
           b == y.offsets
<1>1. /\ a \in Seq(Nat) /\ Len(a) = n /\ Close(a, members, n)
      /\ b \in Seq(Nat) /\ Len(b) = n /\ Close(b, members, n)
      /\ x.sizeOf \in Nat /\ y.sizeOf \in Nat
      /\ x.alignment \in Nat \ {0} /\ y.alignment \in Nat \ {0}
  BY DEF Layouts, LaidOut
<1>2. /\ Strictest(x.alignment, members, n) /\ Strictest(y.alignment, members, n)
      /\ FirstMultiple(x.sizeOf, EndOf(a, members, n), x.alignment)
      /\ FirstMultiple(y.sizeOf, EndOf(b, members, n), y.alignment)
  BY DEF LaidOut
<1>3. n \in Nat /\ \A i \in 1 .. n : members[i].size \in Nat /\ members[i].align \in Nat \ {0}
  <2>1. \A i \in 1 .. n : members[i] \in Member
    OBVIOUS
  <2>2. QED
    BY <2>1 DEF Member
<1>4. \A i \in 1 .. n : a[i] \in Nat /\ b[i] \in Nat
  BY <1>1
<1> HIDE DEF n, a, b
<1>5. \A i \in 0 .. n : EndOf(a, members, i) \in Nat
  BY <1>3, <1>4 DEF EndOf
<1>6. \A i \in 1 .. n : a[i] = b[i]
  <2> DEFINE D == {i \in 1 .. n : a[i] # b[i]}
  <2> SUFFICES ASSUME D # {} PROVE FALSE
    OBVIOUS
  <2>0. D \in SUBSET Nat
    BY <1>3
  <2>1. PICK i \in D : \A j \in D : ~ (j < i)
    <3> HIDE DEF D
    <3>1. QED
      BY <2>0, LeastOf
  <2>2. i \in 1 .. n /\ i - 1 \in 0 .. n /\ a[i] # b[i]
    BY <1>3
  <2>3. i - 1 # 0 => i - 1 \in 1 .. n /\ i - 1 < i
    BY <1>3, <2>2
  <2>4. i - 1 # 0 => a[i - 1] = b[i - 1]
    BY <2>1, <2>3
  <2>5. EndOf(a, members, i - 1) = EndOf(b, members, i - 1)
    BY <2>4 DEF EndOf
  <2>6. /\ FirstMultiple(a[i], EndOf(a, members, i - 1), members[i].align)
        /\ FirstMultiple(b[i], EndOf(a, members, i - 1), members[i].align)
    BY <1>1, <2>2, <2>5 DEF Close
  <2>7. QED
    BY <1>3, <1>4, <1>5, <2>2, <2>6, OneFirst
<1>7. a = b
  <2>1. a = [i \in 1 .. n |-> a[i]] /\ b = [i \in 1 .. n |-> b[i]]
    BY <1>1
  <2>2. QED
    BY <1>6, <2>1
<1>8. x.alignment = y.alignment
  BY <1>1, <1>2, <1>3, OneStrictest
<1>9. x.sizeOf = y.sizeOf
  <2>1. n \in 0 .. n
    BY <1>3
  <2>2. QED
    BY <1>1, <1>2, <1>5, <1>7, <1>8, <2>1, OneFirst
<1>10. QED
  BY <1>7, <1>8, <1>9 DEF Layouts, a, b

\* The instance that is printed is the layout of its struct, and the only one.
OnlyLayout ==
  pc \in {"printed", "poke"} =>
    /\ Shown \in Layouts
    /\ \A layout \in Layouts : LaidOut(layout, Members) <=> layout = Shown

\* The macros print the one layout of the struct that obeys C's rules: an instance that
\* somebody writes into Structs.hs by hand is what they print exactly if it obeys these
\* rules, and one that was left behind by a change of the header breaks one of them.
THEOREM NoOtherLayout == Spec => []OnlyLayout
<1>1. IInv /\ Followed => OnlyLayout
  <2> SUFFICES ASSUME IInv, Followed, pc \in {"printed", "poke"}
               PROVE  /\ Shown \in Layouts
                      /\ \A layout \in Layouts : LaidOut(layout, Members) <=> layout = Shown
    BY DEF OnlyLayout
  <2>1. TypeOK /\ Members \in Seq(Member)
    BY MembersFacts DEF IInv, TypeOK
  <2>2. LaidOut(Shown, Members)
    BY DEF Followed
  <2>3. Shown \in Layouts
    <3> DEFINE n == Len(instance.rows)
               offsets == [i \in 1 .. n |-> instance.rows[i].offset]
    <3>1. /\ instance.rows \in Seq(Row) /\ instance.sizeOf \in Nat
          /\ instance.alignment \in Nat \ {0}
      BY <2>1 DEF TypeOK, Instance
    <3>2. n \in Nat /\ \A i \in 1 .. n : instance.rows[i] \in Row
      BY <3>1
    <3>3. offsets \in [1 .. n -> Nat]
      BY <3>2 DEF Row
    <3> HIDE DEF n, offsets
    <3>4. offsets \in Seq(Nat)
      BY <3>2, <3>3
    <3>5. Shown = [offsets |-> offsets, sizeOf |-> instance.sizeOf,
                   alignment |-> instance.alignment]
      BY DEF Shown, offsets, n
    <3>6. QED
      BY <3>1, <3>4, <3>5 DEF Layouts
  <2>4. ASSUME NEW layout \in Layouts
        PROVE  LaidOut(layout, Members) <=> layout = Shown
    BY <2>1, <2>2, <2>3, OneLayout
  <2>5. QED
    BY <2>3, <2>4
<1>2. Init => IInv /\ Following /\ Followed
  BY InitIInv, InitFollow
<1>3. IInv /\ Following /\ Followed /\ [Next]_vars => (IInv /\ Following /\ Followed)'
  BY NextFollow, NextIInv
<1>4. QED
  BY <1>1, <1>2, <1>3, PTL DEF Spec
=============================================================================
