--------------------------- MODULE StructBindings ---------------------------
(***************************************************************************)
(* How the Haskell view of C's structs is made, and used.                  *)
(*                                                                         *)
(* types/build-bindings.sh turns a header into a list of macro calls: per  *)
(* struct a starttype, a field or array_field per member and a stoptype.   *)
(* The macros of types/th/src/bindings.dsl.h make them a C program, which  *)
(* collects members in one static table, bc_fielddata, and at stoptype     *)
(* prints a Storable instance from it.  The second half of this module     *)
(* runs that instance: poke writes member after member at the printed      *)
(* offsets, as many bytes as the Haskell type of the member has.           *)
(*                                                                         *)
(* The macros for unions and flexible array members are left out: no       *)
(* header here has any.                                                    *)
(***************************************************************************)
EXTENDS Integers, Sequences

CONSTANTS
  Headers,    \* the headers, each a sequence of struct declarations
  Capacity,   \* the number of rows of bc_fielddata
  Committed   \* per struct, the instance in the repository's Structs.hs

\* A member has size bytes in C, all elements of an array together, and hs bytes
\* per element in Haskell.
Member == [size : Nat, align : Nat \ {0}, array : BOOLEAN, hs : Nat \ {0}]

Declaration == [name : STRING, members : Seq(Member)]

\* A scalar fills its member, and an array is a number of elements.
Matches(m) ==
  /\ m.array => m.size > 0 /\ m.size % m.hs = 0
  /\ ~m.array => m.size = m.hs

\* The header's placeholder for cudaStream_t is empty, but
\* Torch.Types.THC.Internal makes it a pointer.
Mismatched == {"THCStream"}

ASSUME HeadersOK ==
  /\ Headers \subseteq Seq(Declaration) /\ \A h \in Headers : h # <<>>
  /\ \A h \in Headers : \A i \in 1 .. Len(h) :
       /\ Len(h[i].members) <= Capacity
       /\ \A j \in 1 .. Len(h[i].members) :
            h[i].name \notin Mismatched => Matches(h[i].members[j])

ASSUME CapacityOK == Capacity \in Nat

VARIABLES
  header,         \* the header that the program was made from
  struct,         \* the position of the current struct in it
  pc,             \* where the program is
  k,              \* the position of the next member
  size,           \* C's layout of the members so far: bytes,
  align,          \*   and the strictest alignment
  bc_fielddata,   \* the table: n, and rows that earlier structs may have left
  instance,       \* the Storable instance printed last
  given,          \* the lists that poke gets for arrays: too short, right, too long
  mem             \* per member of the struct in memory, what is there

vars == <<header, struct, pc, k, size, align, bc_fielddata, instance, given, mem>>

Row == [offset : Nat, array_size : Nat, ftype : Nat \ {0}]

Given   == {"short", "exact", "long"}
Content == {"old", "new", "partly", "spoilt"}

NoInstance == [rows |-> <<>>, sizeOf |-> 0, alignment |-> 1]

Members == header[struct].members

Init ==
  /\ header \in Headers
  /\ struct = 1 /\ pc = "start" /\ k = 1
  /\ size = 0 /\ align = 1
  /\ bc_fielddata = [n |-> 0, row |-> <<>>]
  /\ instance = NoInstance
  /\ given = "exact" /\ mem = <<>>

-----------------------------------------------------------------------------
(***************************************************************************)
(* The generator.  C computes the layout of the whole struct; here it      *)
(* advances with the members.                                              *)
(***************************************************************************)

\* Bytes of padding that take the position to a multiple of a.
\* Seeded fault: the struct is packed.
PaddingNone(position, a) == {0}

Padding(position, a) == {pad \in 0 .. a - 1 : (position + pad) % a = 0}

\* Seeded fault: the table is not reset.
starttypeNoReset ==
  /\ pc = "start"
  /\ bc_fielddata' = bc_fielddata
  /\ size' = 0 /\ align' = 1 /\ k' = 1
  /\ pc' = "fields"
  /\ UNCHANGED <<header, struct, instance, given, mem>>

starttype ==
  /\ pc = "start"
  /\ bc_fielddata' = [bc_fielddata EXCEPT !.n = 0]
  /\ size' = 0 /\ align' = 1 /\ k' = 1
  /\ pc' = "fields"
  /\ UNCHANGED <<header, struct, instance, given, mem>>

\* A row is overwritten or added.
PutRow(rows, i, row) ==
  IF i <= Len(rows) THEN [rows EXCEPT ![i] = row] ELSE Append(rows, row)

\* The offset of a member: its address less that of the struct.
\* Seeded fault: the other way round.
OffsetSwapped(pad) == -(size + pad)

Offset(pad) == size + pad

\* The next member of the struct, at its offset; array_size is set for arrays only.
\* Seeded fault: array_size is set for arrays, and left alone for others.
bc_basicfieldStale(array_size) ==
  LET n == bc_fielddata.n + 1
      m == Members[k]
      stale == IF ~m.array /\ n <= Len(bc_fielddata.row)
               THEN bc_fielddata.row[n].array_size ELSE array_size
  IN  \E pad \in Padding(size, m.align) :
        /\ bc_fielddata' =
             [n   |-> n,
              row |-> PutRow(bc_fielddata.row, n, [offset |-> Offset(pad),
                                                   array_size |-> stale,
                                                   ftype |-> m.hs])]
        /\ size' = size + pad + m.size
        /\ align' = IF m.align > align THEN m.align ELSE align

bc_basicfield(array_size) ==
  LET n == bc_fielddata.n + 1
      m == Members[k]
  IN  \E pad \in Padding(size, m.align) :
        /\ bc_fielddata' =
             [n   |-> n,
              row |-> PutRow(bc_fielddata.row, n, [offset |-> Offset(pad),
                                                   array_size |-> array_size,
                                                   ftype |-> m.hs])]
        /\ size' = size + pad + m.size
        /\ align' = IF m.align > align THEN m.align ELSE align

field ==
  /\ pc = "fields" /\ k <= Len(Members) /\ ~Members[k].array
  /\ bc_basicfield(0)
  /\ k' = k + 1
  /\ UNCHANGED <<header, struct, pc, instance, given, mem>>

array_field ==
  /\ pc = "fields" /\ k <= Len(Members) /\ Members[k].array
  /\ bc_basicfield(Members[k].size)
  /\ k' = k + 1
  /\ UNCHANGED <<header, struct, pc, instance, given, mem>>

\* The instance is printed; its size is padded to the alignment of the struct.
stoptype ==
  /\ pc = "fields" /\ k > Len(Members)
  /\ \E pad \in Padding(size, align) :
       instance' = [rows |-> SubSeq(bc_fielddata.row, 1, bc_fielddata.n),
                    sizeOf |-> size + pad, alignment |-> align]
  /\ pc' = "printed"
  /\ UNCHANGED <<header, struct, k, size, align, bc_fielddata, given, mem>>

-----------------------------------------------------------------------------
(***************************************************************************)
(* The instance.                                                           *)
(***************************************************************************)

\* The bytes of the elements that fit into an array, or of a scalar.
Bytes(row) ==
  IF row.array_size > 0 THEN row.array_size - (row.array_size % row.ftype) ELSE row.ftype

\* How many of them poke writes: it takes no more elements than fit, and a list
\* that is too short (here by one) leaves the rest alone.
\* Seeded fault: all of the list is written.
WrittenAll(row) ==
  IF row.array_size = 0 \/ given = "exact" THEN Bytes(row)
  ELSE IF given = "short" THEN Bytes(row) - row.ftype ELSE Bytes(row) + row.ftype

Written(row) ==
  IF row.array_size > 0 /\ given = "short" THEN Bytes(row) - row.ftype ELSE Bytes(row)

\* Writing the row w changes what peek reads for the row r.
Hits(w, r) ==
  /\ Written(w) > 0
  /\ w.offset < r.offset + Bytes(r)
  /\ r.offset < w.offset + Written(w)

poke ==
  /\ pc = "printed"
  /\ given' \in Given
  /\ mem' = [i \in 1 .. Len(instance.rows) |-> "old"]
  /\ k' = 1
  /\ pc' = "poke"
  /\ UNCHANGED <<header, struct, size, align, bc_fielddata, instance>>

Poked(row) == IF row.array_size > 0 /\ given = "short" THEN "partly" ELSE "new"

pokeByteOff ==
  /\ pc = "poke" /\ k <= Len(instance.rows)
  /\ LET w == instance.rows[k]
     IN  mem' = [i \in 1 .. Len(instance.rows) |->
                   IF i = k THEN Poked(w)
                   ELSE IF Hits(w, instance.rows[i]) THEN "spoilt" ELSE mem[i]]
  /\ k' = k + 1
  /\ UNCHANGED <<header, struct, pc, size, align, bc_fielddata, instance, given>>

\* The next struct of the header has its turn: c2hsc prints the macros in that order.
nextStruct ==
  /\ pc = "poke" /\ k > Len(instance.rows) /\ struct < Len(header)
  /\ struct' = struct + 1
  /\ pc' = "start"
  /\ UNCHANGED <<header, k, size, align, bc_fielddata, instance, given, mem>>

Next ==
  \/ starttype \/ field \/ array_field \/ stoptype
  \/ poke \/ pokeByteOff \/ nextStruct

Spec == Init /\ [][Next]_vars

-----------------------------------------------------------------------------
(***************************************************************************)
(* Properties.                                                             *)
(***************************************************************************)
Instance == [rows : Seq(Row), sizeOf : Nat, alignment : Nat \ {0}]

\* The variables have their types.
TypeOK ==
  /\ header \in Headers /\ struct \in 1 .. Len(header)
  /\ pc \in {"start", "fields", "printed", "poke"}
  /\ k \in Nat \ {0} /\ size \in Nat /\ align \in Nat \ {0}
  /\ bc_fielddata \in [n : Nat, row : Seq(Row)]
  /\ bc_fielddata.n <= Len(bc_fielddata.row) /\ bc_fielddata.n <= Capacity
  /\ instance \in Instance
  /\ given \in Given
  /\ mem \in Seq(Content)

\* The rows in use are those of the current struct, none of an earlier one, and
\* only arrays have an array_size: else the instance has other fields than C.
OwnRows ==
  pc = "fields" =>
    /\ bc_fielddata.n = k - 1
    /\ \A i \in 1 .. k - 1 :
         LET row == bc_fielddata.row[i]
         IN  /\ row.array_size = IF Members[i].array THEN Members[i].size ELSE 0
             /\ row.ftype = Members[i].hs

\* at is the first multiple of a that is not before from.
FirstMultiple(at, from, a) == at % a = 0 /\ from <= at /\ at < from + a

\* The byte behind the first i members.
EndOf(offsets, members, i) == IF i = 0 THEN 0 ELSE offsets[i] + members[i].size

\* The first n members, each at the first aligned byte behind the one before it,
Close(offsets, members, n) ==
  \A i \in 1 .. n : FirstMultiple(offsets[i], EndOf(offsets, members, i - 1), members[i].align)

\* and the strictest of their alignments.
Strictest(a, members, n) ==
  /\ \A i \in 1 .. n : members[i].align <= a
  /\ a = 1 \/ \E i \in 1 .. n : members[i].align = a

\* The layout that C's rules ask for.
LaidOut(layout, members) ==
  LET n == Len(members)
  IN  /\ Len(layout.offsets) = n /\ Close(layout.offsets, members, n)
      /\ Strictest(layout.alignment, members, n)
      /\ FirstMultiple(layout.sizeOf, EndOf(layout.offsets, members, n), layout.alignment)

\* What the printed instance says of the layout.
Shown == [offsets   |-> [i \in 1 .. Len(instance.rows) |-> instance.rows[i].offset],
          sizeOf    |-> instance.sizeOf,
          alignment |-> instance.alignment]

\* The printed instance is laid out as C's rules ask, with no more padding than that
\* takes; no two of its members, not only neighbours, overlap, and all end inside.
WellLaidOut ==
  pc \in {"printed", "poke"} =>
    /\ LaidOut(Shown, Members)
    /\ \A i \in 1 .. Len(Members) :
         /\ instance.rows[i].offset + Members[i].size <= instance.sizeOf
         /\ \A j \in 1 .. i - 1 :
              instance.rows[j].offset + Members[j].size <= instance.rows[i].offset

Exact == header[struct].name \notin Mismatched

\* Whatever lists it is given, poke writes inside the struct only.
InBounds ==
  pc = "poke" /\ Exact =>
    \A i \in 1 .. Len(instance.rows) :
      instance.rows[i].offset + Written(instance.rows[i]) <= instance.sizeOf

\* poke changes every member in its turn and never another one: a peek after it
\* gives back what was poked, but for the ends of lists that were too short.
RoundTrip ==
  pc = "poke" /\ Exact =>
    \A i \in 1 .. Len(instance.rows) :
      mem[i] = IF i < k THEN Poked(instance.rows[i]) ELSE "old"

\* The instances in the repository, which were made by hand at some time, are
\* those that its headers give now.
UpToDate == pc = "printed" => Committed[header[struct].name] = Shown
=============================================================================
