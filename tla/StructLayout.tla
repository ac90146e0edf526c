----------------------------- MODULE StructLayout -----------------------------
(***************************************************************************)
(* The declaration of a struct or union: struct_members() and               *)
(* attribute_list() read it, and then the loop of struct_decl() or          *)
(* union_decl() gives every member its place.                               *)
(*                                                                         *)
(* bits is the position up to which the struct is filled.  A bit-field      *)
(* lives in a unit, an object of its declared type, at `offset`, and        *)
(* begins bit_offset bits into it; gen_expr() reads and writes the unit.    *)
(***************************************************************************)
EXTENDS Integers, Sequences

CONSTANTS Members,     \* the members a declaration can have
          Alignments,  \* the arguments of __attribute__((aligned()))
          Kinds,       \* "struct", "union"
          Names        \* what the members are called, in their order;
                       \* bound: the members of one struct

\* A member: its type, the argument of _Alignas or 0, and whether it is a
\* bit-field of that width.  Only an array without a length has a negative size,
\* and only integers have bit-fields, not wider than themselves.
IsFlexible(m) == m.ty.kind = "array" /\ m.ty.len < 0

IsMember(m) ==
  /\ m.ty.size \in Int /\ m.ty.align \in Nat \ {0}
  /\ ~IsFlexible(m) => m.ty.size \in Nat
  /\ m.alignas \in Nat /\ m.bitfield \in BOOLEAN /\ m.width \in Nat
  /\ m.bitfield => /\ m.ty.kind = "scalar" /\ m.ty.size \in Nat \ {0}
                   /\ m.width <= 8 * m.ty.size
  /\ IsFlexible(m) => m.ty.base.align \in Nat \ {0}

ASSUME MembersAssumption == \A m \in Members : IsMember(m)
ASSUME AlignmentsAssumption == Alignments \subseteq Nat \ {0}
ASSUME KindsAssumption == Kinds \subseteq {"struct", "union"}
ASSUME NamesAssumption == Names \in Seq(STRING)

VARIABLES
  kind,      \* TY_STRUCT or TY_UNION
  phase,     \* "head", "members", "tail", "place", "done" and, when the program
             \* goes on to use the type, "used"
  members,   \* the declaration
  packed,    \* ty->is_packed
  flexible,  \* ty->is_flexible
  align,     \* ty->align
  bits,      \* the local variable of struct_decl()
  places,    \* offset and bit_offset of the members placed so far
  size       \* ty->size

vars == <<kind, phase, members, packed, flexible, align, bits, places, size>>

-----------------------------------------------------------------------------
(* Helpers of struct_decl() *)

align_to(n, to) == ((n + to - 1) \div to) * to

align_down(n, to) == align_to(n - to + 1, to)

Larger(m, n) == IF m < n THEN n ELSE m

\* mem->align: _Alignas replaces the alignment of the type.
MemAlign(m) == IF m.alignas # 0 THEN m.alignas ELSE m.ty.align

UnitBits(m) == 8 * m.ty.size

\* The member the loop is at.
This == members[Len(places) + 1]

Place(offset, bit_offset) == [offset |-> offset, bit_offset |-> bit_offset]

-----------------------------------------------------------------------------
(* The declaration: attributes "{" members "}" attributes *)

Init ==
  /\ kind \in Kinds
  /\ phase = "head" /\ members = <<>>
  /\ packed = FALSE /\ flexible = FALSE /\ align = 1
  /\ bits = 0 /\ places = <<>> /\ size = 0

\* attribute_list(), in front of the members and behind them: packed.
Pack ==
  /\ phase \in {"head", "tail"} /\ ~packed
  /\ packed' = TRUE
  /\ UNCHANGED <<kind, phase, members, flexible, align, bits, places, size>>

\* attribute_list(): aligned(n).  The last one counts.
Aligned ==
  /\ phase \in {"head", "tail"}
  /\ align' \in Alignments
  /\ UNCHANGED <<kind, phase, members, packed, flexible, bits, places, size>>

OpenBrace ==
  /\ phase = "head"
  /\ phase' = "members"
  /\ UNCHANGED <<kind, members, packed, flexible, align, bits, places, size>>

\* A struct or union without a name is anonymous, an int : 0 needs none.
Named(m, name) ==
  [name |-> IF m.name = "" THEN "" ELSE name, ty |-> m.ty, alignas |-> m.alignas,
   bitfield |-> m.bitfield, width |-> m.width]

\* One round of struct_members().  An array without a length comes last.
AddMember ==
  /\ phase = "members" /\ Len(members) < Len(Names)
  /\ members # <<>> => ~IsFlexible(members[Len(members)])
  /\ \E m \in Members : members' = Append(members, Named(m, Names[Len(members) + 1]))
  /\ UNCHANGED <<kind, phase, packed, flexible, align, bits, places, size>>

\* array_of(base, 0)
NoElements(m) ==
  [name |-> m.name, alignas |-> m.alignas, bitfield |-> m.bitfield, width |-> m.width,
   ty |-> [kind |-> "array", base |-> m.ty.base, len |-> 0, size |-> 0,
           align |-> m.ty.base.align]]

\* The end of struct_members(): a flexible array takes no room.
CloseBrace ==
  /\ phase = "members"
  /\ phase' = "tail"
  /\ members' = [i \in 1 .. Len(members) |->
                   IF IsFlexible(members[i]) THEN NoElements(members[i]) ELSE members[i]]
  /\ flexible' = \E i \in 1 .. Len(members) : IsFlexible(members[i])
  /\ UNCHANGED <<kind, packed, align, bits, places, size>>

\* The end of struct_union_decl().
EndAttributes ==
  /\ phase = "tail"
  /\ phase' = "place"
  /\ UNCHANGED <<kind, members, packed, flexible, align, bits, places, size>>

-----------------------------------------------------------------------------
(* The loop of struct_decl() *)

Placing(k) == phase = "place" /\ kind = k /\ Len(places) < Len(members)

\* The end of every round: the alignment of the struct is that of its strictest
\* member, unless it is packed.
RaiseAlign == align' = IF packed THEN align ELSE Larger(align, MemAlign(This))

\* int : 0 only closes the unit.
PlaceZeroWidth ==
  /\ Placing("struct") /\ This.bitfield /\ This.width = 0
  /\ bits' = align_to(bits, UnitBits(This))
  /\ places' = Append(places, Place(0, 0))
  /\ RaiseAlign
  /\ UNCHANGED <<kind, phase, members, packed, flexible, size>>

\* A mutant: a field that would end with its unit begins a new one.
FaultyFieldStart(m) ==
  IF bits \div UnitBits(m) # (bits + m.width) \div UnitBits(m)
  THEN align_to(bits, UnitBits(m)) ELSE bits

\* Where a bit-field begins: here, if it ends in the unit that begins it.
FieldStart(m) ==
  IF bits \div UnitBits(m) # (bits + m.width - 1) \div UnitBits(m)
  THEN align_to(bits, UnitBits(m)) ELSE bits

\* A mutant: what the new unit leaves behind is not counted.
FaultyPlaceBitField ==
  /\ Placing("struct") /\ This.bitfield /\ This.width # 0
  /\ LET start == FieldStart(This)
     IN  /\ places' = Append(places, Place(align_down(start \div 8, This.ty.size),
                                           start % UnitBits(This)))
         /\ bits' = bits + This.width
  /\ RaiseAlign
  /\ UNCHANGED <<kind, phase, members, packed, flexible, size>>

PlaceBitField ==
  /\ Placing("struct") /\ This.bitfield /\ This.width # 0
  /\ LET start == FieldStart(This)
     IN  /\ places' = Append(places, Place(align_down(start \div 8, This.ty.size),
                                           start % UnitBits(This)))
         /\ bits' = start + This.width
  /\ RaiseAlign
  /\ UNCHANGED <<kind, phase, members, packed, flexible, size>>

OrdinaryStart(m) == IF packed THEN bits ELSE align_to(bits, 8 * MemAlign(m))

PlaceOrdinary ==
  /\ Placing("struct") /\ ~This.bitfield
  /\ places' = Append(places, Place(OrdinaryStart(This) \div 8, 0))
  /\ bits' = OrdinaryStart(This) + 8 * This.ty.size
  /\ RaiseAlign
  /\ UNCHANGED <<kind, phase, members, packed, flexible, size>>

EndStruct ==
  /\ phase = "place" /\ kind = "struct" /\ Len(places) = Len(members)
  /\ size' = align_to(bits, 8 * align) \div 8
  /\ phase' = "done"
  /\ UNCHANGED <<kind, members, packed, flexible, align, bits, places>>

-----------------------------------------------------------------------------
(* The loop of union_decl(): everything is at offset 0 *)

PlaceInUnion ==
  /\ Placing("union")
  /\ places' = Append(places, Place(0, 0))
  /\ align' = Larger(align, MemAlign(This))
  /\ size' = Larger(size, This.ty.size)
  /\ UNCHANGED <<kind, phase, members, packed, flexible, bits>>

EndUnion ==
  /\ phase = "place" /\ kind = "union" /\ Len(places) = Len(members)
  /\ size' = align_to(size, align)
  /\ phase' = "done"
  /\ UNCHANGED <<kind, members, packed, flexible, align, bits, places>>

Next ==
  \/ Pack \/ Aligned \/ OpenBrace \/ AddMember \/ CloseBrace \/ EndAttributes
  \/ PlaceZeroWidth \/ PlaceBitField \/ PlaceOrdinary \/ EndStruct
  \/ PlaceInUnion \/ EndUnion

Spec == Init /\ [][Next]_vars

-----------------------------------------------------------------------------
(* Properties *)

\* Where the i-th member begins and how many bits it has.
Start(i) == 8 * places[i].offset + places[i].bit_offset
Extent(m) == IF m.bitfield THEN m.width ELSE 8 * m.ty.size
End(i) == Start(i) + Extent(members[i])
ZeroWidth(m) == m.bitfield /\ m.width = 0

TypeOK ==
  /\ kind \in Kinds
  /\ phase \in {"head", "members", "tail", "place", "done", "used"}
  /\ \A i \in 1 .. Len(members) : IsMember(members[i])
  /\ packed \in BOOLEAN /\ flexible \in BOOLEAN /\ align \in Nat \ {0}
  /\ bits \in Nat /\ size \in Nat
  /\ places \in Seq([offset : Nat, bit_offset : Nat]) /\ Len(places) <= Len(members)

\* A packed struct continues behind a bit-field in the middle of a byte, and the
\* offset of an ordinary member there is rounded down into the bit-field.
Mixed == packed /\ \E i \in 1 .. Len(members) : members[i].bitfield

\* The loop of struct_decl() never gives two members the same bit, puts no
\* bit-field across the end of the unit that is loaded and stored for it, and the
\* struct ends behind its last member, unless it is Mixed.
MembersDisjoint ==
  kind = "struct" /\ ~Mixed =>
    /\ \A j \in 1 .. Len(places) : ~ZeroWidth(members[j]) =>
         /\ End(j) <= bits
         /\ members[j].bitfield => places[j].bit_offset + members[j].width <= UnitBits(members[j])
         /\ \A i \in 1 .. j - 1 : ~ZeroWidth(members[i]) => End(i) <= Start(j)
    /\ phase \in {"done", "used"} => bits <= 8 * size

\* What the psABI lays down, without a loop: the position up to which the
\* members in front of the i-th fill the struct, where that member may begin, and
\* that it begins at the first such place, one of any Unit(m) positions in a row.
Least(S) == CHOOSE n \in S : \A k \in S : n <= k
Unit(m) == IF m.bitfield THEN UnitBits(m) ELSE 8 * MemAlign(m)
MayBegin(m, p) ==
  IF m.bitfield THEN p \div UnitBits(m) = (p + m.width - 1) \div UnitBits(m)
                ELSE p % (8 * MemAlign(m)) = 0
FirstMultiple(n, unit) == Least({p \in n .. n + unit - 1 : p % unit = 0})
FirstPlace(n, m) == Least({p \in n .. n + Unit(m) - 1 : MayBegin(m, p)})
FilledBefore(i) ==
  LET filled[j \in 1 .. Len(members) + 1] ==
        IF j = 1 THEN 0
        ELSE IF ZeroWidth(members[j - 1])
             THEN FirstMultiple(filled[j - 1], UnitBits(members[j - 1]))
             ELSE End(j - 1)
  IN  filled[i]
StrictestAlign == {1} \cup {MemAlign(members[i]) : i \in 1 .. Len(members)}

\* A struct that is not packed is laid out as the psABI wants it: every member
\* at the first place where it may begin, the end of the struct at the first
\* multiple of its alignment, which is at least that of every member.
LayoutIsABI ==
  phase = "done" /\ kind = "struct" /\ ~packed =>
    /\ \A i \in 1 .. Len(members) : ~ZeroWidth(members[i]) =>
         Start(i) = FirstPlace(FilledBefore(i), members[i])
    /\ \A n \in StrictestAlign : align >= n
    /\ 8 * size = FirstMultiple(FilledBefore(Len(members) + 1), 8 * align)
=============================================================================
