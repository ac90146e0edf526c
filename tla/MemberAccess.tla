----------------------------- MODULE MemberAccess -----------------------------
(***************************************************************************)
(* Reading and writing a member of the struct that StructLayout laid out:   *)
(* the instructions of gen_expr() for ND_MEMBER and for ND_ASSIGN to a      *)
(* bit-field, on registers of 64 bits and the bits of the memory.           *)
(*                                                                         *)
(* A bit is what it was: <<"old", p>> the bit at position p of the object   *)
(* before, <<"new", k>> bit k of the value to be stored, or Zero.           *)
(***************************************************************************)
EXTENDS StructLayout

\* The scalars are what one instruction loads.  Alignments are powers of two, so
\* that of two of them one divides the other, and a bit-field is aligned at least as
\* its type is: C demands both (6.2.8, 6.7.5), the code checks neither.
AllAlignments == {1} \cup Alignments \cup {MemAlign(m) : m \in Members}
                    \cup {m.ty.base.align : m \in {k \in Members : IsFlexible(k) /\ k.alignas = 0}}

ASSUME ScalarsAssumption ==
  \A m \in Members : m.ty.kind = "scalar" =>
    m.ty.size \in {1, 2, 4, 8} /\ m.ty.unsigned \in BOOLEAN
ASSUME PowersAssumption ==
  /\ \A a, b \in AllAlignments : a <= b => b % a = 0
  /\ \A m \in Members : m.bitfield => MemAlign(m) % m.ty.size = 0

Zero == <<"zero">>
Old == [p \in 0 .. 8 * size + 63 |-> <<"old", p>>]
New == [k \in 0 .. 63 |-> <<"new", k>>]

Register == 0 .. 63

-----------------------------------------------------------------------------
(* Instructions *)

\* lb, lh, lw, ld and their unsigned forms.
Load(mem, address, bytes, unsigned) ==
  [k \in Register |-> IF k < 8 * bytes THEN mem[8 * address + k]
                      ELSE IF unsigned THEN Zero ELSE mem[8 * address + 8 * bytes - 1]]

\* sb, sh, sw, sd
Store(mem, address, bytes, reg) ==
  [p \in DOMAIN mem |-> IF p - 8 * address \in 0 .. 8 * bytes - 1
                        THEN reg[p - 8 * address] ELSE mem[p]]

slli(reg, n) == [k \in Register |-> IF k < n THEN Zero ELSE reg[k - n]]
srli(reg, n) == [k \in Register |-> IF k + n > 63 THEN Zero ELSE reg[k + n]]
srai(reg, n) == [k \in Register |-> IF k + n > 63 THEN reg[63] ELSE reg[k + n]]

\* and with a constant, given by the positions of its ones.
And(reg, ones) == [k \in Register |-> IF k \in ones THEN reg[k] ELSE Zero]

\* or: a bit is lost where neither register has a zero.
Or(r1, r2) == [k \in Register |-> IF r1[k] = Zero THEN r2[k]
                                  ELSE IF r2[k] = Zero THEN r1[k] ELSE <<"lost">>]

\* (1L << width) - 1: a shift by 64 shifts by 0, and the mask is empty.
Mask(width) == 0 .. (width % 64) - 1

Shifted(ones, n) == {k + n : k \in ones} \cap Register

-----------------------------------------------------------------------------
(* The generated code *)

\* A slot is where a value lives: offset, bitfield, width, bit_offset.
Slot(i) == [offset |-> places[i].offset, bitfield |-> members[i].bitfield,
            width |-> members[i].width, bit_offset |-> places[i].bit_offset]

\* load(): the unit of a bit-field, or the member itself.
LoadUnit(mem, slot, ty) == Load(mem, slot.offset, ty.size, ty.unsigned)

\* ND_MEMBER: a bit-field is shifted to the upper end of the register and back.
ReadMember(mem, slot, ty) ==
  LET up == slli(LoadUnit(mem, slot, ty), 64 - slot.width - slot.bit_offset)
  IN  IF ~slot.bitfield THEN LoadUnit(mem, slot, ty)
      ELSE IF ty.unsigned THEN srli(up, 64 - slot.width) ELSE srai(up, 64 - slot.width)

\* A mutant: the value is not masked before it is shifted.
FaultyMerged(mem, slot, ty, value) ==
  LET t0   == slli(value, slot.bit_offset)
      ones == Shifted(Mask(slot.width), slot.bit_offset)
  IN  Or(And(LoadUnit(mem, slot, ty), Register \ ones), t0)

\* ND_ASSIGN: a bit-field is merged into the unit it shares with its neighbours.
Merged(mem, slot, ty, value) ==
  LET t0   == slli(And(value, Mask(slot.width)), slot.bit_offset)
      ones == Shifted(Mask(slot.width), slot.bit_offset)
  IN  Or(And(LoadUnit(mem, slot, ty), Register \ ones), t0)

WriteMember(mem, slot, ty, value) ==
  Store(mem, slot.offset, ty.size,
        IF slot.bitfield THEN Merged(mem, slot, ty, value) ELSE value)

-----------------------------------------------------------------------------
(* Properties *)

\* The members a program can read and write as one value.
Scalars == {i \in 1 .. Len(members) : members[i].ty.kind = "scalar" /\ ~ZeroWidth(members[i])}

\* `value` in the type of the member.
Converted(value, m) ==
  [k \in Register |-> IF k < Extent(m) THEN value[k]
                      ELSE IF m.ty.unsigned THEN Zero ELSE value[Extent(m) - 1]]

\* The bits of a member, apart from the code that fetches them.
Value(mem, i) == Converted([k \in Register |-> mem[(Start(i) + k) % (8 * size + 64)]], members[i])

\* A bit-field as wide as a register is masked away (the mask is shifted out).
FullWidth(m) == m.bitfield /\ m.width = 64

\* After a value has been written to a member of a struct, reading that member
\* yields the value, reading any other yields what it held before; no write
\* touches more than the object, unless it is packed.  In a union a member yields the value
\* that was written to it.  Bit-fields of 64 bits and Mixed structs are excepted.
MembersIndependent ==
  phase = "done" /\ ~Mixed =>
    \A i \in {k \in Scalars : ~FullWidth(members[k])} :
      LET after == WriteMember(Old, Slot(i), members[i].ty, New)
          Read(j) == ReadMember(after, Slot(j), members[j].ty)
      IN  /\ Read(i) = Converted(New, members[i])
          /\ kind = "struct" => \A j \in Scalars \ {i} : Read(j) = Value(Old, j)
          /\ ~packed => places[i].offset + members[i].ty.size <= size
=============================================================================
