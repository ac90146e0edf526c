------------------------------ MODULE Initializer ------------------------------
(***************************************************************************)
(* Initializers: the recursive descent of initializer2() and the functions  *)
(* around it over the tokens of an initializer, which notes for every       *)
(* scalar of the object the token that gives its value, and then the two    *)
(* ways to store them: assignments, for a local variable, or the bytes of   *)
(* .data, for a global one.                                                 *)
(*                                                                         *)
(* The object is of the struct or union that StructLayout laid out, or an   *)
(* array of it.  A scalar is named by its path, the sequence of array       *)
(* indices and member numbers from the object to it, the number of a union  *)
(* member being negative.  The struct Initializer is the record             *)
(*   val   what init->expr is, for the paths where it is set;               *)
(*   mem   init->mem of the unions for which it is set;                     *)
(*   len   the lengths of the arrays that were declared without one, as     *)
(*         soon as their elements have been counted,                        *)
(* and with it go tok, the place the parser is at, and err: it has called   *)
(* error_tok().                                                             *)
(***************************************************************************)
EXTENDS MemberAccess, SequencesExt, TLC

CONSTANTS Tokens(_),  \* the tokens an initializer of a type is written with
          MaxTokens,  \* bound: their number
          Shapes,     \* "one", "array", "open": what is declared of the struct
          ArrayLen    \* bound: the length of an "array"

VARIABLES
  source,  \* the initializer as far as it has been written
  shape,   \* of the object
  init,    \* what initializer() makes of it
  image    \* the object, bit by bit, as a local and as a global variable

initVars == <<source, shape, init, image>>

Nothing == [tok |-> 0]

StructTy == [kind |-> kind, size |-> size, align |-> align, flexible |-> flexible,
             members |-> [i \in 1 .. Len(members) |->
                            [name |-> members[i].name, ty |-> members[i].ty,
                             bitfield |-> members[i].bitfield, width |-> members[i].width,
                             offset |-> places[i].offset, bit_offset |-> places[i].bit_offset]]]

\* array_of()
ArrayOf(base, len) == [kind |-> "array", base |-> base, len |-> len,
                       size |-> base.size * len, align |-> base.align]

ObjectOf(s) == CASE s = "one"   -> StructTy
                 [] s = "array" -> ArrayOf(StructTy, ArrayLen)
                 [] s = "open"  -> ArrayOf(StructTy, -1)
                 [] OTHER       -> Nothing
Object == ObjectOf(shape)

-----------------------------------------------------------------------------
(* Tokens *)

At(S) == IF S.tok <= Len(source) THEN source[S.tok] ELSE [t |-> "eof"]
Is(S, c) == At(S).t = c
Advance(S) == [S EXCEPT !.tok = @ + 1]
Fail(S) == [S EXCEPT !.err = TRUE]
Skip(S, c) == IF Is(S, c) THEN Advance(S) ELSE Fail(S)

\* is_end() and consume_end(): "}" or ",}"
AtEnd(S) == Is(S, "}") \/ (Is(S, ",") /\ Is(Advance(S), "}"))
PastEnd(S) == IF Is(S, "}") THEN Advance(S) ELSE Advance(Advance(S))

\* assign(): the values are constants and strings.
AtValue(S) == At(S).t \in {"v", "s"}

-----------------------------------------------------------------------------
(* struct Initializer *)

Put(f, x, y) == (x :> y) @@ f

\* init->expr = assign(rest, tok)
Assign(S, path) ==
  IF AtValue(S) THEN Advance([S EXCEPT !.val = Put(S.val, path, <<S.tok, 0>>)]) ELSE Fail(S)

\* The number of a member in a path, and the path of a member or an element.
Number(ty, k) == IF ty.kind = "union" THEN -k ELSE k
Child(path, i) == Append(path, i)

\* init->is_flexible, which new_initializer() sets: the object itself, or the
\* last member of the struct it is.
Flexible(S, path, ty) ==
  /\ path \notin DOMAIN S.len
  /\ \/ path = <<>> /\ ty.len < 0
     \/ /\ Object.kind # "array" /\ Object.flexible
        /\ path = <<Number(Object, Len(Object.members))>>

\* init->ty->array_len
Count(S, path, ty) == IF path \in DOMAIN S.len THEN S.len[path] ELSE ty.len

-----------------------------------------------------------------------------
(* Designators *)

RECURSIVE HasMember(_, _)
\* get_struct_member()
HasMember(ty, name) ==
  \E k \in DOMAIN ty.members :
    LET m == ty.members[k]
    IN  IF m.name = "" /\ m.ty.kind \in {"struct", "union"} THEN HasMember(m.ty, name)
        ELSE m.name = name

\* Where the loop of struct_designator() stops, 0 if it does not or reads the
\* name of a member that has none.
FoundMember(ty, name) ==
  LET Anonymous(m) == m.name = "" /\ m.ty.kind = "struct"
      Stops(m) == IF Anonymous(m) THEN HasMember(m.ty, name) ELSE m.name \in {name, ""}
      k == SelectInSeq(ty.members, Stops)
  IN  IF k = 0 THEN 0
      ELSE IF ty.members[k].name = "" /\ ~Anonymous(ty.members[k]) THEN 0 ELSE k

\* A mutant: the designator of a member of an anonymous struct is used up.
FaultyPastField(S, ty, k) == Advance(S)

\* The designator of a member of an anonymous struct is left for that struct.
PastField(S, ty, k) == IF ty.members[k].name = "" THEN S ELSE Advance(S)

-----------------------------------------------------------------------------
(* The recursive descent *)

RECURSIVE Initializer2(_, _, _), Designation(_, _, _), DesignateEach(_, _, _, _, _),
          CountElements(_, _, _, _, _, _), Elements1(_, _, _, _, _), Elements2(_, _, _, _),
          Members1(_, _, _, _, _), Members2(_, _, _, _, _), SkipExcess(_)

\* skip_excess_element()
SkipExcess(S) ==
  IF Is(S, "{") THEN Skip(SkipExcess(Advance(S)), "}")
  ELSE IF AtValue(S) THEN Advance(S) ELSE Fail(S)

\* The elements lo to hi, all from the same tokens.
DesignateEach(S, path, ty, lo, hi) ==
  LET after == Designation(S, Child(path, lo), ty.base)
  IN  IF after.err \/ lo = hi THEN after
      ELSE DesignateEach([after EXCEPT !.tok = S.tok], path, ty, lo + 1, hi)

\* count_array_init_elements(): one element takes all the values.
CountElements(S, path, ty, i, most, first) ==
  IF S.err \/ AtEnd(S) THEN [err |-> S.err, most |-> most]
  ELSE LET here  == IF first THEN S ELSE Skip(S, ",")
           at    == IF Is(here, "[") THEN At(here).hi ELSE i
           after == IF here.err THEN here
                    ELSE IF Is(here, "[")
                         THEN Designation(Advance(here), Child(path, 0), ty.base)
                         ELSE Initializer2(here, Child(path, 0), ty.base)
       IN  CountElements(after, path, ty, at + 1, Larger(most, at + 1), FALSE)

\* A mutant: the highest index instead of the number.
FaultyMeasured(S, path, ty) ==
  IF ~Flexible(S, path, ty) THEN S
  ELSE LET counted == CountElements(S, path, ty, 0, 0, TRUE)
       IN  [S EXCEPT !.len = Put(S.len, path, Larger(counted.most - 1, 0)), !.err = counted.err]

\* An array that still has no length gets the one its elements call for.
Measured(S, path, ty) ==
  IF ~Flexible(S, path, ty) THEN S
  ELSE LET counted == CountElements(S, path, ty, 0, 0, TRUE)
       IN  [S EXCEPT !.len = Put(S.len, path, counted.most), !.err = counted.err]

\* string_initializer(): character i of the string, as far as there is room.
StringInitializer(S, path, ty) ==
  LET n    == At(S).len
      room == IF Flexible(S, path, ty) THEN n ELSE Count(S, path, ty)
  IN  Advance([S EXCEPT
        !.len = IF Flexible(S, path, ty) THEN Put(S.len, path, n) ELSE S.len,
        !.val = [p \in {Child(path, i) : i \in 0 .. (IF n < room THEN n ELSE room) - 1}
                   |-> <<S.tok, p[Len(p)]>>] @@ S.val])

\* The loop of array_initializer1(), behind the "{".
Elements1(S, path, ty, i, first) ==
  IF S.err THEN S
  ELSE IF AtEnd(S) THEN PastEnd(S)
  ELSE LET here == IF first THEN S ELSE Skip(S, ",")
       IN  IF here.err THEN here
           ELSE IF Is(here, "[")
           THEN IF At(here).hi >= Count(S, path, ty) THEN Fail(here)
                ELSE Elements1(DesignateEach(Advance(here), path, ty, At(here).lo, At(here).hi),
                               path, ty, At(here).hi + 1, FALSE)
           ELSE Elements1(IF i < Count(S, path, ty)
                          THEN Initializer2(here, Child(path, i), ty.base)
                          ELSE SkipExcess(here),
                          path, ty, i + 1, FALSE)

\* The loop of array_initializer2(): no braces of its own.  It leaves an end,
\* and a designator with the comma in front of it, to the caller.
Elements2(S, path, ty, i) ==
  IF S.err \/ i >= Count(S, path, ty) \/ AtEnd(S) THEN S
  ELSE LET here == IF i > 0 THEN Skip(S, ",") ELSE S
       IN  IF here.err THEN here
           ELSE IF At(here).t \in {"[", "."} THEN S
           ELSE Elements2(Initializer2(here, Child(path, i), ty.base), path, ty, i + 1)

\* The loop of struct_initializer1(), behind the "{"; member k comes next.
Members1(S, path, ty, k, first) ==
  IF S.err THEN S
  ELSE IF AtEnd(S) THEN PastEnd(S)
  ELSE LET here  == IF first THEN S ELSE Skip(S, ",")
           found == IF Is(here, ".") THEN FoundMember(ty, At(here).name) ELSE k
       IN  IF here.err \/ found = 0 THEN Fail(here)
           ELSE Members1(IF Is(here, ".")
                         THEN Designation(PastField(here, ty, found), Child(path, found),
                                          ty.members[found].ty)
                         ELSE IF k <= Len(ty.members)
                         THEN Initializer2(here, Child(path, k), ty.members[k].ty)
                         ELSE SkipExcess(here),
                         path, ty, found + 1, FALSE)

\* The loop of struct_initializer2(): the first round expects no comma.
Members2(S, path, ty, k, first) ==
  IF S.err \/ k > Len(ty.members) \/ AtEnd(S) THEN S
  ELSE LET here == IF first THEN S ELSE Skip(S, ",")
       IN  IF here.err THEN here
           ELSE IF At(here).t \in {"[", "."} THEN S
           ELSE Members2(Initializer2(here, Child(path, k), ty.members[k].ty),
                         path, ty, k + 1, FALSE)

\* designation()
Designation(S, path, ty) ==
  IF S.err THEN S
  ELSE IF Is(S, "[")
  THEN IF ty.kind # "array" THEN Fail(S)
       ELSE IF At(S).hi >= Count(S, path, ty) THEN Fail(S)
       ELSE Elements2(DesignateEach(Advance(S), path, ty, At(S).lo, At(S).hi),
                      path, ty, At(S).hi + 1)
  ELSE IF Is(S, ".")
  THEN LET k == IF ty.kind \in {"struct", "union"} THEN FoundMember(ty, At(S).name) ELSE 0
       IN  IF k = 0 THEN Fail(S)
           ELSE IF ty.kind = "struct"
           THEN Members2(Designation(PastField(S, ty, k), Child(path, k), ty.members[k].ty),
                         path, ty, k + 1, TRUE)
           ELSE Designation([PastField(S, ty, k) EXCEPT !.mem = Put(S.mem, path, k)],
                            Child(path, -k), ty.members[k].ty)
  ELSE Initializer2(S, path, ty)

\* union_initializer(): one value, for the first member or the designated one.
UnionInitializer(S, path, ty) ==
  LET braces  == Is(S, "{")
      inside  == IF braces THEN Advance(S) ELSE S
      k       == FoundMember(ty, At(inside).name)
      Into(T, n) == [T EXCEPT !.mem = Put(S.mem, path, n)]
      first   == Initializer2(Into(inside, 1), Child(path, -1), ty.members[1].ty)
  IN  IF braces /\ Is(inside, ".")
      THEN IF k = 0 THEN Fail(S)
           ELSE Skip(Designation(Into(PastField(inside, ty, k), k), Child(path, -k),
                                 ty.members[k].ty), "}")
      ELSE IF ~braces THEN first
      ELSE Skip(IF Is(first, ",") THEN Advance(first) ELSE first, "}")

Initializer2(S, path, ty) ==
  IF S.err THEN S
  ELSE CASE ty.kind = "array" /\ Is(S, "s") -> StringInitializer(S, path, ty)
         [] ty.kind = "array" /\ ~Is(S, "s") ->
              IF Is(S, "{") THEN Elements1(Measured(Advance(S), path, ty), path, ty, 0, TRUE)
              ELSE Elements2(Measured(S, path, ty), path, ty, 0)
         [] ty.kind = "struct" ->
              IF Is(S, "{") THEN Members1(Advance(S), path, ty, 1, TRUE)
              ELSE IF AtValue(S) THEN Members2(S, path, ty, 1, TRUE) ELSE Fail(S)
         [] ty.kind = "union" -> UnionInitializer(S, path, ty)
         [] ty.kind = "scalar" ->
              IF Is(S, "{") THEN Skip(Initializer2(Advance(S), path, ty), "}")
              ELSE Assign(S, path)

NoInitializer == [tok |-> 1, err |-> FALSE, val |-> <<>>, mem |-> <<>>, len |-> <<>>]

\* initializer(), and the ";" the declaration expects behind it.
Parsed ==
  LET S == Initializer2(NoInitializer, <<>>, Object)
  IN  IF Is(S, "eof") THEN S ELSE Fail(S)
-----------------------------------------------------------------------------
(* Storing the values *)

Whole(offset) == [offset |-> offset, bitfield |-> FALSE, width |-> 0, bit_offset |-> 0]
SlotOf(m, offset) == [offset |-> offset + m.offset, bitfield |-> m.bitfield,
                      width |-> m.width, bit_offset |-> m.bit_offset]

\* The bits of the value a token stands for.
BitsOf(value) == [k \in Register |-> <<value, k>>]

ActiveMember(S, path) == IF path \in DOMAIN S.mem THEN S.mem[path] ELSE 1

RECURSIVE Assigned(_, _, _, _, _), Serialized(_, _, _, _, _)

\* create_lvar_init(): the assignments, in the order of the members.
Assigned(mem, S, path, ty, slot) ==
  LET Inside(m, k) == Assigned(m, S, Child(path, Number(ty, k)), ty.members[k].ty,
                               SlotOf(ty.members[k], slot.offset))
      Element(m, i) == Assigned(m, S, Child(path, i), ty.base, Whole(slot.offset + i * ty.base.size))
  IN  CASE ty.kind = "array"  -> FoldLeft(Element, mem, [n \in 1 .. Count(S, path, ty) |-> n - 1])
        [] ty.kind = "struct" -> FoldLeft(Inside, mem, [k \in DOMAIN ty.members |-> k])
        [] ty.kind = "union"  -> Inside(mem, ActiveMember(S, path))
        [] ty.kind = "scalar" -> IF path \in DOMAIN S.val
                                 THEN WriteMember(mem, slot, ty, BitsOf(S.val[path])) ELSE mem

\* A mutant: the unit is overwritten.
FaultyCombined(mem, slot, ty, value) ==
  Store(mem, slot.offset, ty.size, slli(And(value, Mask(slot.width)), slot.bit_offset))

\* write_gvar_data() combines a bit-field with what the buffer holds.
Combined(mem, slot, ty, value) ==
  Store(mem, slot.offset, ty.size,
        Or(LoadUnit(mem, slot, ty), slli(And(value, Mask(slot.width)), slot.bit_offset)))

\* write_gvar_data(): a bit-field without a value ends the loop over the members
\* of a struct; the member of a union is written as if it were no bit-field.
Serialized(mem, S, path, ty, slot) ==
  LET all  == [k \in DOMAIN ty.members |-> k]
      NoValue(k) == ty.members[k].bitfield /\ Child(path, k) \notin DOMAIN S.val
      stop == SelectInSeq(all, NoValue)
      Inside(m, k) == Serialized(m, S, Child(path, Number(ty, k)), ty.members[k].ty,
                                 SlotOf(ty.members[k], slot.offset))
      Element(m, i) == Serialized(m, S, Child(path, i), ty.base, Whole(slot.offset + i * ty.base.size))
  IN  CASE ty.kind = "array"  -> FoldLeft(Element, mem, [n \in 1 .. Count(S, path, ty) |-> n - 1])
        [] ty.kind = "struct" -> FoldLeft(Inside, mem, IF stop = 0 THEN all ELSE SubSeq(all, 1, stop - 1))
        [] ty.kind = "union"  -> IF path \notin DOMAIN S.mem THEN mem
                                 ELSE Serialized(mem, S, Child(path, -S.mem[path]),
                                                 ty.members[S.mem[path]].ty, Whole(slot.offset))
        [] ty.kind = "scalar" -> IF path \notin DOMAIN S.val THEN mem
                                 ELSE IF slot.bitfield
                                 THEN Combined(mem, slot, ty, BitsOf(S.val[path]))
                                 ELSE Store(mem, slot.offset, ty.size, BitsOf(S.val[path]))

\* initializer(): the size the object has in the end.
ObjectSize(S) ==
  IF Object.kind = "array" THEN Count(S, <<>>, Object) * Object.base.size
  ELSE IF ~Object.flexible THEN Object.size
  ELSE LET last == Len(Object.members)
       IN  Object.size + Count(S, <<Number(Object, last)>>, Object.members[last].ty)
                         * Object.members[last].ty.base.size

Filled(S, bit) == [p \in 0 .. 8 * ObjectSize(S) + 63 |-> bit]

-----------------------------------------------------------------------------
(* The declaration and its initializer *)

LayoutStep(A) == A /\ UNCHANGED initVars

InitializerInit ==
  /\ Init
  /\ source = <<>> /\ shape = "none" /\ init = Nothing /\ image = Nothing

\* declaration(): a variable of the struct, or an array of it.
DeclareObject ==
  /\ phase = "done" /\ shape = "none"
  /\ shape' \in {s \in Shapes : Tokens(ObjectOf(s)) # {}}
  /\ phase' = "used"
  /\ UNCHANGED <<kind, members, packed, flexible, align, bits, places, size, source, init, image>>

Depth == Cardinality({i \in DOMAIN source : source[i].t = "{"})
         - Cardinality({i \in DOMAIN source : source[i].t = "}"})

\* What may follow what has been written.
MayFollow(token) ==
  IF source = <<>> THEN token.t = "{"
  ELSE LET last == source[Len(source)].t
       IN  CASE last \in {"v", "s", "}"} -> token.t \in {",", "}"} /\ Depth > 0
             [] last \in {"[", "."}      -> token.t \in {"[", ".", "v", "s", "{"}
             [] last = ","               -> token.t # ","
             [] last = "{"               -> token.t # ","

Complete == source # <<>> /\ Depth = 0

WriteToken ==
  /\ shape # "none" /\ init = Nothing
  /\ Len(source) + Depth < MaxTokens
  /\ \E token \in Tokens(Object) : MayFollow(token) /\ source' = Append(source, token)
  /\ UNCHANGED <<vars, shape, init, image>>

ParseInitializer ==
  /\ Complete /\ init = Nothing
  /\ init' = Parsed
  /\ UNCHANGED <<vars, source, shape, image>>

\* lvar_initializer(): ND_MEMZERO, then the assignments.
\* gvar_initializer(): the buffer comes from malloc(), cleared or not.
StoreValues ==
  /\ init # Nothing /\ ~init.err /\ image = Nothing
  /\ \E fresh \in {Zero, <<"junk">>} :
       image' = [local  |-> Assigned(Filled(init, Zero), init, <<>>, Object, Whole(0)),
                 fresh  |-> fresh,
                 global |-> Serialized(Filled(init, fresh), init, <<>>, Object, Whole(0))]
  /\ UNCHANGED <<vars, source, shape, init>>

InitializerNext ==
  \/ LayoutStep(Next)
  \/ DeclareObject \/ WriteToken \/ ParseInitializer \/ StoreValues

InitializerSpec == InitializerInit /\ [][InitializerNext]_<<vars, initVars>>
=============================================================================
