--------------------------- MODULE InitializerCursor ---------------------------
(***************************************************************************)
(* What an initializer means, after C11 6.7.9: a cursor, the current        *)
(* object, goes through the object one token at a time and every value is   *)
(* noted with the place it is for.  There is no recursive descent and       *)
(* nothing of initializer.c in it; the properties below compare the two.    *)
(*                                                                         *)
(* A pattern is a path with a set of numbers in place of every number, so   *)
(* that [lo ... hi] is one pattern.                                         *)
(***************************************************************************)
EXTENDS Initializer

\* The type of the objects at a pattern.
TypeAt(pattern) ==
  LET Step(ty, numbers) == IF ty.kind = "array" THEN ty.base
                           ELSE LET n == CHOOSE k \in numbers : TRUE
                                IN  ty.members[IF n < 0 THEN -n ELSE n].ty
  IN  FoldLeft(Step, Object, pattern)

\* The declared length of the array at a pattern.  Without one there is no limit.
Open(pattern) ==
  \/ TypeAt(pattern).len < 0
  \/ Object.kind = "struct" /\ Object.flexible /\ pattern = <<{Len(Object.members)}>>

Foremost(ty) == IF ty.kind = "array" THEN {0} ELSE {Number(ty, 1)}
Highest(numbers) == CHOOSE n \in numbers : \A k \in numbers : k <= n

RECURSIVE Following(_, _), ByName(_, _), Digest(_, _)

Past == <<{}>>

\* The object behind the one at a pattern, inside the braces of `root`.
Following(pattern, root) ==
  IF Len(pattern) = Len(root) THEN Past
  ELSE LET up == Front(pattern)
           ty == TypeAt(up)
           n  == Highest(pattern[Len(pattern)]) + 1
       IN  IF \/ ty.kind = "struct" /\ n <= Len(ty.members)
              \/ ty.kind = "array" /\ (Open(up) \/ n < ty.len)
           THEN Append(up, {n}) ELSE Following(up, root)

\* The pattern that leads to a member of that name, also through anonymous ones.
ByName(ty, name) ==
  LET Holds(m) == IF m.name = "" /\ m.ty.kind \in {"struct", "union"}
                  THEN HasMember(m.ty, name) ELSE m.name = name
      k == SelectInSeq(ty.members, Holds)
  IN  IF ty.members[k].name = name THEN <<{Number(ty, k)}>>
      ELSE <<{Number(ty, k)}>> \o ByName(ty.members[k].ty, name)

\* The first object a value at the pattern can be for: a scalar, or an array if
\* the value is a string.
Digest(pattern, string) ==
  LET ty == TypeAt(pattern)
  IN  IF ty.kind = "scalar" \/ (string /\ ty.kind = "array") THEN pattern
      ELSE Digest(Append(pattern, Foremost(ty)), string)

-----------------------------------------------------------------------------
(* The cursor *)

\* The objects whose braces are open, the object that comes next, whether it has
\* just been designated, what has been noted, whether there were values to which
\* no object was left, and whether all is in order.  A
\* note is a place, a token and the length of the string it is, or 0.  Values
\* that are too many go to Past.
AtStart == [roots |-> <<>>, next |-> <<>>, designated |-> FALSE, notes |-> <<>>,
            excess |-> FALSE, status |-> "ok"]

Root(c) == c.roots[Len(c.roots)]
Not(c, status) == [c EXCEPT !.status = status]
Note(c, at, tok, len) == [c EXCEPT !.notes = Append(@, [at |-> at, tok |-> tok, len |-> len])]

Enter(c) ==
  LET ty == TypeAt(c.next)
  IN  IF c.next = Past THEN [c EXCEPT !.roots = Append(@, Past), !.excess = TRUE]
      ELSE Note([c EXCEPT !.roots = Append(@, c.next),
                          !.next = IF ty.kind = "scalar" THEN @ ELSE Append(@, Foremost(ty))],
                c.next, 0, 0)

Close(c) ==
  LET outer == Front(c.roots)
  IN  [c EXCEPT !.roots = outer,
                !.next = IF Root(c) = Past \/ outer = <<>> THEN Past
                         ELSE Following(Root(c), outer[Len(outer)])]

Designate(c, token) ==
  LET base == IF c.designated THEN c.next ELSE Root(c)
      ty   == TypeAt(base)
      Go(next) == [c EXCEPT !.next = next, !.designated = TRUE]
  IN  IF base = Past THEN Not(c, "invalid")
      ELSE IF token.t = "."
      THEN IF ty.kind \in {"struct", "union"} /\ HasMember(ty, token.name)
           THEN Go(base \o ByName(ty, token.name)) ELSE Not(c, "invalid")
      ELSE IF ty.kind = "array" /\ (Open(base) \/ token.hi < ty.len)
           THEN Go(Append(base, token.lo .. token.hi)) ELSE Not(c, "invalid")

\* A string in braces of its own is for the array, too.
ForArray(c) == /\ Root(c) # Past /\ TypeAt(Root(c)).kind = "array"
               /\ TypeAt(Root(c)).base.kind = "scalar"

Give(c, token, tok) ==
  LET string == token.t = "s"
      at == Digest(c.next, string)
      after == [c EXCEPT !.next = Following(at, Root(c))]
  IN  IF c.next = Past THEN [c EXCEPT !.excess = TRUE]
      ELSE IF string /\ ForArray(c) THEN Not(c, "string in braces")
      ELSE IF string /\ TypeAt(at).kind = "array"
      THEN IF TypeAt(at).base.kind = "scalar" THEN Note(after, at, tok, token.len)
           ELSE Not(c, "invalid")
      ELSE Note(after, at, tok, 0)

Move(c, tok) ==
  LET token == source[tok]
  IN  CASE c.status # "ok"        -> c
        [] c.status = "ok" /\ token.t = "{"          -> Enter([c EXCEPT !.designated = FALSE])
        [] c.status = "ok" /\ token.t = "}"          -> Close(c)
        [] c.status = "ok" /\ token.t = ","          -> [c EXCEPT !.designated = FALSE]
        [] c.status = "ok" /\ token.t \in {".", "["} -> Designate(c, token)
        [] c.status = "ok" /\ token.t \in {"v", "s"} -> Give(c, token, tok)

Meaning == FoldLeft(Move, AtStart, [i \in DOMAIN source |-> i])

-----------------------------------------------------------------------------
(* What an object holds *)

Paths(pattern) ==
  {p \in [DOMAIN pattern -> UNION {pattern[i] : i \in DOMAIN pattern}] :
     \A i \in DOMAIN pattern : p[i] \in pattern[i]}

\* The lengths of the arrays without one: the highest element anything is for.
LengthNoted(notes, array) ==
  LET inside == {n \in DOMAIN notes : IsPrefix(array, notes[n].at)}
      Needs(n) == IF Len(notes[n].at) > Len(array)
                  THEN Highest(notes[n].at[Len(array) + 1]) + 1 ELSE notes[n].len
  IN  Highest({0} \cup {Needs(n) : n \in inside})

OpenArrays == {p \in {<<>>, <<{Len(StructTy.members)}>>} :
                 /\ p = <<>> => Object.kind = "array" /\ Object.len < 0
                 /\ p # <<>> => Object.kind = "struct" /\ Object.flexible}

Room(notes, at) == IF at \in OpenArrays THEN LengthNoted(notes, at) ELSE TypeAt(at).len

\* The scalars a note gives a value, and the value.
ScalarsOf(notes, n) ==
  LET note == notes[n]
      last == IF note.len < Room(notes, note.at) THEN note.len ELSE Room(notes, note.at)
  IN  IF note.tok = 0 THEN {}
      ELSE IF note.len = 0 THEN Paths(note.at) ELSE Paths(Append(note.at, 0 .. last - 1))
ValueOf(note, path) ==
  IF note.len = 0 THEN <<note.tok, 0>> ELSE <<note.tok, path[Len(path)]>>

NoValue == <<0, 0>>

\* A note for another member of the same union.
Replaces(note, path) ==
  \E i \in DOMAIN path \cap DOMAIN note.at :
    /\ path[i] < 0 /\ path[i] \notin note.at[i]
    /\ \A j \in 1 .. i - 1 : path[j] \in note.at[j]

\* The last note for a scalar counts, unless a later one is for another member of
\* the union it is in.
Noted(notes, path) ==
  LET at == {n \in DOMAIN notes : path \in ScalarsOf(notes, n)}
  IN  IF at = {} \/ \E n \in DOMAIN notes : n > Highest(at) /\ Replaces(notes[n], path)
      THEN NoValue ELSE ValueOf(notes[Highest(at)], path)

\* What the parser has found for it, if the assignments will reach it.
Active(S, path) ==
  \A i \in DOMAIN path : path[i] < 0 => path[i] = -ActiveMember(S, SubSeq(path, 1, i - 1))
Found(S, path) == IF path \in DOMAIN S.val /\ Active(S, path) THEN S.val[path] ELSE NoValue

-----------------------------------------------------------------------------
(* Properties *)

\* An initializer the parser accepts gives every scalar the value C11 gives it
\* (a value that is designated twice the last one, and the values of a braced
\* list that is designated again stay, as test/initializer.c:204 has it), and an
\* array without a length the number of its elements.  Not so a string in braces
\* of its own, { "ab" }.
InitializerIsReference ==
  init # Nothing /\ ~init.err /\ Meaning.status = "ok" =>
    LET notes == Meaning.notes
    IN  /\ \A array \in OpenArrays :
             LET path == [i \in DOMAIN array |-> Highest(array[i])]
             IN  Count(init, path, TypeAt(array)) = LengthNoted(notes, array)
        /\ \A path \in DOMAIN init.val \cup UNION {ScalarsOf(notes, n) : n \in DOMAIN notes} :
             Found(init, path) = Noted(notes, path)

\* Where two tokens follow each other in the initializer.
Has(t1, t2) == \E i \in 1 .. Len(source) - 1 : source[i].t \in t1 /\ source[i + 1].t \in t2

\* The last member has no length: its elements cannot be designated, and without
\* braces around them they are counted up to the end of the whole list.
IntoFlexible == flexible /\ (Has({"."}, {"["}) \/ Has({","}, {"."}))

\* A designator of a member of a member, perhaps of an anonymous one:
\* struct_initializer2() goes on behind it without the comma it would have to skip.
Nested ==
  \/ Has({".", "["}, {"."})
  \/ \E i \in DOMAIN source : source[i].t = "." /\ \A k \in 1 .. Len(members) :
                                members[k].name # source[i].name

HasUnion == kind = "union" \/ \E i \in 1 .. Len(members) : members[i].ty.kind = "union"

\* What C11 allows, with nothing in excess, is accepted, but for empty braces, a
\* comma in front of a closing brace, Nested designators, IntoFlexible arrays and, as the comment at
\* union_initializer() says, a second value for a union.
PlainIsAccepted ==
  init # Nothing /\ Meaning.status = "ok" /\ ~Meaning.excess =>
    ~init.err \/ Has({"{", ","}, {"}"}) \/ Nested \/ IntoFlexible
              \/ (HasUnion /\ Has({","}, {"."}))

\* The struct an object is or is made of is at this depth of a path.
Level == IF Object.kind = "array" THEN 2 ELSE 1

\* A bit-field without a value in front of a member with one: the loop of
\* write_gvar_data() has ended.
Lost == kind = "struct" /\ \E path \in DOMAIN init.val : \E k \in 1 .. path[Level] - 1 :
  members[k].bitfield /\ Append(SubSeq(path, 1, Level - 1), k) \notin DOMAIN init.val

HasField == \E i \in 1 .. Len(members) : members[i].bitfield

\* A global variable begins with the bits that the assignments give a local one,
\* if malloc() hands out cleared memory; else at least those that have a value
\* are the same.  Not so when a value is Lost, or for a bit-field of a union,
\* or for bit-fields in memory that is not cleared.
GlobalIsLocal ==
  image # Nothing =>
    \/ Lost
    \/ HasField /\ (kind = "union" \/ image.fresh # Zero)
    \/ \A p \in 0 .. 8 * ObjectSize(init) - 1 :
         \/ image.global[p] = image.local[p]
         \/ image.local[p] = Zero /\ image.fresh # Zero
=============================================================================
