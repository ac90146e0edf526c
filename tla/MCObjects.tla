------------------------------- MODULE MCObjects -------------------------------
(* Structs of up to three members, and initializers for some of them. *)
EXTENDS InitializerCursor

Scalar(bytes, unsigned) ==
  [kind |-> "scalar", size |-> bytes, align |-> bytes, unsigned |-> unsigned]
char  == Scalar(1, FALSE)
short == Scalar(2, TRUE)
int   == Scalar(4, FALSE)
long  == Scalar(8, FALSE)

Declared(name, ty) == [name |-> name, ty |-> ty, alignas |-> 0, bitfield |-> FALSE, width |-> 0]
Member(ty) == Declared("member", ty)
Field(ty, width) == [Member(ty) EXCEPT !.bitfield = TRUE, !.width = width]

\* struct { char p, q; } and union { char r; short s; }, as their own
\* declarations have laid them out.
At0(name, ty, offset) == [name |-> name, ty |-> ty, bitfield |-> FALSE, width |-> 0,
                          offset |-> offset, bit_offset |-> 0]
Pair == [kind |-> "struct", size |-> 2, align |-> 1, flexible |-> FALSE,
         members |-> <<At0("p", char, 0), At0("q", char, 1)>>]
Choice == [kind |-> "union", size |-> 2, align |-> 2, flexible |-> FALSE,
           members |-> <<At0("r", char, 0), At0("s", short, 0)>>]

Grid == ArrayOf(ArrayOf(char, 2), 2)

\* What is laid out in every combination.
Plain == {Member(char), Member(short), Member(long), Member(ArrayOf(char, 3)),
          Member(ArrayOf(int, -1)), [Member(char) EXCEPT !.alignas = 4],
          Field(char, 5), Field(short, 9), Field(int, 0), Field(int, 3), Field(int, 30),
          Field(long, 64), Field(long, 33)}

MCMembers == Plain \cup {Member(Pair), Member(Choice), Declared("", Pair), Member(Grid)}

MCShapes == {"one", "array", "open"}
MCNames == <<"a", "b", "c">>

v == [t |-> "v"]
string == [t |-> "s", len |-> 2]
Dot(name) == [t |-> ".", name |-> name]
Index(lo, hi) == [t |-> "[", lo |-> lo, hi |-> hi]
Base == {[t |-> "{"], [t |-> "}"], [t |-> ","], v}

Written(k, types, shapes, tokens) ==
  [kind |-> k, types |-> types, shapes |-> shapes, tokens |-> tokens]
M(ty) == <<ty, 0>>
Types(ty) == [k \in DOMAIN ty.members |-> <<ty.members[k].ty, ty.members[k].width>>]

\* The initializers to write: braces, designators and strings against the shapes
\* of members that tell them apart.
One == {"one"}
Inits ==
  {Written("struct", <<M(char), M(Pair)>>, MCShapes, {Dot("a"), Dot("b"), Dot("q")}),
   Written("struct", <<M(Pair), M(char)>>, One, {Dot("a"), Dot("q"), Dot("b")}),
   Written("struct", <<M(Pair), M(char)>>, {"array", "open"}, {Index(0, 0), Index(1, 1)}),
   Written("struct", <<M(Choice), M(char)>>, One, {Dot("a"), Dot("s"), Dot("b")}),
   Written("union", <<M(char), M(Pair)>>, One, {Dot("a"), Dot("b"), Dot("q")}),
   Written("struct", <<M(ArrayOf(char, 3)), M(char)>>, One,
           {string, Index(0, 1), Index(2, 2), Dot("a")}),
   Written("struct", <<M(ArrayOf(char, 3))>>, MCShapes, {string, Index(0, 1)}),
   Written("struct", <<M(Grid)>>, One, {Index(0, 0), Index(1, 1), Dot("a")}),
   Written("struct", <<M(char), M(ArrayOf(int, 0))>>, One, {Index(0, 1), Dot("a"), Dot("b")}),
   Written("struct", <<<<char, 5>>, <<short, 9>>, <<int, 3>>>>, One,
           {Dot("a"), Dot("b"), Dot("c")})}

ShapeOf(object) == IF object.kind # "array" THEN "one" ELSE IF object.len < 0 THEN "open" ELSE "array"
MCTokens(object) ==
  LET ty == IF object.kind = "array" THEN object.base ELSE object
  IN  UNION {Base \cup i.tokens :
               i \in {w \in Inits : /\ w.kind = ty.kind /\ w.types = Types(ty)
                                    /\ ShapeOf(object) \in w.shapes
                                    /\ ~packed /\ align <= 4}}
=============================================================================
