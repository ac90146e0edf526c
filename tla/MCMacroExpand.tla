---------------------------- MODULE MCMacroExpand ----------------------------
(* Two object-like macros and a function-like one that refer to each other  *)
(* and to themselves, and the expansion of a line by nested disabling, the  *)
(* wording of the C standard, as the reference for the hidesets.            *)
EXTENDS MacroExpand, TLC

A == <<"A">>
B == <<"B">>
F == <<"F">>
X == <<"x">>
Y == <<"y">>
c == <<"c">>
L == <<"(">>
R == <<")">>
Comma == <<",">>

Call(arg) == <<F, L>> \o arg \o <<R>>

BodiesA == {<<>>, <<A>>, <<B>>, <<F>>, <<B, A>>, Call(<<A>>), Call(<<B>>) \o <<A>>, <<F, L, B>>}
BodiesB == {<<c>>, <<A>>, <<F, A>>, Call(<<>>), Call(Call(<<A, B>>))}
BodiesF == {<<>>, <<X, X>>, <<A, X>>, <<F, X>>, Call(<<X, B>>), <<B, L, X, R>>, Call(<<F>>),
            <<<<"#">>, X>>, <<<<"#">>, X, X>>, <<X, <<"##">>, c, <<"#">>, X>>, <<B, <<"##">>, X>>,
            <<<<"#">>, B>>, <<X, <<"#">>, X>>, <<X, <<"##">>>>, <<<<"##">>, X>>}

MCTables ==
  {(A :> Object(a)) @@ (B :> Object(b)) @@ (F :> Function(<<X>>, f)) :
     a \in BodiesA, b \in BodiesB, f \in BodiesF}
  \cup
  {(A :> Object(<<B>>)) @@ (B :> Object(<<c, A>>)) @@ (F :> Function(<<X, Y>>, f)) :
     f \in {<<Y, X>>, <<X, <<"##">>, Y>>, <<F, L, Y, Comma, X, R>>}}
  \cup
  {(A :> Object(<<B>>)) @@ (B :> Object(<<c>>)) @@ (F :> Function(<<>>, <<A, F>>))}

MCTexts == {<<A, B>>, Call(<<B, A>>), Call(Call(<<A>>)), <<B, L, A, R>>,
            <<F, L, A, Comma, L, Comma, R, R>>, <<F, L, R>>, Call(<<c, A>>)}

-------------------------------------------------------------------------------
(* A name is <<text, painted>>; a macro is disabled while its replacement is *)
(* read again, and a name read while its macro is disabled is painted: it    *)
(* stays what it is.                                                         *)
Fresh(texts) == [i \in DOMAIN texts |-> <<texts[i], FALSE>>]

Count(s, i, j, t) == Cardinality({k \in i .. j : s[k][1] = t})
Match(s) == CHOOSE j \in DOMAIN s : /\ s[j][1] = R
                                    /\ Count(s, 1, j, L) = Count(s, 1, j, R)
                                    /\ \A k \in 3 .. j - 1 : Count(s, 1, k, L) # Count(s, 1, k, R)

Quote(s) == <<Join(Tokens([i \in DOMAIN s |-> s[i][1]])), FALSE>>

RECURSIVE Replace(_, _), Filled(_, _, _)
\* The body with the actual in the place of the parameter: what it expands to,
\* or, behind "#", the string of what was written.
Filled(body, arg, actual) ==
  IF body = <<>> THEN <<>>
  ELSE IF Head(body)[1] = <<"#">>
  THEN <<Quote(actual)>> \o Filled(Tail(Tail(body)), arg, actual)
  ELSE (IF Head(body)[1] = X THEN arg ELSE <<Head(body)>>) \o Filled(Tail(body), arg, actual)

Replace(s, disabled) ==
  IF s = <<>> THEN <<>>
  ELSE LET n == s[1][1]
           isMacro == n \in DOMAIN macros /\ ~s[1][2]
       IN  IF ~isMacro THEN <<s[1]>> \o Replace(Tail(s), disabled)
           ELSE IF n \in disabled THEN <<<<n, TRUE>>>> \o Replace(Tail(s), disabled)
           ELSE IF macros[n].isObjlike
           THEN Replace(Fresh(macros[n].body), disabled \cup {n}) \o Replace(Tail(s), disabled)
           ELSE IF Len(s) > 1 /\ s[2][1] = L
           THEN LET j == Match(s)
                    actual == SubSeq(s, 3, j - 1)
                    body == Filled(Fresh(macros[n].body), Replace(actual, disabled), actual)
                IN  Replace(body, disabled \cup {n})
                      \o Replace(SubSeq(s, j + 1, Len(s)), disabled)
           ELSE <<s[1]>> \o Replace(Tail(s), disabled)

\* Every parenthesis belongs to an invocation of F that is written down whole,
\* and nothing is pasted: no invocation takes in tokens behind the replacement
\* its name comes from, where the standard leaves the result open.
Whole(s) == /\ \A i \in DOMAIN s : /\ s[i] = L => i > 1 /\ s[i - 1] = F
                                   /\ s[i] \notin {Comma, <<"##">>}
            /\ Cardinality({i \in DOMAIN s : s[i] = L}) = Cardinality({i \in DOMAIN s : s[i] = R})
\* "#" comes before any other use of its parameter: such a use leaves the
\* argument expanded in part (preprocess.c:656).
QuotedFirst(s) ==
  \A i \in DOMAIN s : s[i] = <<"#">> =>
    i < Len(s) /\ s[i + 1] = X /\ \A j \in 1 .. i - 1 : s[j] = X => j > 1 /\ s[j - 1] = <<"#">>

\* The hidesets, with arguments that are expanded in place and used again,
\* make of a line what nested disabling makes of it (preprocess.c:8-14), and
\* "#" quotes actuals (preprocess.c:544).
ResultIsReference ==
  status = "done" /\ Len(macros[F].params) = 1 /\ Whole(line)
    /\ (\A m \in DOMAIN macros : Whole(macros[m].body) /\ QuotedFirst(macros[m].body))
  => LET result == Replace(Fresh(line), {})
     IN  TextsOf(Top.out) = [i \in DOMAIN result |-> result[i][1]]
===============================================================================
