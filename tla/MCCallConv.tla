------------------------------ MODULE MCCallConv ------------------------------
(* Two argument registers of each kind, all lists of up to four parameters, *)
(* and up to three variable arguments behind the ones of a scalar type.      *)
EXTENDS CallConv, TLC

Lists(kinds, n) == UNION {[1 .. m -> kinds] : m \in 0 .. n}

Plain(params, buffer) == [params |-> params, more |-> <<>>, variadic |-> FALSE, buffer |-> buffer]
Variadic(params, more) == [params |-> params, more |-> more, variadic |-> TRUE, buffer |-> FALSE]

MCCalls == {Plain(params, buffer) : params \in Lists(Kinds, 4), buffer \in BOOLEAN}
           \cup {Variadic(params, more) : params \in Lists({"int", "double", "ldouble"}, 4),
                                          more \in Lists({"int", "double"}, 3)}

\* void g(void), with no variable of its own, and int p(int, ...) with a char:
\* prologues of three and of six words.
Local(size, align) == [size |-> size, align |-> align]
MCFunctions == {[sig |-> Plain(<<>>, FALSE), locals |-> <<AllocaSize>>],
                [sig |-> Variadic(<<"int">>, <<>>),
                 locals |-> <<Local(1, 1), AllocaSize, Local(4, 4)>>]}

MCInner == {Plain(<<"int">>, FALSE), Plain(<<"int", "int", "int">>, FALSE), Plain(<<>>, TRUE)}
===============================================================================
