---------------------------- MODULE MCDirectives ----------------------------
(* A source file over one macro, A, and headers in its own directory and in  *)
(* three include paths.                                                       *)
EXTENDS Directives

\* What test/macro.c has of conditionals, and the headers.
SourceLines == {Line("text", "t"), Line("define", "A"), Line("undef", "A"),
                Line("ifdef", "A"), Line("if", "bad"), Line("elif", "A"), Line("elif", "bad"), Line("else", ""), Line("endif", ""),
                Line("include", "guarded"), Line("include", "once"), Line("include", "open"),
                Line("include", "wrap"), Line("quoted", "own"), Line("include_next", "wrap"),
                Line("line", "")}

MCDirs == <<"a", "b", "c">>

\* guarded: the usual pattern; once: "#pragma once"; open: leaves a section
\* to its includer; wrap: goes on to the next of its name; own: hides one
\* of the include paths, and includes a file twice.
MCFiles == {<<"a", "guarded">>, <<"a", "wrap">>, <<"b", "wrap">>, <<"c", "wrap">>, <<"a", "own">>,
            <<"b", "once">>, <<".", "open">>, <<".", "own">>}

MCContents ==
  [f \in MCFiles |->
     CASE f[2] = "guarded" -> <<Line("ifndef", "G"), Line("define", "G"), Line("text", "g"),
                                Line("ifdef", "A"), Line("text", "h"), Line("endif", ""),
                                Line("endif", "")>>
       [] f[2] = "once" -> <<Line("once", ""), Line("if", "1"), Line("text", "o"),
                             Line("endif", "")>>
       [] f[2] = "open" -> <<Line("else", ""), Line("text", "p")>>
       [] f = <<"c", "wrap">> -> <<Line("ifdef", "A"), Line("error", ""), Line("endif", ""), Line("text", "c")>>
       [] f[2] = "wrap" -> <<Line("pragma", ""), Line("text", f[1]), Line("include_next", "wrap")>>
       [] f = <<".", "own">> -> <<Line("include", "own"), Line("include", "missing")>>
       [] f = <<"a", "own">> -> <<Line("quoted", "guarded")>>]
=============================================================================
