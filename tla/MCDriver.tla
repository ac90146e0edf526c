------------------------------- MODULE MCDriver -------------------------------
(* Two drivers in one directory, each with one of a few command lines that *)
(* write to different files.                                               *)
EXTENDS Driver, TLC

CONSTANTS d1, d2

Line(mode, o, x, inputs) == [mode |-> mode, o |-> o, x |-> x, inputs |-> inputs]

C(name) == <<"", name, ".c">>

MCCommands ==
  (d1 :> {Line("link", <<>>, "", <<<<"", "lib", ".o">>, C("a")>>),
          Line("link", <<"", "prog", "">>, "", <<<<"", "m", ".s">>, <<"", "lib", ".o">>>>),
          Line("c", <<>>, "", <<<<"", "m", ".s">>, <<"sub", "m", ".c">>>>),
          Line("c", <<>>, "c", <<<<"", "m", ".s">>>>),
          Line("c", <<>>, "", <<<<"", "lib", ".o">>, <<"", "x", ".y">>>>),
          Line("S", <<>>, "", <<C("a"), <<"", "m", ".s">>, <<"", "lib", ".o">>>>),
          Line("S", <<"", "t", ".s">>, "", <<C("a"), C("b")>>),
          Line("E", <<"", "v", ".i">>, "", <<<<"", "v", ".h">>>>)})
  @@
  (d2 :> {Line("c", <<>>, "", <<C("w")>>)})

MCDrivers == {d1, d2}

===============================================================================
