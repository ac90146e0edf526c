----------------------------- MODULE Directives -----------------------------
(***************************************************************************)
(* The directives of preprocess.c: conditional inclusion with its skipping  *)
(* functions, #define and #undef, #include and #include_next with the       *)
(* search for the file, "#pragma once" and the include-guard shortcut, line *)
(* markers.  Macro expansion is left to MacroExpand: a line is a text that  *)
(* is copied, or a directive with its argument.                             *)
(*                                                                         *)
(* The source file is read line by line and chosen as it is read; headers   *)
(* are constants.                                                           *)
(***************************************************************************)
EXTENDS Integers, Sequences, FiniteSets

CONSTANTS Lines,      \* lines the source file may hold
          Dirs,       \* the include paths, in the order they are searched
          Here,       \* the directory of the source file
          Files,      \* the headers: pairs of a directory and a name
          Contents,   \* what is in them: [Files -> Seq(Line)]
          MaxLines,   \* bound: lines of the source file
          MaxNesting  \* bound: files that are open at a time

\* extra: the line has tokens after its last one.
Line(d, a) == [d |-> d, a |-> a, extra |-> FALSE]

IfKinds == {"if", "ifdef", "ifndef"}
Dividers == {"elif", "else"}
\* #include <name>, #include "name" and #include_next
Includes == {"include", "quoted", "include_next"}

ASSUME LinesAssumption ==
  \A l \in Lines : l = [d |-> l.d, a |-> l.a, extra |-> l.extra] /\ l.extra \in BOOLEAN
ASSUME FilesAssumption ==
  /\ \A f \in Files : f[1] = Here \/ \E i \in 1 .. Len(Dirs) : f[1] = Dirs[i]
  /\ \A i \in 1 .. Len(Dirs) : Dirs[i] # Here
  /\ DOMAIN Contents = Files
ASSUME BoundsAssumption == MaxLines \in Nat /\ MaxNesting \in Nat

VARIABLES rest,         \* the tokens ahead, as lines
          cond_incl,    \* stack of struct CondIncl, innermost last
          skip,         \* 0; in skip_cond_incl 1; in skip_cond_incl2 at depth n, n + 1
          macros,       \* names defined
          guards,       \* include_guards: path -> macro, or ""
          pragma_once,  \* set of paths
          cache,        \* of search_include_paths: name -> path, or Nowhere
          include_next_idx,  \* where #include_next goes on, in Dirs
          files,        \* the open files, and how many lines lie behind each
          out,          \* texts copied to the result
          status,       \* "run", "done", "error"
          read,         \* history: the lines of the source with its headers in place
          found,        \* history: the paths that were searched for, and by which directive
          count         \* lines read from the source file

search == <<cache, include_next_idx, files, found>>
vars == <<rest, cond_incl, skip, macros, guards, pragma_once, out, status, read, count, search>>

Names == {l.a : l \in {l \in Lines \cup UNION {{Contents[f][i] : i \in DOMAIN Contents[f]} : f \in Files} :
                        l.d \in Includes}}
\* A name that no include path has is opened as it is, which is in Here.
Nowhere == <<"", "">>
Bare(name) == <<"", name>>
Paths == Files \cup {Bare(name) : name \in Names}
TextOf(path) == Contents[IF path[1] = "" THEN <<Here, path[2]>> ELSE path]

-----------------------------------------------------------------------------
(* Include guards *)

\* detect_include_guard: "#ifndef M", "#define M" and an "#endif" at the end;
\* the macro, or "".  What is between is not looked at: the loop tests the
\* "#" where it means the name of the directive.
Guard(text) ==
  IF /\ Len(text) > 2
     /\ text[1].d = "ifndef" /\ ~ text[1].extra
     /\ text[2].d = "define" /\ text[2].a = text[1].a
     /\ text[Len(text)].d = "endif" /\ ~ text[Len(text)].extra
  THEN text[1].a ELSE ""

-----------------------------------------------------------------------------
(* Directives *)

Init == /\ rest = << >>
        /\ cond_incl = << >>
        /\ skip = 0
        /\ macros = {}
        /\ guards = [p \in Paths |-> ""]
        /\ pragma_once = {}
        /\ out = << >>
        /\ status = "run"
        /\ read = << >>
        /\ count = 0
        /\ cache = [name \in Names |-> Nowhere]
        /\ include_next_idx = 1
        /\ files = << >>
        /\ found = << >>

\* One more line of the source file comes into view.
NextLine(l) ==
  /\ status = "run"
  /\ rest = << >>
  /\ count < MaxLines
  /\ rest' = <<l>>
  /\ count' = count + 1
  /\ files' = << >>
  /\ UNCHANGED <<cond_incl, skip, macros, guards, pragma_once, out, status, read,
                 cache, include_next_idx, found>>

\* TK_EOF: "unterminated conditional directive"
EndOfFile ==
  /\ status = "run"
  /\ rest = << >>
  /\ status' = IF cond_incl = << >> THEN "done" ELSE "error"
  /\ UNCHANGED <<rest, cond_incl, skip, macros, guards, pragma_once, out, read, count, search>>

Top == cond_incl[Len(cond_incl)]

Popped == SubSeq(cond_incl, 1, Len(cond_incl) - 1)

Pushed(included) == Append(cond_incl, [ctx |-> "then", included |-> included])

\* const_expr over "defined" and macro names
Value(a) == a = "1" \/ a \in macros

\* skip_line: tokens that are left over stay in the list.
AfterLine == IF Head(rest).extra THEN <<Line("text", "extra")>> \o Tail(rest) ELSE Tail(rest)

\* The next line is a d, and the preprocessor looks at it.
At(d) == /\ status = "run"
         /\ rest # << >>
         /\ Head(rest).d = d
         /\ \/ skip = 0
            \/ skip = 1 /\ d \in Dividers \cup {"endif"}
         /\ read' = Append(read, Head(rest))
         /\ UNCHANGED <<count, search>>

Fail == /\ status' = "error"
        /\ UNCHANGED <<rest, cond_incl, skip, macros, guards, pragma_once, out>>

Text == /\ At("text")
        /\ out' = Append(out, Head(rest).a)
        /\ rest' = Tail(rest)
        /\ UNCHANGED <<cond_incl, skip, macros, guards, pragma_once, status>>

Define == /\ At("define")
          /\ macros' = macros \cup {Head(rest).a}
          /\ rest' = Tail(rest)
          /\ UNCHANGED <<cond_incl, skip, guards, pragma_once, out, status>>

Undef == /\ At("undef")
         /\ macros' = macros \ {Head(rest).a}
         /\ rest' = AfterLine
         /\ UNCHANGED <<cond_incl, skip, guards, pragma_once, out, status>>

\* push_cond_incl, and skip_cond_incl when the condition is false
Enter(included) ==
  /\ cond_incl' = Pushed(included)
  /\ skip' = IF included THEN 0 ELSE 1
  /\ UNCHANGED <<macros, guards, pragma_once, out, status>>

If == \/ /\ At("if")
         /\ Head(rest).a # "bad"
         /\ Enter(Value(Head(rest).a))
         /\ rest' = Tail(rest)
      \/ /\ At("if")
         /\ Head(rest).a = "bad"
         /\ Fail

Ifdef == /\ At("ifdef")
         /\ Enter(Head(rest).a \in macros)
         /\ rest' = AfterLine

Ifndef == /\ At("ifndef")
          /\ Enter(Head(rest).a \notin macros)
          /\ rest' = AfterLine

\* Faulty: a second #else is not noticed.
StrayOutside == cond_incl = << >>

\* "stray #elif", "stray #else": no section, or the innermost has had its #else.
Stray == (IF cond_incl = << >> THEN "else" ELSE Top.ctx) = "else"

\* The condition of an #elif is evaluated.
Evaluates == IF Stray THEN FALSE ELSE ~ Top.included

Elif == \/ /\ At("elif")
           /\ Stray \/ (Evaluates /\ Head(rest).a = "bad")
           /\ Fail
        \/ /\ At("elif")
           /\ ~ Stray
           /\ Evaluates => Head(rest).a # "bad"
           /\ LET enters == Evaluates /\ Value(Head(rest).a)
              IN  /\ cond_incl' = Append(Popped, [ctx |-> "elif",
                                                  included |-> Top.included \/ enters])
                  /\ skip' = IF enters THEN 0 ELSE 1
           /\ rest' = Tail(rest)
           /\ UNCHANGED <<macros, guards, pragma_once, out, status>>

\* Faulty: #else forgets that a group was included.
ElseAgain == /\ At("else")
             /\ ~ Stray
             /\ cond_incl' = Append(Popped, [Top EXCEPT !.ctx = "else"])
             /\ skip' = IF Top.ctx = "then" /\ Top.included THEN 1 ELSE 0
             /\ rest' = AfterLine
             /\ UNCHANGED <<macros, guards, pragma_once, out, status>>

Else == \/ /\ At("else")
           /\ Stray
           /\ Fail
        \/ /\ At("else")
           /\ ~ Stray
           /\ cond_incl' = Append(Popped, [Top EXCEPT !.ctx = "else"])
           /\ skip' = IF Top.included THEN 1 ELSE 0
           /\ rest' = AfterLine
           /\ UNCHANGED <<macros, guards, pragma_once, out, status>>

Endif == \/ /\ At("endif")
            /\ cond_incl = << >>
            /\ Fail
         \/ /\ At("endif")
            /\ cond_incl # << >>
            /\ cond_incl' = Popped
            /\ skip' = 0
            /\ rest' = AfterLine
            /\ UNCHANGED <<macros, guards, pragma_once, out, status>>

\* skip_cond_incl and skip_cond_incl2 step over a line, whatever it is.
SkipLine ==
  /\ status = "run"
  /\ rest # << >>
  /\ skip > 0
  /\ ~ (skip = 1 /\ Head(rest).d \in Dividers \cup {"endif"})
  /\ skip' = CASE Head(rest).d \in IfKinds -> skip + 1
               [] Head(rest).d = "endif" -> skip - 1
               [] OTHER -> skip
  /\ rest' = Tail(rest)
  /\ read' = Append(read, Head(rest))
  /\ UNCHANGED <<cond_incl, macros, guards, pragma_once, out, status, count, search>>

-----------------------------------------------------------------------------
(* Included files *)

\* The files that have lines ahead, the source file apart, innermost last.
Open == SelectSeq(files, LAMBDA f : f.left < Len(rest))
Current == IF Open = << >> THEN <<Here, "">> ELSE Open[Len(Open)].path

\* The first include path from i on that has the name; Len(Dirs) + 1 if none.
First(name, i) ==
  CHOOSE k \in i .. Len(Dirs) + 1 :
    /\ k <= Len(Dirs) => <<Dirs[k], name>> \in Files
    /\ \A j \in i .. k - 1 : <<Dirs[j], name>> \notin Files

InDir(name, i) == IF i > Len(Dirs) THEN Nowhere ELSE <<Dirs[i], name>>

\* Faulty: #include_next would find the same file again.
SearchHere(name) ==
  LET i == First(name, 1)
  IN  IF cache[name] # Nowhere \/ i > Len(Dirs) THEN UNCHANGED <<cache, include_next_idx>>
      ELSE cache' = [cache EXCEPT ![name] = InDir(name, i)] /\ include_next_idx' = i

\* search_include_paths: what it finds, and what it remembers.
Cached(name) == IF cache[name] = Nowhere THEN InDir(name, First(name, 1)) ELSE cache[name]
Search(name) ==
  LET i == First(name, 1)
  IN  IF cache[name] # Nowhere \/ i > Len(Dirs) THEN UNCHANGED <<cache, include_next_idx>>
      ELSE cache' = [cache EXCEPT ![name] = InDir(name, i)] /\ include_next_idx' = i + 1

\* A quoted name is first looked for beside the file that includes it.
Beside(name) == <<IF Current[1] = "" THEN Here ELSE Current[1], name>>
IsBeside(l) == l.d = "quoted" /\ Beside(l.a) \in Files

\* The path an #include line leads to.
Found(l) ==
  LET path == CASE IsBeside(l) -> Beside(l.a)
                [] l.d = "include_next" -> InDir(l.a, First(l.a, include_next_idx))
                [] OTHER -> Cached(l.a)
  IN  IF path = Nowhere THEN Bare(l.a) ELSE path

Exists(path) == IF path[1] = "" THEN <<Here, path[2]>> \in Files ELSE path \in Files

\* include_file; the history reads a guarded file anyway.
IncludeFile(path) ==
  \/ /\ path \in pragma_once
     /\ rest' = AfterLine
     /\ UNCHANGED <<guards, read, files, status>>
  \/ /\ path \notin pragma_once
     /\ Exists(path) /\ guards[path] \in macros
     /\ rest' = AfterLine
     /\ read' = read \o TextOf(path)
     /\ UNCHANGED <<guards, files, status>>
  \/ /\ path \notin pragma_once
     /\ Exists(path) /\ guards[path] \notin macros
     /\ Len(Open) < MaxNesting
     /\ rest' = TextOf(path) \o AfterLine
     /\ files' = Append(Open, [path |-> path, left |-> Len(AfterLine)])
     /\ guards' = IF Guard(TextOf(path)) = "" THEN guards
                  ELSE [guards EXCEPT ![path] = Guard(TextOf(path))]
     /\ UNCHANGED <<read, status>>
  \/ /\ ~ Exists(path)
     /\ status' = "error"
     /\ read' = Append(read, Head(rest))
     /\ UNCHANGED <<rest, guards, files>>

Ahead(d) == status = "run" /\ skip = 0 /\ rest # << >> /\ Head(rest).d = d

Include ==
  /\ Ahead("include") \/ Ahead("quoted")
  /\ IncludeFile(Found(Head(rest)))
  /\ IF IsBeside(Head(rest))
     THEN UNCHANGED <<cache, include_next_idx, found>>
     ELSE Search(Head(rest).a) /\ found' = Append(found, [d |-> "include", path |-> Found(Head(rest))])
  /\ UNCHANGED <<cond_incl, skip, macros, pragma_once, out, count>>

IncludeNext ==
  /\ Ahead("include_next")
  /\ IncludeFile(Found(Head(rest)))
  /\ include_next_idx' = First(Head(rest).a, include_next_idx)
  /\ found' = Append(found, [d |-> "include_next", path |-> Found(Head(rest))])
  /\ UNCHANGED <<cond_incl, skip, macros, pragma_once, out, count, cache>>

PragmaOnce == /\ At("once")
              /\ pragma_once' = pragma_once \cup {Current}
              /\ rest' = AfterLine
              /\ UNCHANGED <<cond_incl, skip, macros, guards, out, status>>

\* read_line_marker calls preprocessor() on its line, which takes every
\* section that is open for an unterminated one.
LineMarker == \/ /\ At("line")
                 /\ cond_incl # << >>
                 /\ Fail
              \/ /\ At("line")
                 /\ cond_incl = << >>
                 /\ rest' = Tail(rest)
                 /\ UNCHANGED <<cond_incl, skip, macros, guards, pragma_once, out, status>>

\* Any other #pragma, and a "#" alone, is stepped over.
Pragma == /\ At("pragma")
          /\ rest' = Tail(rest)
          /\ UNCHANGED <<cond_incl, skip, macros, guards, pragma_once, out, status>>

\* #error, or no directive at all
ErrorLine == At("error") /\ Fail

Next == \/ \E l \in Lines : NextLine(l)
        \/ EndOfFile
        \/ Text \/ Define \/ Undef
        \/ If \/ Ifdef \/ Ifndef \/ Elif \/ Else \/ Endif \/ SkipLine
        \/ Include \/ IncludeNext \/ PragmaOnce \/ LineMarker \/ Pragma \/ ErrorLine

Spec == Init /\ [][Next]_vars

-----------------------------------------------------------------------------
(* What C says of the lines read: sections, groups and which of them are    *)
(* processed, without any state.                                            *)

Opens(i) == read[i].d \in IfKinds
Closes(i) == read[i].d = "endif"

\* The nesting depth after line i.
Depth(i) == Cardinality({k \in 1 .. i : Opens(k)}) - Cardinality({k \in 1 .. i : Closes(k)})

\* Line i belongs to the section that j opens, its #endif included.
Inside(i, j) == /\ j < i
                /\ Opens(j)
                /\ \A k \in j .. i - 1 : Depth(k) >= Depth(j)

\* The sections line i divides or ends.
Own(i) == {j \in 1 .. i - 1 : Inside(i, j) /\ Depth(i - 1) = Depth(j)}

\* The lines before i that begin a group of section j.
Heads(j, i) == {k \in j .. i - 1 : k = j \/ (read[k].d \in Dividers /\ j \in Own(k))}

\* With L the live lines, m is a macro at line k.
Defined(L, m, k) ==
  \E d \in L \cap 1 .. k - 1 :
    /\ read[d].d = "define" /\ read[d].a = m
    /\ \A u \in L \cap d .. k - 1 : ~ (read[u].d = "undef" /\ read[u].a = m)

Holds(L, k) == CASE read[k].d = "ifndef" -> ~ Defined(L, read[k].a, k)
                 [] read[k].d = "else" -> TRUE
                 [] OTHER -> read[k].a = "1" \/ Defined(L, read[k].a, k)

\* Line i is in the first group of section j whose condition holds.
Chosen(L, i, j) ==
  \E h \in Heads(j, i) : /\ \A k \in Heads(j, i) : k <= h
                         /\ Holds(L, h)
                         /\ \A k \in Heads(j, i) \ {h} : ~ Holds(L, k)

\* The lines that are processed, for what is not a divider or an #endif.
Live ==
  LET upto[i \in 0 .. Len(read)] ==
        IF i = 0 THEN {}
        ELSE LET L == upto[i - 1]
             IN  L \cup {k \in {i} : \A j \in 1 .. i - 1 : Inside(i, j) => Chosen(L, i, j)}
  IN  upto[Len(read)]

LiveTexts ==
  LET texts == {i \in Live : read[i].d = "text"}
      Nth(n) == CHOOSE i \in texts : Cardinality({k \in texts : k <= i}) = n
  IN  [n \in 1 .. Cardinality(texts) |-> read[Nth(n)].a]

\* Line i is an error: outside of any section, after #else, a condition that
\* is needed and is none, an #error, or a file that is nowhere.
Broken(i) ==
  \/ read[i].d \in Dividers \cup {"endif"} /\ Own(i) = {}
  \/ /\ read[i].d \in Dividers
     /\ \E j \in Own(i) \cap Live : \E k \in Heads(j, i) : read[k].d = "else"
  \/ read[i].d = "if" /\ i \in Live /\ read[i].a = "bad"
  \/ read[i].d = "error" /\ i \in Live
  \/ read[i].d \in Includes /\ i \in Live /\ \A f \in Files : f[2] # read[i].a
  \/ /\ read[i].d = "elif" /\ read[i].a = "bad"
     /\ \E j \in Own(i) \cap Live : \A k \in Heads(j, i) : ~ Holds(Live, k)

-----------------------------------------------------------------------------
(* Properties *)

\* The variables keep their types.
TypeOK ==
  /\ \A i \in DOMAIN cond_incl : cond_incl[i] \in [ctx : {"then", "elif", "else"}, included : BOOLEAN]
  /\ skip \in Nat
  /\ skip > 0 => cond_incl # << >>
  /\ guards \in [Paths -> STRING]
  /\ pragma_once \subseteq Paths \cup {<<Here, "">>}
  /\ cache \in [Names -> Files \cup {Nowhere}]
  /\ include_next_idx \in 1 .. Len(Dirs) + 1
  /\ \A i \in DOMAIN files : files[i].path \in Paths
  /\ status \in {"run", "done", "error"}
  /\ count \in 0 .. MaxLines

\* The path C calls for: beside the file, for a quoted name; else the first
\* include path that has the name, or for #include_next the first behind the
\* one the current file was found in.
Wanted(l) ==
  LET behind == {i \in 1 .. Len(Dirs) : l.d = "include_next" =>
                                          \A k \in i .. Len(Dirs) : Dirs[k] # Current[1]}
      has == {i \in behind : <<Dirs[i], l.a>> \in Files}
  IN  CASE IsBeside(l) -> Beside(l.a)
        [] ~ IsBeside(l) /\ has = {} -> Bare(l.a)
        [] OTHER -> <<Dirs[CHOOSE i \in has : \A k \in has : i <= k], l.a>>

\* The file was found by the last search, an #include, in an include path,
\* and its name was not searched for before; or nothing was.
Fresh ==
  LET n == Len(found)
  IN  IF Open = << >> THEN n = 0
      ELSE /\ n > 0 /\ found[n] = [d |-> "include", path |-> Current]
           /\ Current[1] # "" /\ \A i \in 1 .. n - 1 : found[i].path[2] # Current[2]

\* Through nested headers, repeated inclusion and the cache, an #include
\* opens the file C calls for, and so does an #include_next that is the first
\* to search in a file which is Fresh: include_next_idx is what the last
\* search that missed the cache has left there.
IncludesFindTheirFile ==
  status = "run" /\ skip = 0 /\ rest # << >> /\ Head(rest).d \in Includes =>
    \/ Found(Head(rest)) = Wanted(Head(rest))
    \/ Head(rest).d = "include_next" /\ ~ Fresh

\* The result is the texts C calls for, in their order: of every section at
\* most one group is processed, the first whose condition holds when it is
\* met, through any nesting of sections in skipped groups and across headers;
\* and a header that was skipped for its include guard would have added
\* nothing.
\* And the macro table holds what the processed lines defined.
OutputIsLiveText ==
  status # "error" =>
    /\ out = LiveTexts
    /\ \A l \in Lines : l.d = "ifdef" => (l.a \in macros) = Defined(Live, l.a, Len(read) + 1)

\* The preprocessor stops at the first line that is an error and at no
\* other, line markers and #include_next apart; and a section left open is found at the end.
ErrorsAreReal ==
  /\ read # << >> =>
       Broken(Len(read)) = (/\ status = "error" /\ rest # << >>
                              /\ read[Len(read)].d \notin {"line", "include_next"})
  /\ status = "done" => Depth(Len(read)) = 0
  /\ status = "error" /\ rest = << >> => Depth(Len(read)) > 0
=============================================================================
