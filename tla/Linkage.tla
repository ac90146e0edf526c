------------------------------- MODULE Linkage -------------------------------
(***************************************************************************)
(* Which functions and variables of a translation unit reach the output.   *)
(* parser.c declares objects, records which functions each body refers to, *)
(* marks what is live (mark_live) and drops redundant tentative            *)
(* definitions (scan_globals); codegen.c emits what is left.               *)
(*                                                                         *)
(* The translation unit is any sequence of declarations, function bodies   *)
(* and initializers over a few names.                                      *)
(***************************************************************************)
EXTENDS Integers, Sequences, FiniteSets

CONSTANTS Funs, Vars,   \* names of functions and of variables
          Literal,      \* stands for the unique name of a string literal
          MaxObjs       \* bound: objects in the translation unit

ASSUME NamesAssumption == Funs \cap Vars = {} /\ Literal \notin Funs \cup Vars
ASSUME BoundAssumption == MaxObjs \in Nat

VARIABLES objs,        \* every struct Obj, by age; objs[i] is object i
          nxt,         \* obj->next, 0 for NULL
          globals,     \* head of the list of globals, 0 for NULL
          fileScope,   \* file scope: name -> object, 0 for none
          blockScope,  \* the block being parsed: name -> object, 0 for none
          current_fn,  \* 0 for NULL
          pc,          \* "file", "body", "mark", "scan", "done", "error"
          scanned,     \* scan_globals: var, cur and head.next
          uses         \* history: <<i, n>>, object i's body refers to function n;
                       \* <<0, n>>, the initializer of a variable does

vars == <<objs, nxt, globals, fileScope, blockScope, current_fn, pc, scanned, uses>>

Ids == 1 .. Len(objs)

Attrs == {"", "inline", "static inline", "extern inline"}

IsStatic(attr) == attr = "static inline"
IsInline(attr) == attr # ""
IsExtern(attr) == attr = "extern inline"

-----------------------------------------------------------------------------
(* The list of globals and the scopes *)

Obj == [name : Funs \cup Vars \cup {Literal}, is_function : BOOLEAN,
        is_definition : BOOLEAN, is_static : BOOLEAN, is_inline : BOOLEAN,
        is_root : BOOLEAN, is_live : BOOLEAN, is_tentative : BOOLEAN,
        refs : SUBSET Funs]

NewObj(n) == [name |-> n, is_function |-> FALSE, is_definition |-> TRUE,
              is_static |-> TRUE, is_inline |-> FALSE, is_root |-> FALSE,
              is_live |-> FALSE, is_tentative |-> FALSE, refs |-> {}]

\* new_gvar: the objects of s, oldest first, go to the front of the list.
Link(s) ==
  /\ Len(objs) + Len(s) <= MaxObjs
  /\ nxt' = nxt \o [k \in 1 .. Len(s) |-> IF k = 1 THEN globals ELSE Len(objs) + k - 1]
  /\ globals' = Len(objs) + Len(s)

\* The objects the list holds.
Chain(next, from) ==
  LET after[i \in 0 .. Len(objs)] == IF i = 0 THEN {} ELSE {i} \cup after[next[i]]
  IN  after[from]

\* find_func looks in the file scope only.
FindFunc(n) == fileScope[n]

\* find_var: the block, then the file.
FindVar(n) == IF blockScope[n] # 0 THEN blockScope[n] ELSE fileScope[n]

NoNames == [n \in Funs \cup Vars |-> 0]

Root(obj) == ~ (obj.is_static /\ obj.is_inline)

-----------------------------------------------------------------------------
(* Parsing *)

Init == /\ objs = << >>
        /\ nxt = << >>
        /\ globals = 0
        /\ fileScope = NoNames
        /\ blockScope = NoNames
        /\ current_fn = 0
        /\ pc = "file"
        /\ scanned = [var |-> 0, cur |-> 0, head |-> 0]
        /\ uses = {}

\* What function() leaves of the object of a redeclared function.
Redeclared(obj, isdef) ==
  LET o == [obj EXCEPT !.is_definition = @ \/ isdef]
  IN  [o EXCEPT !.is_root = Root(o)]

\* What function() makes of a function it sees for the first time.
Declared(n, attr, isdef) ==
  LET o == [NewObj(n) EXCEPT !.is_function = TRUE, !.is_definition = isdef,
              !.is_static = IsStatic(attr) \/ (IsInline(attr) /\ ~ IsExtern(attr)),
              !.is_inline = IsInline(attr)]
  IN  [o EXCEPT !.is_root = Root(o)]

\* "redefinition of", "static declaration follows a non-static declaration"
Conflict(n, attr, isdef) ==
  LET fn == objs[FindFunc(n)]
  IN  FindFunc(n) # 0 /\ \/ fn.is_definition /\ isdef
                         \/ ~ fn.is_static /\ IsStatic(attr)

Reject(n, attr, isdef) ==
  /\ pc = "file"
  /\ Conflict(n, attr, isdef)
  /\ pc' = "error"
  /\ UNCHANGED <<objs, nxt, globals, fileScope, blockScope, current_fn, scanned, uses>>

\* A declaration of a function at file scope, ended by ";".
Prototype(n, attr) ==
  /\ pc = "file"
  /\ ~ Conflict(n, attr, FALSE)
  /\ IF FindFunc(n) # 0
     THEN /\ objs' = [objs EXCEPT ![FindFunc(n)] = Redeclared(@, FALSE)]
          /\ UNCHANGED <<nxt, globals, fileScope>>
     ELSE /\ objs' = Append(objs, Declared(n, attr, FALSE))
          /\ Link(<<n>>)
          /\ fileScope' = [fileScope EXCEPT ![n] = Len(objs')]
  /\ UNCHANGED <<blockScope, current_fn, pc, scanned, uses>>

\* The head of a function definition; __func__ is a string literal.
Define(n, attr) ==
  /\ pc = "file"
  /\ ~ Conflict(n, attr, TRUE)
  /\ IF FindFunc(n) # 0
     THEN /\ objs' = Append([objs EXCEPT ![FindFunc(n)] = Redeclared(@, TRUE)], NewObj(Literal))
          /\ Link(<<Literal>>)
          /\ current_fn' = FindFunc(n)
          /\ UNCHANGED fileScope
     ELSE /\ objs' = objs \o <<Declared(n, attr, TRUE), NewObj(Literal)>>
          /\ Link(<<n, Literal>>)
          /\ current_fn' = Len(objs) + 1
          /\ fileScope' = [fileScope EXCEPT ![n] = Len(objs) + 1]
  /\ pc' = "body"
  /\ UNCHANGED <<blockScope, scanned, uses>>

\* A declaration of a function inside a body: found in the file scope, or
\* entered in the scope of the block.
BlockPrototype(n) ==
  /\ pc = "body"
  /\ IF FindFunc(n) # 0
     THEN /\ objs' = [objs EXCEPT ![FindFunc(n)] = Redeclared(@, FALSE)]
          /\ UNCHANGED <<nxt, globals, blockScope>>
     ELSE /\ objs' = Append(objs, Declared(n, "", FALSE))
          /\ Link(<<n>>)
          /\ blockScope' = [blockScope EXCEPT ![n] = Len(objs')]
  /\ UNCHANGED <<fileScope, current_fn, pc, scanned, uses>>

\* Faulty: only references to functions already defined are recorded.
RecordedIfDefined(n) ==
  IF current_fn # 0 /\ objs[FindVar(n)].is_definition
  THEN [objs EXCEPT ![current_fn].refs = @ \cup {n}]
  ELSE objs

\* primary() on the name of a function: it goes to the refs of current_fn,
\* or, when that is NULL, makes the function a root.
Recorded(n) ==
  IF current_fn # 0
  THEN [objs EXCEPT ![current_fn].refs = @ \cup {n}]
  ELSE [objs EXCEPT ![FindVar(n)].is_root = TRUE]

Refer(n) ==
  /\ pc = "body"
  /\ FindVar(n) # 0
  /\ objs' = Recorded(n)
  /\ uses' = uses \cup {<<current_fn, n>>}
  /\ UNCHANGED <<nxt, globals, fileScope, blockScope, current_fn, pc, scanned>>

\* The closing brace: leave_scope().
EndBody ==
  /\ pc = "body"
  /\ blockScope' = NoNames
  /\ pc' = "file"
  /\ UNCHANGED <<objs, nxt, globals, fileScope, current_fn, scanned, uses>>

\* A variable at file scope: extern, tentative, or with an initializer (at
\* most one for a name, as C demands).
Variable(v, kind) ==
  /\ pc = "file"
  /\ kind = "init" =>
       ~ \E i \in Ids : objs[i].name = v /\ objs[i].is_definition /\ ~ objs[i].is_tentative
  /\ objs' = Append(objs, [NewObj(v) EXCEPT !.is_static = FALSE,
                                            !.is_definition = kind # "extern",
                                            !.is_tentative = kind = "tentative"])
  /\ Link(<<v>>)
  /\ fileScope' = [fileScope EXCEPT ![v] = Len(objs')]
  /\ UNCHANGED <<blockScope, current_fn, pc, scanned, uses>>

\* The initializer of the variable just declared names a function.
ReferInData(n) ==
  /\ pc = "file"
  /\ Len(objs) > 0
  /\ objs[Len(objs)].name \in Vars
  /\ objs[Len(objs)].is_definition /\ ~ objs[Len(objs)].is_tentative
  /\ FindVar(n) # 0
  /\ objs' = Recorded(n)
  /\ uses' = uses \cup {<<0, n>>}
  /\ UNCHANGED <<nxt, globals, fileScope, blockScope, current_fn, pc, scanned>>

EndOfFile ==
  /\ pc = "file"
  /\ pc' = "mark"
  /\ UNCHANGED <<objs, nxt, globals, fileScope, blockScope, current_fn, scanned, uses>>

-----------------------------------------------------------------------------
(* mark_live and scan_globals *)

\* Faulty: the references of dead functions count.
MarksOfAll(i) ==
  \/ objs[i].is_root
  \/ \E j \in Ids : \E n \in objs[j].refs : FindFunc(n) = i

\* mark_live() is called on i: for a root, or for a name in the refs of an
\* object already marked.
Marks(i) ==
  \/ objs[i].is_root
  \/ \E j \in Ids : objs[j].is_live /\ \E n \in objs[j].refs : FindFunc(n) = i

MarkLive(i) ==
  /\ pc = "mark"
  /\ objs[i].is_function
  /\ ~ objs[i].is_live
  /\ Marks(i)
  /\ objs' = [objs EXCEPT ![i].is_live = TRUE]
  /\ UNCHANGED <<nxt, globals, fileScope, blockScope, current_fn, pc, scanned, uses>>

MarkDone ==
  /\ pc = "mark"
  /\ \A i \in Ids : objs[i].is_function /\ Marks(i) => objs[i].is_live
  /\ pc' = "scan"
  /\ scanned' = [var |-> globals, cur |-> 0, head |-> 0]
  /\ UNCHANGED <<objs, nxt, globals, fileScope, blockScope, current_fn, uses>>

\* Faulty: other tentative definitions do not count.
OtherRealDefinition(i) ==
  \E j \in Chain(nxt, globals) \ {i} :
    objs[j].is_definition /\ ~ objs[j].is_tentative /\ objs[j].name = objs[i].name

\* The inner loop of scan_globals: it runs over the list as it is linked now.
OtherDefinition(i) ==
  \E j \in Chain(nxt, globals) \ {i} : objs[j].is_definition /\ objs[j].name = objs[i].name

Redundant(i) == objs[i].is_tentative /\ OtherDefinition(i)

\* cur = cur->next = var; head is a local, object 0 here.
Keep ==
  /\ pc = "scan"
  /\ scanned.var # 0
  /\ ~ Redundant(scanned.var)
  /\ IF scanned.cur = 0
     THEN /\ scanned' = [var |-> nxt[scanned.var], cur |-> scanned.var, head |-> scanned.var]
          /\ UNCHANGED nxt
     ELSE /\ scanned' = [scanned EXCEPT !.var = nxt[scanned.var], !.cur = scanned.var]
          /\ nxt' = [nxt EXCEPT ![scanned.cur] = scanned.var]
  /\ UNCHANGED <<objs, globals, fileScope, blockScope, current_fn, pc, uses>>

Drop ==
  /\ pc = "scan"
  /\ scanned.var # 0
  /\ Redundant(scanned.var)
  /\ scanned' = [scanned EXCEPT !.var = nxt[scanned.var]]
  /\ UNCHANGED <<objs, nxt, globals, fileScope, blockScope, current_fn, pc, uses>>

\* cur->next = NULL; globals = head.next
ScanDone ==
  /\ pc = "scan"
  /\ scanned.var = 0
  /\ nxt' = IF scanned.cur = 0 THEN nxt ELSE [nxt EXCEPT ![scanned.cur] = 0]
  /\ globals' = scanned.head
  /\ pc' = "done"
  /\ UNCHANGED <<objs, fileScope, blockScope, current_fn, scanned, uses>>

Declare == \/ \E n \in Funs, attr \in Attrs :
                \/ Prototype(n, attr) \/ Define(n, attr)
                \/ \E isdef \in BOOLEAN : Reject(n, attr, isdef)
           \/ \E n \in Funs : BlockPrototype(n) \/ Refer(n) \/ ReferInData(n)
           \/ \E v \in Vars, kind \in {"extern", "tentative", "init"} : Variable(v, kind)
           \/ EndBody
           \/ EndOfFile

Finish == \/ \E i \in Ids : MarkLive(i)
          \/ MarkDone \/ Keep \/ Drop \/ ScanDone

Next == Declare \/ Finish

Spec == Init /\ [][Next]_vars

-----------------------------------------------------------------------------
(* Properties *)

\* The variables keep their types.
TypeOK ==
  /\ objs \in Seq(Obj) /\ Len(objs) <= MaxObjs
  /\ nxt \in Seq(0 .. Len(objs)) /\ Len(nxt) = Len(objs)
  /\ globals \in 0 .. Len(objs)
  /\ fileScope \in [Funs \cup Vars -> 0 .. Len(objs)]
  /\ blockScope \in [Funs \cup Vars -> 0 .. Len(objs)]
  /\ current_fn \in 0 .. Len(objs)
  /\ pc \in {"file", "body", "mark", "scan", "done", "error"}
  /\ scanned \in [var : 0 .. Len(objs), cur : 0 .. Len(objs), head : 0 .. Len(objs)]
  /\ uses \subseteq (0 .. Len(objs)) \X Funs

\* emit_data and emit_text
Emitted == {i \in Chain(nxt, globals) : /\ objs[i].is_definition
                                        /\ objs[i].is_function => objs[i].is_live}

EmittedNames == {objs[i].name : i \in Emitted}

DefinedNames == {objs[i].name : i \in {j \in Ids : objs[j].is_definition}}

\* A function some emitted function calls is emitted, if it is defined here:
\* whatever the order of prototypes, definitions and block-scope
\* declarations, pruning static inline functions never cuts a call.
CallsResolved ==
  pc = "done" =>
    \A u \in uses : u[1] \in Emitted /\ u[2] \in DefinedNames => u[2] \in EmittedNames

\* parser.c "For static inline function", codegen.c "No code is emitted for
\* static inline functions if no one is referencing them": one an
\* initializer refers to is emitted.
DataResolved ==
  pc = "done" => \A u \in uses : u[1] = 0 /\ u[2] \in DefinedNames => u[2] \in EmittedNames

\* Sets of objects that hold every root C demands and whatever their members
\* and the data of the unit refer to.
Closed(S) ==
  /\ \A i \in Ids : objs[i].is_function /\ Root(objs[i]) => i \in S
  /\ \A u \in uses : u[1] \in S \cup {0} /\ FindFunc(u[2]) # 0 => FindFunc(u[2]) \in S

\* No dead code: an emitted function is a root or is reached, through other
\* functions, from a root or from data.
EmittedIsNeeded ==
  pc = "done" =>
    \A i \in Emitted : objs[i].is_function =>
      \A S \in SUBSET Ids : Closed(S) => i \in S

RealDefinitions(v) ==
  {i \in Ids : objs[i].name = v /\ objs[i].is_definition /\ ~ objs[i].is_tentative}

EmittedOf(v) == {i \in Emitted : objs[i].name = v}

\* However tentative and real definitions of a variable are mixed, at most
\* one survives, and it is the real one when there is one.
OneDefinition ==
  pc = "done" => \A v \in Vars : /\ Cardinality(EmittedOf(v)) <= 1
                                 /\ RealDefinitions(v) # {} => EmittedOf(v) = RealDefinitions(v)
=============================================================================
