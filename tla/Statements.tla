----------------------------- MODULE Statements -----------------------------
(***************************************************************************)
(* The statements of a function: stmt() of parser/parser.c, which gives     *)
(* break, continue, case and goto their labels, gen_stmt() of codegen.c,    *)
(* which turns the tree into labels and jumps, and the execution of that    *)
(* code, side by side with the execution of the statements as C defines it. *)
(*                                                                         *)
(* The source is chosen statement by statement while it is parsed.  Of an   *)
(* expression only the fact that it is evaluated is left, and the value it  *)
(* has as a condition; evaluating one, and reaching a break, a continue, a  *)
(* goto or a return, is an event.  The code must go through the same events *)
(* as the statements, whatever the conditions turn out to be.               *)
(***************************************************************************)
EXTENDS Integers, Sequences, FiniteSets, SequencesExt

CONSTANTS Limits,     \* bounds: how many statements of each kind, and in all
          Ranges,     \* case labels, <<begin, end>>
          Names,      \* names of labels
          Values      \* values of the expressions that are switched on

Leaves == {"expr", "break", "continue", "goto", "return"}
Loops == {"while", "do", "for"}
Labelling == {"case", "default", "label"}
Kinds == Leaves \cup Loops \cup Labelling \cup {"if", "switch", "block"}

ASSUME LimitsAssumption == \A l \in Limits : l \in [Kinds \cup {"all"} -> Nat]
ASSUME RangesAssumption == \A r \in Ranges : Len(r) = 2 /\ r[1] \in Nat /\ r[2] \in Nat

VARIABLES limit,           \* one of Limits
          tree,            \* the nodes, in the order of the source
          stack,           \* the calls of stmt() that wait for a statement of theirs
          expecting,       \* a statement comes next, not what follows one
          brk_label, cont_label, current_switch,
          code,            \* what gen_stmt() prints
          pc, a0,          \* the machine
          ref,             \* where the execution of the statements is
          status           \* "parse", "run", or the error

parserVars == <<limit, tree, stack, expecting, brk_label, cont_label, current_switch>>
machineVars == <<code, pc, a0, ref>>
vars == <<parserVars, machineVars, status>>

NoLabel == <<>>
NoSwitch == 0

-----------------------------------------------------------------------------
(* The tree *)

Kids(n) == SelectSeq([i \in DOMAIN tree |-> i], LAMBDA k : tree[k].up = n)
\* The innermost statement of the given kinds around n, or 0.
Enclosing(n, kinds) ==
  LET up[k \in DOMAIN tree] ==
        LET p == tree[k].up
        IN  IF p = 0 THEN 0 ELSE IF tree[p].kind \in kinds THEN p ELSE up[p]
  IN  up[n]

Node(kind, arg) == [kind |-> kind, arg |-> arg, up |-> Last(stack).node,
                    label |-> NoLabel, cases |-> <<>>, default_case |-> 0]
Frame(n) == [node |-> n, brk |-> brk_label, cont |-> cont_label, switch |-> current_switch]

-----------------------------------------------------------------------------
(* parser.c: stmt() *)

Init == /\ limit \in Limits
        /\ tree = <<[kind |-> "block", arg |-> <<>>, up |-> 0, label |-> NoLabel,
                     cases |-> <<>>, default_case |-> 0]>>
        /\ stack = <<[node |-> 1, brk |-> NoLabel, cont |-> NoLabel, switch |-> NoSwitch]>>
        /\ expecting = FALSE
        /\ brk_label = NoLabel /\ cont_label = NoLabel
        /\ current_switch = NoSwitch
        /\ code = <<>> /\ pc = 0 /\ a0 = 0 /\ ref = <<"enter", 1>>
        /\ status = "parse"

Fits(kind, more) ==
  /\ status = "parse"
  /\ expecting
  /\ Len(tree) + more < limit["all"]
  /\ Cardinality({n \in DOMAIN tree : tree[n].kind = kind}) < limit[kind]

\* A statement without statements inside.
Leaf(kind, arg, label) ==
  /\ Fits(kind, 0)
  /\ tree' = Append(tree, [Node(kind, arg) EXCEPT !.label = label])
  /\ expecting' = FALSE
  /\ UNCHANGED <<limit, stack, brk_label, cont_label, current_switch, machineVars>>

\* The beginning of a statement that has others inside.
Open(kind, arg) ==
  /\ Fits(kind, IF kind = "block" THEN 0 ELSE 1)
  /\ tree' = Append(tree, Node(kind, arg))
  /\ stack' = Append(stack, Frame(Len(tree) + 1))
  /\ expecting' = (kind # "block")
  /\ UNCHANGED <<limit, machineVars, status>>

Error(what) == /\ status' = what
               /\ UNCHANGED machineVars

ExprStmt == Leaf("expr", <<>>, NoLabel) /\ UNCHANGED status
Return == Leaf("return", <<>>, NoLabel) /\ UNCHANGED status
Goto(name) == Leaf("goto", name, NoLabel) /\ UNCHANGED status

Break == /\ Leaf("break", <<>>, brk_label)
         /\ status' = IF brk_label = NoLabel THEN "stray break" ELSE status

Continue == /\ Leaf("continue", <<>>, cont_label)
            /\ status' = IF cont_label = NoLabel THEN "stray continue" ELSE status

Enclose == UNCHANGED <<brk_label, cont_label, current_switch>>

If == Open("if", <<>>) /\ Enclose
Block == Open("block", <<>>) /\ Enclose

Loop(kind) == /\ Open(kind, <<>>)
              /\ brk_label' = <<"brk", Len(tree) + 1>>
              /\ cont_label' = <<"cont", Len(tree) + 1>>
              /\ UNCHANGED current_switch

Switch == /\ Open("switch", <<>>)
          /\ current_switch' = Len(tree) + 1
          /\ brk_label' = <<"brk", Len(tree) + 1>>
          /\ UNCHANGED cont_label

\* The source is C: no two labels of a function or of a switch are the same.
NewLabel(name) == \A n \in DOMAIN tree : tree[n].kind = "label" => tree[n].arg # name
NewCase(kind, range) ==
  \A n \in DOMAIN tree :
    tree[n].kind = kind /\ Enclosing(n, {"switch"}) = current_switch
    => kind = "case" /\ (tree[n].arg[2] < range[1] \/ range[2] < tree[n].arg[1])

Case(range) == /\ current_switch # NoSwitch
               /\ range[1] <= range[2]
               /\ NewCase("case", range)
               /\ Open("case", range)
               /\ Enclose

Default == /\ current_switch # NoSwitch
           /\ NewCase("default", <<>>)
           /\ Open("default", <<>>)
           /\ Enclose

Labelled(name) == NewLabel(name) /\ Open("label", name) /\ Enclose

CaseRejected(kind, range) ==
  /\ Fits(kind, 1)
  /\ IF current_switch = NoSwitch THEN Error("stray " \o kind)
     ELSE kind = "case" /\ range[2] < range[1] /\ Error("empty case range")
  /\ tree' = Append(tree, Node(kind, range))
  /\ UNCHANGED <<limit, stack, expecting, brk_label, cont_label, current_switch>>

\* What follows a statement: its parent ends, or goes on to its next part.
Parent == tree[Last(stack).node]
After(kinds) == /\ status = "parse"
                /\ ~expecting
                /\ stack # <<>>
                /\ Parent.kind \in kinds

Close == /\ stack' = Front(stack)
         /\ UNCHANGED expecting

CloseLoop == /\ After(Loops)
             /\ brk_label' = Last(stack).brk
             /\ cont_label' = Last(stack).cont
             /\ Close
             /\ UNCHANGED <<limit, tree, current_switch, machineVars, status>>

\* Mutant: "break" has nothing to refer to behind a switch.
CloseSwitchClears == /\ After({"switch"})
                     /\ current_switch' = Last(stack).switch
                     /\ brk_label' = NoLabel
                     /\ Close
                     /\ UNCHANGED <<limit, tree, cont_label, machineVars, status>>

CloseSwitch == /\ After({"switch"})
               /\ current_switch' = Last(stack).switch
               /\ brk_label' = Last(stack).brk
               /\ Close
               /\ UNCHANGED <<limit, tree, cont_label, machineVars, status>>

\* current_switch->case_next, the list the new one is put in front of, and
\* current_switch->default_case
CloseCase == /\ After({"case", "default"})
             /\ tree' = IF Parent.kind = "default"
                        THEN [tree EXCEPT ![current_switch].default_case = Last(stack).node]
                        ELSE [tree EXCEPT ![current_switch].cases = <<Last(stack).node>> \o @]
             /\ Close
             /\ Enclose
             /\ UNCHANGED <<limit, machineVars, status>>

CloseOther == /\ After({"if", "label"})
              /\ Close
              /\ Enclose
              /\ UNCHANGED <<limit, tree, machineVars, status>>

Else == /\ After({"if"})
        /\ Len(Kids(Last(stack).node)) = 1
        /\ Len(tree) < limit["all"]
        /\ expecting' = TRUE
        /\ Enclose
        /\ UNCHANGED <<limit, tree, stack, machineVars, status>>

NextInBlock == /\ After({"block"})
               /\ Len(tree) < limit["all"]
               /\ expecting' = TRUE
               /\ Enclose
               /\ UNCHANGED <<limit, tree, stack, machineVars, status>>

CloseBlock == /\ After({"block"})
              /\ Len(stack) > 1
              /\ Close
              /\ Enclose
              /\ UNCHANGED <<limit, tree, machineVars, status>>

\* resolve_goto_labels(): the label, or 0.
Labels(name) == {n \in DOMAIN tree : tree[n].kind = "label" /\ tree[n].arg = name}
Gotos == {n \in DOMAIN tree : tree[n].kind = "goto"}
Undeclared == {n \in Gotos : Labels(tree[n].arg) = {}}
Resolved == [n \in DOMAIN tree |->
               IF n \in Gotos \ Undeclared
               THEN [tree[n] EXCEPT !.label = <<"label", CHOOSE k \in Labels(tree[n].arg) : TRUE>>]
               ELSE tree[n]]

-----------------------------------------------------------------------------
(* codegen.c: gen_stmt() *)

\* An instruction is <<operation, node, label>> or, for the comparisons of a
\* switch, <<operation, node, label, range>>.
Does(what, n) == <<what, n, NoLabel>>
Put(label) == <<"label", 0, label>>
Jump(label) == <<"j", 0, label>>
\* gen_expr(cond); cmp_zero(cond->ty); bnez or beqz a0, label
JumpIfFalse(n, label) == <<"bnez", n, label>>
JumpIfTrue(n, label) == <<"beqz", n, label>>

Brk(n) == <<"brk", n>>
Cont(n) == <<"cont", n>>

Compare(t, k) == IF t[k].arg[1] = t[k].arg[2] THEN <<"beq", k, <<"case", k>>, t[k].arg>>
                 ELSE <<"bleu", k, <<"case", k>>, t[k].arg>>

Dispatch(t, n) ==
  <<Does("value", n)>>
  \o [i \in DOMAIN t[n].cases |-> Compare(t, t[n].cases[i])]
  \o (IF t[n].default_case = 0 THEN <<>> ELSE <<Jump(<<"case", t[n].default_case>>)>>)
  \o <<Jump(Brk(n))>>

IfCode(n, then, els) ==
  <<JumpIfFalse(n, <<"else", n>>)>> \o then \o <<Jump(<<"end", n>>), Put(<<"else", n>>)>>
  \o els \o <<Put(<<"end", n>>)>>

\* Mutant: the loop goes back behind its condition.
ForCodeTestedOnce(n, init, body, inc) ==
  init \o <<JumpIfFalse(n, Brk(n)), Put(<<"begin", n>>)>> \o body
  \o <<Put(Cont(n))>> \o inc \o <<Jump(<<"begin", n>>), Put(Brk(n))>>

\* Mutant: "continue" passes over the last expression of the loop.
ForCodeSkipsInc(n, init, body, inc) ==
  init \o <<Put(<<"begin", n>>), JumpIfFalse(n, Brk(n))>> \o body
  \o inc \o <<Put(Cont(n)), Jump(<<"begin", n>>), Put(Brk(n))>>

ForCode(n, init, body, inc) ==
  init \o <<Put(<<"begin", n>>), JumpIfFalse(n, Brk(n))>> \o body
  \o <<Put(Cont(n))>> \o inc \o <<Jump(<<"begin", n>>), Put(Brk(n))>>

DoCode(n, body) ==
  <<Put(<<"begin", n>>)>> \o body
  \o <<Put(Cont(n)), JumpIfTrue(n, <<"begin", n>>), Put(Brk(n))>>

gen_stmt(t) ==
  LET gen[n \in DOMAIN t] ==
        LET kids == SelectSeq([i \in DOMAIN t |-> i], LAMBDA k : t[k].up = n)
            kid(i) == gen[kids[i]]
            kind == t[n].kind
        IN  CASE kind = "expr" -> <<Does("at", n)>>
              [] kind \in {"break", "continue", "goto"} -> <<Does("at", n), Jump(t[n].label)>>
              [] kind = "return" -> <<Does("at", n), Jump(<<"return", 0>>)>>
              [] kind = "if" -> IfCode(n, kid(1), IF Len(kids) = 2 THEN kid(2) ELSE <<>>)
              [] kind = "while" -> ForCode(n, <<>>, kid(1), <<>>)
              [] kind = "for" -> ForCode(n, <<Does("init", n)>>, kid(1), <<Does("inc", n)>>)
              [] kind = "do" -> DoCode(n, kid(1))
              [] kind = "switch" -> Dispatch(t, n) \o kid(1) \o <<Put(Brk(n))>>
              [] kind \in {"case", "default"} -> <<Put(<<"case", n>>)>> \o kid(1)
              [] kind = "label" -> <<Put(<<"label", n>>)>> \o kid(1)
              [] kind = "block" -> FlattenSeq([i \in DOMAIN kids |-> kid(i)])
  IN  gen[1] \o <<Put(<<"return", 0>>)>>

-----------------------------------------------------------------------------
(* The statements as C executes them; ref is <<"enter", n>> before and       *)
(* <<"leave", n>> behind a statement, <<"cond", n>> and <<"inc", n>> at the   *)
(* condition and the last expression of a loop, <<"end">> at the end.        *)

EventOf(r) ==
  LET at == r[1]
      kind == IF at = "end" THEN "end" ELSE tree[r[2]].kind
  IN  IF at = "enter"
      THEN CASE kind \in Leaves -> <<"at", r[2]>>
             [] kind \in {"if", "while"} -> <<"cond", r[2]>>
             [] kind = "for" -> <<"init", r[2]>>
             [] kind = "switch" -> <<"value", r[2]>>
             [] OTHER -> <<>>
      ELSE IF at = "leave" THEN <<>> ELSE r

NextSibling(n) == Kids(tree[n].up)[1 + CHOOSE i \in DOMAIN Kids(tree[n].up) : Kids(tree[n].up)[i] = n]

\* Where execution goes from a point that is not an event.
Silent(r) ==
  LET n == r[2]
      p == tree[n].up
  IN  IF r[1] = "enter"
      THEN IF Kids(n) = <<>> THEN <<"leave", n>> ELSE <<"enter", Kids(n)[1]>>
      ELSE IF p = 0 THEN <<"end">>
      ELSE CASE tree[p].kind = "block" -> IF n = Last(Kids(p)) THEN <<"leave", p>> ELSE <<"enter", NextSibling(n)>>
             [] tree[p].kind \in {"while", "do"} -> <<"cond", p>>
             [] tree[p].kind = "for" -> <<"inc", p>>
             [] OTHER -> <<"leave", p>>

Points == ({"enter", "leave", "cond", "inc"} \X DOMAIN tree) \cup {<<"end">>}
ToEvent(point) ==
  LET walk[r \in Points] == IF EventOf(r) # <<>> THEN r ELSE walk[Silent(r)]
  IN  walk[point]

Selected(n, v) ==
  LET inside == {k \in DOMAIN tree : tree[k].kind \in {"case", "default"} /\ Enclosing(k, {"switch"}) = n}
      fit == {k \in inside : tree[k].kind = "case" /\ v \in tree[k].arg[1] .. tree[k].arg[2]}
      other == {k \in inside : tree[k].kind = "default"}
  IN  IF fit # {} THEN <<"enter", CHOOSE k \in fit : TRUE>>
      ELSE IF other # {} THEN <<"enter", CHOOSE k \in other : TRUE>>
      ELSE <<"leave", n>>

\* Where it goes from an event; v is the value of the expression.
RefAfter(v) ==
  LET n == ref[2]
      event == EventOf(ref)[1]
      kind == tree[n].kind
  IN  CASE event = "init" \/ event = "inc" -> <<"cond", n>>
        [] event = "value" -> Selected(n, v)
        [] event = "cond" -> IF v # 0 THEN <<"enter", Kids(n)[1]>>
                             ELSE IF Len(Kids(n)) = 2 THEN <<"enter", Kids(n)[2]>>
                             ELSE <<"leave", n>>
        [] event = "at" ->
             CASE kind = "expr" -> <<"leave", n>>
               [] kind = "return" -> <<"end">>
               [] kind = "break" -> <<"leave", Enclosing(n, Loops \cup {"switch"})>>
               [] kind = "continue" ->
                    LET loop == Enclosing(n, Loops)
                    IN  IF tree[loop].kind = "for" THEN <<"inc", loop>> ELSE <<"cond", loop>>
               [] kind = "goto" ->
                    <<"enter", CHOOSE k \in Labels(tree[n].arg) : TRUE>>

-----------------------------------------------------------------------------
(* The machine *)

Instr == code[pc]
\* A label is no instruction: pc is never at one.
Skip(c, i) == CHOOSE k \in i .. Len(c) + 1 :
                /\ k <= Len(c) => c[k][1] # "label"
                /\ \A j \in i .. k - 1 : c[j][1] = "label"
Following == Skip(code, pc + 1)
Target(label) == Skip(code, CHOOSE i \in DOMAIN code : code[i] = Put(label))
Word == 2^16    \* a register, scaled down from 2^64

MachEvent == IF pc > Len(code) THEN <<"end">>
             ELSE CASE Instr[1] \in {"at", "init", "inc", "value"} -> <<Instr[1], Instr[2]>>
                    [] Instr[1] \in {"bnez", "beqz"} -> <<"cond", Instr[2]>>
                    [] OTHER -> <<>>

MachSilent ==
  CASE Instr[1] = "j" -> Target(Instr[3])
    [] Instr[1] = "beq" -> IF a0 = Instr[4][1] THEN Target(Instr[3]) ELSE Following
    [] Instr[1] = "bleu" -> IF (a0 - Instr[4][1]) % Word <= Instr[4][2] - Instr[4][1]
                            THEN Target(Instr[3]) ELSE Following

MachAfter(v) ==
  IF \/ Instr[1] = "bnez" /\ v = 0
     \/ Instr[1] = "beqz" /\ v # 0
  THEN Target(Instr[3]) ELSE Following

Running == status = "run"
RefEvent == EventOf(ref)

\* The end of the function: what was parsed is compiled and run.
EndOfFunction ==
  /\ After({"block"})
  /\ Len(stack) = 1
  /\ stack' = <<>>
  /\ tree' = Resolved
  /\ IF Undeclared # {} THEN /\ status' = "use of undeclared label"
                             /\ UNCHANGED <<code, pc, ref>>
     ELSE /\ status' = "run"
          /\ code' = gen_stmt(Resolved)
          /\ pc' = Skip(code', 1)
          /\ ref' = ToEvent(ref)
  /\ UNCHANGED <<limit, expecting, brk_label, cont_label, current_switch, a0>>

MachStep == /\ Running
            /\ MachEvent = <<>>
            /\ pc' = MachSilent
            /\ UNCHANGED <<parserVars, code, a0, ref, status>>

\* Both are at the same event, with the same outcome.
Both == /\ Running
        /\ RefEvent # <<"end">>
        /\ MachEvent = RefEvent
        /\ \E v \in CASE RefEvent[1] = "cond" -> {0, 1}
                      [] RefEvent[1] = "value" -> Values
                      [] OTHER -> {0} :
             /\ ref' = ToEvent(RefAfter(v))
             /\ pc' = MachAfter(v)
             /\ a0' = IF RefEvent[1] = "value" THEN v ELSE 0
        /\ UNCHANGED <<parserVars, code, status>>

-----------------------------------------------------------------------------
Parse == \/ ExprStmt \/ Return \/ Break \/ Continue \/ If \/ Block \/ Switch \/ Default
         \/ \E kind \in Loops : Loop(kind)
         \/ \E name \in Names : Goto(name) \/ Labelled(name)
         \/ \E range \in Ranges : Case(range) \/ CaseRejected("case", range)
         \/ CaseRejected("default", <<>>)
         \/ CloseLoop \/ CloseSwitch \/ CloseCase \/ CloseOther \/ CloseBlock
         \/ Else \/ NextInBlock \/ EndOfFunction

Run == MachStep \/ Both

Next == Parse \/ Run

Spec == Init /\ [][Next]_vars
\* The processor goes on.
FairSpec == Spec /\ WF_vars(Run)

-----------------------------------------------------------------------------
(* Properties *)

\* What stmt() keeps in its variables always belongs to a statement that has
\* not ended; the rest has its type.
OpenNodes == {stack[i].node : i \in DOMAIN stack}
TypeOK ==
  /\ \A n \in DOMAIN tree : tree[n].kind \in Kinds /\ tree[n].up \in 0 .. n - 1
  /\ Len(tree) <= limit["all"]
  /\ OpenNodes \subseteq DOMAIN tree
  /\ brk_label \in {NoLabel} \cup {Brk(n) : n \in OpenNodes}
  /\ cont_label \in {NoLabel} \cup {Cont(n) : n \in OpenNodes}
  /\ current_switch \in {NoSwitch} \cup OpenNodes
  /\ pc \in 0 .. Len(code) + 1
  /\ a0 \in Values \cup {0}

\* The generated code goes through the events of the statements: every
\* condition is tested, every statement reached, in the order in which C
\* reaches them, however loops, switches, labels and jumps are nested.
SameEvents == Running /\ MachEvent # <<>> => MachEvent = RefEvent

\* A break, continue, case or goto is rejected only when there is nothing it
\* could refer to.
RejectedIsWrong ==
  LET n == Len(tree)
  IN  /\ status = "stray break" => Enclosing(n, Loops \cup {"switch"}) = 0
      /\ status = "stray continue" => Enclosing(n, Loops) = 0
      /\ status \in {"stray case", "stray default"} => Enclosing(n, {"switch"}) = 0
      /\ status = "use of undeclared label" =>
           \E k \in Gotos : \A l \in DOMAIN tree : tree[l].kind = "label" => tree[l].arg # tree[k].arg

\* Between two events the code does not go round in circles: it gets to the
\* next one, or to the end.
ReachesEvents == Running ~> (Running /\ MachEvent # <<>>)
=============================================================================
