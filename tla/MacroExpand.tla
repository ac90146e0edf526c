----------------------------- MODULE MacroExpand -----------------------------
(***************************************************************************)
(* Macro expansion in preprocess.c: preprocess2 copies a list of tokens and*)
(* expands the macros in it, subst puts the arguments of an invocation into*)
(* the macro's body, and each calls the other, preprocess2 for an argument *)
(* that is to be expanded first.  A token carries its hideset, the names it*)
(* is not to be expanded by any more.                                      *)
(*                                                                         *)
(* The call stack is a sequence of frames, the running call at its head.   *)
(* A list of tokens is a sequence.  preprocess2 links the very tokens it is*)
(* given, which matters for arguments, since they are used again: a token  *)
(* of an argument knows its place in it (at), and the argument is updated  *)
(* when preprocess2 returns.                                               *)
(*                                                                         *)
(* The text of a token is a sequence of spellings: <<"f">> is an identifier*)
(* or a punctuator, <<"a", "b">> two pasted into one, and a string literal *)
(* begins with a quotation mark.                                           *)
(***************************************************************************)
EXTENDS Naturals, Sequences, FiniteSets

CONSTANTS
  Tables,     \* the macro tables: functions from texts to macros
  Texts,      \* the lines of text to expand
  MaxTokens   \* bound: longer lists are not expanded any further

Punctuators == {<<"(">>, <<")">>, <<",">>, <<"#">>, <<"##">>}

\* A macro: object-like, or function-like with its parameters.
Object(body)           == [isObjlike |-> TRUE,  params |-> <<>>,   body |-> body]
Function(params, body) == [isObjlike |-> FALSE, params |-> params, body |-> body]

Token(t) == [text |-> t, hideset |-> {}, at |-> 0]
Tokens(texts) == [i \in DOMAIN texts |-> Token(texts[i])]
TextsOf(toks) == [i \in DOMAIN toks |-> toks[i].text]

VARIABLES
  macros,   \* the macro table
  line,     \* the line that is expanded
  stack,    \* the calls of preprocess2 and subst, the running one first
  status    \* "running", "done", "error" or "crash"

vars == <<macros, line, stack, status>>

\* preprocess2: the list still to be read, and the list made so far.
Preprocess(in) == [call |-> "preprocess2", in |-> in, out |-> <<>>]

\* subst: the rest of the body, the arguments by parameter, the hideset of
\* the result and the tokens behind the invocation.
Subst(body, args, hs, rest) ==
  [call |-> "subst", in |-> body, out |-> <<>>, args |-> args, hs |-> hs,
   rest |-> rest]

Init ==
  /\ macros \in Tables
  /\ line \in Texts
  /\ stack = <<Preprocess(Tokens(line))>>
  /\ status = "running"

Top == Head(stack)
In == Top.in
First == Head(In)
Running(call) == status = "running" /\ Top.call = call /\ Len(In) <= MaxTokens
Is(t, i) == i \in DOMAIN In /\ In[i].text = <<t>>

Continue(frame) == stack' = <<frame>> \o Tail(stack)
Stop(how) == status' = how /\ UNCHANGED stack

-------------------------------------------------------------------------------
(* preprocess2 and expand_macro *)

\* Faulty: the hideset is replaced.
ReplaceHideset(toks, hs) ==
  [i \in DOMAIN toks |-> [toks[i] EXCEPT !.hideset = hs, !.at = 0]]

\* The body keeps its own hidesets and gets hs besides.
AddHideset(toks, hs) ==
  [i \in DOMAIN toks |-> [toks[i] EXCEPT !.hideset = @ \cup hs, !.at = 0]]

Hidden(tok) == tok.text \in tok.hideset
IsMacro(tok) == tok.text \in DOMAIN macros /\ ~Hidden(tok)

Invoked ==
  /\ In # <<>>
  /\ IsMacro(First)
  /\ macros[First.text].isObjlike \/ Is("(", 2)

Pass ==
  /\ Running("preprocess2")
  /\ In # <<>> /\ ~Invoked
  /\ Continue([Top EXCEPT !.in = Tail(@), !.out = Append(@, First)])
  /\ UNCHANGED <<macros, line, status>>

\* Faulty: the name of the macro is not added to the hideset.
ExpandUnhidden ==
  /\ Running("preprocess2")
  /\ Invoked /\ macros[First.text].isObjlike
  /\ LET m == macros[First.text]
     IN  Continue([Top EXCEPT !.in = AddHideset(Tokens(m.body), First.hideset) \o Tail(@)])
  /\ UNCHANGED <<macros, line, status>>

ExpandObject ==
  /\ Running("preprocess2")
  /\ Invoked /\ macros[First.text].isObjlike
  /\ LET m == macros[First.text]
         hs == First.hideset \cup {First.text}
     IN  Continue([Top EXCEPT !.in = AddHideset(Tokens(m.body), hs) \o Tail(@)])
  /\ UNCHANGED <<macros, line, status>>

(* read_macro_args.  An argument that starts at i ends before the first    *)
(* comma or right parenthesis outside parentheses, if there is one.        *)
Depth(i, j) == Cardinality({k \in i .. j - 1 : Is("(", k)})
                 - Cardinality({k \in i .. j - 1 : Is(")", k)})

EndsArg(i, j) ==
  LET stops(k) == Depth(i, k) = 0 /\ (Is(",", k) \/ Is(")", k))
  IN  stops(j) /\ \A k \in i .. j - 1 : ~stops(k)

\* ends[n] is where the n-th argument ends, ends[0] the left parenthesis.
Arguments(ends, params) ==
  /\ DOMAIN ends = 0 .. Len(params)
  /\ ends[0] = 2
  /\ \A n \in 1 .. Len(params) : /\ EndsArg(ends[n - 1] + 1, ends[n])
                                 /\ n < Len(params) => Is(",", ends[n])

Closing(ends, params) == IF params = <<>> THEN 3 ELSE ends[Len(params)]

Invocations(params) ==
  {ends \in [0 .. Len(params) -> 2 .. Len(In)] :
     Arguments(ends, params) /\ Is(")", Closing(ends, params))}

\* What is hidden from the result: the macro, and what was hidden from both
\* its name and the closing parenthesis.
InvocationHideset(close) == (First.hideset \cap In[close].hideset) \cup {First.text}

ExpandFunction ==
  /\ Running("preprocess2")
  /\ Invoked /\ ~macros[First.text].isObjlike
  /\ LET m == macros[First.text] IN
     \E ends \in Invocations(m.params) :
       LET close == Closing(ends, m.params)
           arg(n) == [i \in 1 .. ends[n] - ends[n - 1] - 1 |->
                        [In[ends[n - 1] + i] EXCEPT !.at = i]]
           args == [p \in {m.params[n] : n \in DOMAIN m.params} |->
                      arg(CHOOSE n \in DOMAIN m.params : m.params[n] = p)]
           rest == SubSeq(In, close + 1, Len(In))
       IN  stack' = <<Subst(Tokens(m.body), args, InvocationHideset(close), rest)>> \o stack
  /\ UNCHANGED <<macros, line, status>>

\* The arguments do not end, are too many, or are too few.
BadInvocation ==
  /\ Running("preprocess2")
  /\ Invoked /\ ~macros[First.text].isObjlike
  /\ Invocations(macros[First.text].params) = {}
  /\ Stop("error")
  /\ UNCHANGED <<macros, line>>

(* The list read was made into the list written: the tokens of an argument *)
(* from the first one that was passed on are now followed by what followed *)
(* that one in the result.                                                 *)
Relinked(arg, out) ==
  LET own == {i \in DOMAIN out : out[i].at > 0}
  IN  IF own = {} THEN arg
      ELSE LET i == CHOOSE i \in own : \A j \in own : i <= j
               toks == SubSeq(arg, 1, out[i].at - 1) \o SubSeq(out, i, Len(out))
           IN  [j \in DOMAIN toks |-> [toks[j] EXCEPT !.at = j]]

ArgumentExpanded ==
  /\ Running("preprocess2")
  /\ In = <<>> /\ Len(stack) > 1
  /\ LET caller == stack[2]
         p == Head(caller.in).text
     IN  stack' = <<[caller EXCEPT !.in = Tail(@),
                                   !.out = @ \o Top.out,
                                   !.args[p] = Relinked(@, Top.out)]>>
                    \o SubSeq(stack, 3, Len(stack))
  /\ UNCHANGED <<macros, line, status>>

Finish ==
  /\ Running("preprocess2")
  /\ In = <<>> /\ Len(stack) = 1
  /\ Stop("done")
  /\ UNCHANGED <<macros, line>>

-------------------------------------------------------------------------------
(* subst *)

IsParam(i) == i \in DOMAIN In /\ In[i].text \in DOMAIN Top.args
Skip(n) == SubSeq(In, n + 1, Len(In))

Pastable(l, r) == /\ {l.text, r.text} \cap Punctuators = {}
                  /\ Head(l.text) # "\"" /\ Head(r.text) # "\""

\* The pasted token is tokenized anew: its hideset is empty.
Pasted(l, r) == Token(l.text \o r.text)

Join(toks) ==
  LET upTo[n \in 0 .. Len(toks)] ==
        IF n = 0 THEN <<"\"">> ELSE upTo[n - 1] \o toks[n].text
  IN  upTo[Len(toks)]

\* "#" followed by a parameter.
Stringize ==
  /\ Running("subst")
  /\ Is("#", 1) /\ IsParam(2)
  /\ LET p == In[2].text
         quoted == Token(Join(Top.args[p]))
     IN  Continue([Top EXCEPT !.in = Skip(2), !.out = Append(@, quoted)])
  /\ UNCHANGED <<macros, line, status>>

BadStringize ==
  /\ Running("subst")
  /\ Is("#", 1) /\ ~IsParam(2)
  /\ Stop("error")
  /\ UNCHANGED <<macros, line>>

\* "##": the last token made so far is pasted with the first of what follows.
Paste ==
  /\ Running("subst")
  /\ Is("##", 1) /\ Top.out # <<>> /\ Len(In) > 1
  /\ LET out == Top.out
         right == IF IsParam(2) THEN Top.args[In[2].text] ELSE <<In[2]>>
     IN  IF right = <<>>
         THEN Continue([Top EXCEPT !.in = Skip(2)]) /\ UNCHANGED status
         ELSE IF Pastable(out[Len(out)], right[1])
         THEN /\ Continue([Top EXCEPT !.in = Skip(2),
                !.out = SubSeq(out, 1, Len(out) - 1)
                          \o <<Pasted(out[Len(out)], right[1])>> \o Tail(right)])
              /\ UNCHANGED status
         ELSE Stop("error")
  /\ UNCHANGED <<macros, line>>

BadPaste ==
  /\ Running("subst")
  /\ Is("##", 1) /\ (Top.out = <<>> \/ Len(In) = 1)
  /\ Stop("error")
  /\ UNCHANGED <<macros, line>>

\* A parameter before "##": its argument as it is, and "##" has its turn; if
\* that is empty, what is behind "##" instead.
PasteParam ==
  /\ Running("subst")
  /\ IsParam(1) /\ Is("##", 2)
  /\ Top.args[First.text] # <<>>
  /\ Continue([Top EXCEPT !.in = Tail(@), !.out = @ \o Top.args[First.text]])
  /\ UNCHANGED <<macros, line, status>>

PasteEmpty ==
  /\ Running("subst")
  /\ IsParam(1) /\ Is("##", 2)
  /\ Top.args[First.text] = <<>>
  /\ Len(In) > 2
  /\ LET right == IF IsParam(3) THEN Top.args[In[3].text] ELSE <<In[3]>>
     IN  Continue([Top EXCEPT !.in = Skip(3), !.out = @ \o right])
  /\ UNCHANGED <<macros, line, status>>

\* Nothing is behind "##": the token after the end of the body is read.
PastePastEnd ==
  /\ Running("subst")
  /\ IsParam(1) /\ Is("##", 2)
  /\ Top.args[First.text] = <<>>
  /\ Len(In) = 2
  /\ Stop("crash")
  /\ UNCHANGED <<macros, line>>

\* Any other parameter: its argument is expanded completely first.
ExpandArgument ==
  /\ Running("subst")
  /\ IsParam(1) /\ ~Is("##", 2)
  /\ stack' = <<Preprocess(Top.args[First.text])>> \o stack
  /\ UNCHANGED <<macros, line, status>>

CopyToken ==
  /\ Running("subst")
  /\ In # <<>> /\ ~Is("#", 1) /\ ~Is("##", 1) /\ ~IsParam(1)
  /\ Continue([Top EXCEPT !.in = Tail(@), !.out = Append(@, First)])
  /\ UNCHANGED <<macros, line, status>>

\* subst returns to expand_macro, which puts the result in the place of the
\* invocation, to be read again with what follows it.
Substituted ==
  /\ Running("subst")
  /\ In = <<>>
  /\ stack' = <<[stack[2] EXCEPT !.in = AddHideset(Top.out, Top.hs) \o Top.rest]>>
                \o SubSeq(stack, 3, Len(stack))
  /\ UNCHANGED <<macros, line, status>>

-------------------------------------------------------------------------------
Step ==
  \/ Pass \/ ExpandObject \/ ExpandFunction \/ BadInvocation
  \/ ArgumentExpanded \/ Finish
  \/ Stringize \/ BadStringize \/ Paste \/ BadPaste \/ PasteParam \/ PasteEmpty
  \/ PastePastEnd \/ ExpandArgument \/ CopyToken \/ Substituted

Spec == Init /\ [][Step]_vars

\* The compiler runs on.
FairSpec == Spec /\ WF_vars(Step)

-------------------------------------------------------------------------------
IsTokens(s) == \A i \in DOMAIN s : s[i].hideset \subseteq DOMAIN macros

\* Calls of preprocess2 and subst alternate, and hidesets hold macro names.
TypeOK ==
  /\ macros \in Tables
  /\ status \in {"running", "done", "error", "crash"}
  /\ \A i \in DOMAIN stack :
       /\ stack[i].call = IF (Len(stack) - i) % 2 = 0 THEN "preprocess2" ELSE "subst"
       /\ IsTokens(stack[i].in) /\ IsTokens(stack[i].out)

\* preprocess.c:6-14: expansion stops, whatever macros refer to each other or
\* to themselves, and with whatever arguments.
Terminates == <>(status # "running")
===============================================================================
