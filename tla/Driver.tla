-------------------------------- MODULE Driver --------------------------------
(***************************************************************************)
(* The compiler driver, main.c: for every input file of the command line   *)
(* it runs itself as the compiler proper (-cc1), the assembler and, at the *)
(* end, the linker as child processes, hands results from one to the next  *)
(* through files made by mkstemp in the current directory, and removes     *)
(* those files when it exits.  Several drivers run at once in the same     *)
(* directory, as under make -j.                                            *)
(*                                                                         *)
(* A path is a tuple <<directory, stem, extension>> or, for what mkstemp   *)
(* returns, an element of TmpNames.  The content of a file is the history  *)
(* of its making: which tool made it out of what.                          *)
(***************************************************************************)
EXTENDS Naturals, Sequences, SequencesExt

CONSTANTS
  Drivers,      \* the driver processes
  Commands,     \* [Drivers -> sets of command lines]
  TmpNames,     \* the names mkstemp can make
  NoFile        \* what a path without a file holds

(* A command line: -E, -S, -c or none of them ("link"), the argument of -o *)
(* or <<>>, the argument of -x or "", and the input files in order.        *)
Modes == {"E", "S", "c", "link"}
Path == STRING \X STRING \X STRING
CommandLines == [mode : Modes, o : Path \cup {<<>>}, x : {"", "c", "assembler"}, inputs : Seq(Path)]

ASSUME CommandsAssumption == \A d \in Drivers : Commands[d] \subseteq CommandLines

Text(p)       == [by |-> "user",    path |-> p,    of |-> <<>>]
Old(p)        == [by |-> "earlier", path |-> p,    of |-> <<>>]
Empty         == [by |-> "mkstemp", path |-> <<>>, of |-> <<>>]
Torn          == [by |-> "cut off", path |-> <<>>, of |-> <<>>]
Cut           == [by |-> "killed",  path |-> <<>>, of |-> <<>>]
Made(tool, s) == [by |-> tool,      path |-> <<>>, of |-> s]

ASSUME NoFileAssumption == NoFile # Cut

Stdout == <<"", "-", "">>
AOut   == <<"", "a", ".out">>

Type(c, p) ==
  LET byName == CASE p[3] \in {".o", ".a", ".so"} -> "library"
                  [] p[3] = ".c" -> "c"
                  [] p[3] = ".s" -> "assembler"
                  [] OTHER -> "unknown"
  IN  IF c.mode = "E" THEN "c" ELSE IF c.x # "" THEN c.x ELSE byName

Output(c, p) ==
  CASE c.o # <<>> -> c.o
    [] c.mode = "E" -> Stdout
    [] c.mode = "S" -> <<"", p[2], ".s">>
    [] OTHER        -> <<"", p[2], ".o">>

Target(c) == IF c.o # <<>> THEN c.o ELSE AOut

Job(tool, in, out) == [tool |-> tool, in |-> in, out |-> out]
run_cc1(in, out) == Job("cc1", <<in>>, out)
assemble(in, out) == Job("as", <<in>>, out)

VARIABLES
  fs,       \* the current directory: [path -> content]
  cmd,      \* the command line of each driver
  pc,       \* "start", "loop", "wait", "exit", "done" or "killed"
  pos,      \* position in input_paths; one more once the linker has its turn
  todo,     \* the child processes still to run for this input, in order
  ldArgs,   \* ld_args
  tmpfiles, \* tmpfiles
  child,    \* the running child: its job, its progress, what it has made
  code,     \* the exit status
  unseen    \* history: something failed that the driver has no way to notice

vars == <<fs, cmd, pc, pos, todo, ldArgs, tmpfiles, child, code, unseen>>

Inputs(d) == cmd[d].inputs
Range2(s) == {s[i] : i \in DOMAIN s}
Outputs(c) == {Output(c, p) : p \in Range2(c.inputs)} \cup {Target(c)}
Sources == UNION {Range2(c.inputs) : c \in UNION {Commands[d] : d \in Drivers}}
Results == UNION {Outputs(c) : c \in UNION {Commands[d] : d \in Drivers}}
Paths == Sources \cup Results \cup TmpNames

Idle == [job |-> Job("", <<>>, Stdout), state |-> "none", made |-> NoFile]

Init ==
  /\ cmd \in {f \in [Drivers -> UNION {Commands[d] : d \in Drivers}] :
                \A d \in Drivers : f[d] \in Commands[d]}
  /\ fs = [p \in Paths |-> IF p \in TmpNames THEN NoFile
                           ELSE IF p \in Sources THEN Text(p) ELSE Old(p)]
  /\ pc = [d \in Drivers |-> "start"]
  /\ pos = [d \in Drivers |-> 1]
  /\ todo = [d \in Drivers |-> <<>>]
  /\ ldArgs = [d \in Drivers |-> <<>>]
  /\ tmpfiles = [d \in Drivers |-> {}]
  /\ child = [d \in Drivers |-> Idle]
  /\ code = [d \in Drivers |-> 0]
  /\ unseen = [d \in Drivers |-> FALSE]

-------------------------------------------------------------------------------
(* exit(status), which runs the atexit handlers before the process ends.   *)
Exit(d, status) ==
  /\ pc' = [pc EXCEPT ![d] = "exit"]
  /\ code' = [code EXCEPT ![d] = status]

(* -o names one file, so it excludes several inputs unless they are linked. *)
Start(d) ==
  /\ pc[d] = "start"
  /\ IF Len(Inputs(d)) > 1 /\ cmd[d].o # <<>> /\ cmd[d].mode # "link"
     THEN Exit(d, 1)
     ELSE pc' = [pc EXCEPT ![d] = "loop"] /\ UNCHANGED code
  /\ UNCHANGED <<fs, cmd, pos, todo, ldArgs, tmpfiles, child, unseen>>

AtInput(d, type) ==
  /\ pc[d] = "loop" /\ todo[d] = <<>>
  /\ pos[d] \in DOMAIN Inputs(d)
  /\ Type(cmd[d], Inputs(d)[pos[d]]) = type
  /\ pos' = [pos EXCEPT ![d] = @ + 1]
  /\ UNCHANGED <<cmd, child, unseen>>

Library(d) ==
  /\ AtInput(d, "library")
  /\ ldArgs' = [ldArgs EXCEPT ![d] = Append(@, Inputs(d)[pos[d]])]
  /\ UNCHANGED <<fs, pc, todo, tmpfiles, code>>

Unknown(d) ==
  /\ AtInput(d, "unknown")
  /\ Exit(d, 1)
  /\ UNCHANGED <<fs, todo, ldArgs, tmpfiles>>

(* An assembly file is assembled, also when the result is to be linked: it *)
(* is not added to what the linker gets.                                   *)
Assembly(d) ==
  /\ AtInput(d, "assembler")
  /\ LET p == Inputs(d)[pos[d]]
     IN  IF cmd[d].mode = "S"
         THEN UNCHANGED todo
         ELSE todo' = [todo EXCEPT ![d] = <<assemble(p, Output(cmd[d], p))>>]
  /\ UNCHANGED <<fs, pc, ldArgs, tmpfiles, code>>

CompileOnly(d) ==
  /\ cmd[d].mode \in {"E", "S"}
  /\ AtInput(d, "c")
  /\ LET p == Inputs(d)[pos[d]]
     IN  todo' = [todo EXCEPT ![d] = <<run_cc1(p, Output(cmd[d], p))>>]
  /\ UNCHANGED <<fs, pc, ldArgs, tmpfiles, code>>

(* A faulty variant: mktemp, which makes a name and no file.               *)
AnyName == TmpNames

(* create_tmpfile: mkstemp makes a file that does not exist yet.  A failing *)
(* assembler may have removed a name that a running driver goes on to clean *)
(* up: that mkstemp draws just this one of its 62^6 names is left out.      *)
FreeNames ==
  {t \in TmpNames : /\ fs[t] = NoFile
                    /\ \A d \in Drivers : pc[d] = "done" \/ t \notin tmpfiles[d]}

(* A faulty variant: the name is not pushed on tmpfiles.                   *)
CreateTmpfiles(d, new) ==
  /\ fs' = [p \in Paths |-> IF p \in new THEN Empty ELSE fs[p]]
  /\ tmpfiles' = [tmpfiles EXCEPT ![d] = @ \cup new]

CompileAndAssemble(d) ==
  /\ cmd[d].mode = "c"
  /\ AtInput(d, "c")
  /\ \E t \in FreeNames :
       /\ CreateTmpfiles(d, {t})
       /\ LET p == Inputs(d)[pos[d]]
          IN  todo' = [todo EXCEPT ![d] = <<run_cc1(p, t),
                                            assemble(t, Output(cmd[d], p))>>]
  /\ UNCHANGED <<pc, ldArgs, code>>

CompileAndLink(d) ==
  /\ cmd[d].mode = "link"
  /\ AtInput(d, "c")
  /\ \E t1, t2 \in FreeNames :
       /\ t1 # t2
       /\ CreateTmpfiles(d, {t1, t2})
       /\ todo' = [todo EXCEPT ![d] = <<run_cc1(Inputs(d)[pos[d]], t1),
                                        assemble(t1, t2)>>]
       /\ ldArgs' = [ldArgs EXCEPT ![d] = Append(@, t2)]
  /\ UNCHANGED <<pc, code>>

MkstempFails(d) ==
  /\ cmd[d].mode \in {"c", "link"}
  /\ AtInput(d, "c")
  /\ Exit(d, 1)
  /\ UNCHANGED <<fs, todo, ldArgs, tmpfiles>>

(* The end of the loop: the linker runs if it has anything to link, which  *)
(* does not depend on -c or -S, and needs the C library to be installed.   *)
Link(d) ==
  /\ pc[d] = "loop" /\ todo[d] = <<>>
  /\ pos[d] = Len(Inputs(d)) + 1
  /\ pos' = [pos EXCEPT ![d] = @ + 1]
  /\ \/ /\ ldArgs[d] = <<>> /\ Exit(d, 0)
        /\ UNCHANGED todo
     \/ /\ ldArgs[d] # <<>>
        /\ todo' = [todo EXCEPT ![d] = <<Job("ld", ldArgs[d], Target(cmd[d]))>>]
        /\ UNCHANGED <<pc, code>>
     \/ /\ ldArgs[d] # <<>> /\ Exit(d, 1)
        /\ UNCHANGED todo
  /\ UNCHANGED <<fs, cmd, ldArgs, tmpfiles, child, unseen>>

Return(d) ==
  /\ pc[d] = "loop" /\ todo[d] = <<>>
  /\ pos[d] > Len(Inputs(d)) + 1
  /\ Exit(d, 0)
  /\ UNCHANGED <<fs, cmd, pos, todo, ldArgs, tmpfiles, child, unseen>>

-------------------------------------------------------------------------------
(* run_subprocess.                                                         *)
Fork(d) ==
  /\ pc[d] = "loop" /\ todo[d] # <<>>
  /\ pc' = [pc EXCEPT ![d] = "wait"]
  /\ child' = [child EXCEPT ![d] = [Idle EXCEPT !.job = Head(todo[d]),
                                                !.state = "running"]]
  /\ todo' = [todo EXCEPT ![d] = Tail(@)]
  /\ UNCHANGED <<fs, cmd, pos, ldArgs, tmpfiles, code, unseen>>

(* fork returns -1, which is not tested; wait finds no child and leaves    *)
(* status as it was, uninitialised: any value.                             *)
ForkFails(d) ==
  /\ pc[d] = "loop" /\ todo[d] # <<>>
  /\ \/ todo' = [todo EXCEPT ![d] = Tail(@)] /\ UNCHANGED <<pc, code>>
     \/ Exit(d, 1) /\ UNCHANGED todo
  /\ unseen' = [unseen EXCEPT ![d] = TRUE]
  /\ UNCHANGED <<fs, cmd, pos, ldArgs, tmpfiles, child>>

(* A faulty variant: a child that fails is waited for again.               *)
ReapSuccess(d) ==
  /\ pc[d] = "wait" /\ child[d].state = "ok"
  /\ pc' = [pc EXCEPT ![d] = "loop"]
  /\ child' = [child EXCEPT ![d] = Idle]
  /\ UNCHANGED <<fs, cmd, pos, todo, ldArgs, tmpfiles, code, unseen>>

Reap(d) ==
  /\ pc[d] = "wait"
  /\ \/ /\ child[d].state = "ok"
        /\ pc' = [pc EXCEPT ![d] = "loop"]
        /\ UNCHANGED code
     \/ child[d].state = "failed" /\ Exit(d, 1)
  /\ child' = [child EXCEPT ![d] = Idle]
  /\ UNCHANGED <<fs, cmd, pos, todo, ldArgs, tmpfiles, unseen>>

(* A faulty variant: cleanup is called before main returns, not at exit.   *)
CleanupAtReturn(d) ==
  /\ pc[d] = "exit"
  /\ pc' = [pc EXCEPT ![d] = "done"]
  /\ fs' = [p \in Paths |-> IF code[d] = 0 /\ p \in tmpfiles[d] THEN NoFile ELSE fs[p]]
  /\ UNCHANGED <<cmd, pos, todo, ldArgs, tmpfiles, child, code, unseen>>

(* The atexit handler: cleanup removes the files in tmpfiles.              *)
Cleanup(d) ==
  /\ pc[d] = "exit"
  /\ pc' = [pc EXCEPT ![d] = "done"]
  /\ fs' = [p \in Paths |-> IF p \in tmpfiles[d] THEN NoFile ELSE fs[p]]
  /\ UNCHANGED <<cmd, pos, todo, ldArgs, tmpfiles, child, code, unseen>>

(* A signal ends the driver, without its atexit handlers.  A child that is *)
(* running runs on.                                                        *)
Kill(d) ==
  /\ pc[d] \notin {"done", "killed"}
  /\ pc' = [pc EXCEPT ![d] = "killed"]
  /\ UNCHANGED <<fs, cmd, pos, todo, ldArgs, tmpfiles, child, code, unseen>>

-------------------------------------------------------------------------------
(* The children.  None of them touches its output before it has all of its *)
(* result: cc1 generates code into memory first.                           *)
ToChild(d, state) == child' = [child EXCEPT ![d].state = state]

ChildOpens(d) ==
  /\ child[d].state = "running"
  /\ \A p \in Range2(child[d].job.in) : fs[p] # NoFile
  /\ LET j == child[d].job
     IN  /\ child' = [child EXCEPT ![d].state = "writing",
               ![d].made = Made(j.tool, [i \in DOMAIN j.in |-> fs[j.in[i]]])]
         /\ fs' = IF j.out = Stdout THEN fs ELSE [fs EXCEPT ![j.out] = Torn]
  /\ UNCHANGED <<cmd, pc, pos, todo, ldArgs, tmpfiles, code, unseen>>

ChildCloses(d) ==
  /\ child[d].state = "writing"
  /\ ToChild(d, "ok")
  /\ fs' = IF child[d].job.out = Stdout THEN fs
           ELSE [fs EXCEPT ![child[d].job.out] = child[d].made]
  /\ UNCHANGED <<cmd, pc, pos, todo, ldArgs, tmpfiles, code, unseen>>

(* A faulty variant: cc1 opens its output before it has parsed its input.  *)
ChildFailsHavingOpened(d) ==
  /\ child[d].state = "running" /\ child[d].job.out # Stdout
  /\ ToChild(d, "failed")
  /\ fs' = [fs EXCEPT ![child[d].job.out] = Torn]
  /\ UNCHANGED <<cmd, pc, pos, todo, ldArgs, tmpfiles, code, unseen>>

(* exec fails, the input has an error, the output cannot be opened.  The    *)
(* assembler and the linker may remove what the output was.                *)
ChildFails(d) ==
  /\ child[d].state = "running"
  /\ ToChild(d, "failed")
  /\ \/ UNCHANGED fs
     \/ /\ child[d].job.tool # "cc1"
        /\ fs' = [fs EXCEPT ![child[d].job.out] = NoFile]
  /\ UNCHANGED <<cmd, pc, pos, todo, ldArgs, tmpfiles, code, unseen>>

(* A signal ends a child, and wait() gives the driver a status that is not *)
(* 0.  Between fopen and fclose, the output stays as far as it was written. *)
ChildKilled(d) ==
  /\ child[d].state \in {"running", "writing"}
  /\ ToChild(d, "failed")
  /\ fs' = IF child[d].state = "running" \/ child[d].job.out = Stdout THEN fs
           ELSE [fs EXCEPT ![child[d].job.out] = Cut]
  /\ UNCHANGED <<cmd, pc, pos, todo, ldArgs, tmpfiles, code, unseen>>

(* The disk is full: cc1 does not test what fwrite and fclose return, the  *)
(* assembler and the linker fail and remove the output they have begun.    *)
ShortWrite(d) ==
  /\ child[d].state = "writing"
  /\ \/ /\ child[d].job.tool = "cc1"
        /\ ToChild(d, "ok")
        /\ unseen' = [unseen EXCEPT ![d] = TRUE]
        /\ UNCHANGED fs
     \/ /\ child[d].job.tool # "cc1"
        /\ ToChild(d, "failed")
        /\ fs' = [fs EXCEPT ![child[d].job.out] = NoFile]
        /\ UNCHANGED unseen
  /\ UNCHANGED <<cmd, pc, pos, todo, ldArgs, tmpfiles, code>>

-------------------------------------------------------------------------------
DriverStep(d) ==
  \/ Start(d) \/ Library(d) \/ Unknown(d) \/ Assembly(d) \/ CompileOnly(d)
  \/ CompileAndAssemble(d) \/ CompileAndLink(d) \/ MkstempFails(d)
  \/ Link(d) \/ Return(d) \/ Fork(d) \/ ForkFails(d) \/ Reap(d) \/ Cleanup(d)

ChildStep(d) ==
  ChildOpens(d) \/ ChildCloses(d) \/ ChildFails(d) \/ ChildKilled(d) \/ ShortWrite(d)

Next == \E d \in Drivers : DriverStep(d) \/ ChildStep(d) \/ Kill(d)

Spec == Init /\ [][Next]_vars

(* The system schedules every process; nothing makes a signal or a failure *)
(* happen.                                                                 *)
Fairness == \A d \in Drivers : WF_vars(DriverStep(d)) /\ WF_vars(ChildStep(d))

FairSpec == Spec /\ Fairness

-------------------------------------------------------------------------------
Gone(d) == pc[d] \in {"done", "killed"}

TypeOK ==
  /\ DOMAIN fs = Paths
  /\ \A d \in Drivers :
       /\ cmd[d] \in Commands[d]
       /\ pc[d] \in {"start", "loop", "wait", "exit", "done", "killed"}
       /\ pos[d] \in 1 .. Len(Inputs(d)) + 2
       /\ Len(todo[d]) <= 2
       /\ tmpfiles[d] \subseteq TmpNames
       /\ Range2(ldArgs[d]) \subseteq Range2(Inputs(d)) \cup tmpfiles[d]
       /\ pc[d] = "wait" => child[d].state # "none"
       /\ pc[d] \notin {"wait", "killed"} => child[d] = Idle
       /\ code[d] \in {0, 1}

(* Every temporary file belongs to a driver that is still running or was   *)
(* killed: a driver that exits, for whatever reason, leaves none behind.   *)
NoTmpfileLeft ==
  \A t \in TmpNames : fs[t] # NoFile =>
    \E d \in Drivers : pc[d] # "done" /\ t \in tmpfiles[d]

(* What the command line asks for, input by input, the linker last: the    *)
(* path it leaves a result at, and the result.  An assembly file to be     *)
(* linked yields an object file that the linker does not get.              *)
Compiled(p) == Made("cc1", <<Text(p)>>)
Object(p) == Made("as", <<Compiled(p)>>)

Linked(c) ==
  LET part(p) == CASE Type(c, p) = "library" -> <<Text(p)>>
                   [] Type(c, p) = "c" /\ c.mode = "link" -> <<Object(p)>>
                   [] OTHER -> <<>>
  IN  FlattenSeq([i \in DOMAIN c.inputs |-> part(c.inputs[i])])

Result(path, content) == {<<path, content>>}

Products(c, i) ==
  IF i > Len(c.inputs)
  THEN IF Linked(c) = <<>> THEN {} ELSE Result(Target(c), Made("ld", Linked(c)))
  ELSE LET p == c.inputs[i]
           t == Type(c, p)
       IN  CASE t = "c" /\ c.mode \in {"E", "S"} -> Result(Output(c, p), Compiled(p))
             [] t = "c" /\ c.mode = "c" -> Result(Output(c, p), Object(p))
             [] t = "assembler" /\ c.mode # "S" ->
                  Result(Output(c, p), Made("as", <<Text(p)>>))
             [] OTHER -> {}

Turns(c) == 1 .. Len(c.inputs) + 1
AllProducts(c) == UNION {Products(c, i) : i \in Turns(c)}

(* Drivers that run at once are given different files to make, as make     *)
(* gives them, and none of these is an input; mkstemp makes a name that no *)
(* command line has.                                                       *)
ASSUME FilesAssumption ==
  /\ TmpNames \cap (Sources \cup Results) = {}
  /\ Stdout \notin Sources \cup TmpNames
  /\ \A d \in Drivers : \A c \in Commands[d] : \A r \in AllProducts(c) :
       r[1] # Stdout =>
         /\ r[1] \notin Sources
         /\ \A e \in Drivers \ {d} : \A b \in Commands[e] : \A q \in AllProducts(b) :
              q[1] # r[1]

(* A driver that exits with status 0 has built all it was asked for, from  *)
(* the files it was given and in their order, whatever other drivers did   *)
(* in the directory meanwhile; of two results with one path the last is    *)
(* there.                                                                  *)
SuccessMeansBuilt ==
  \A d \in Drivers : pc[d] = "done" /\ code[d] = 0 /\ ~unseen[d] =>
    \A i \in Turns(cmd[d]) : \A r \in Products(cmd[d], i) :
      \/ r[1] = Stdout
      \/ fs[r[1]] = r[2]
      \/ \E j \in Turns(cmd[d]) : j > i /\ \E q \in Products(cmd[d], j) : q[1] = r[1]

(* The paths of its results at which a child of driver d was killed.       *)
CutOff(d) == {r[1] : r \in {q \in AllProducts(cmd[d]) : q[1] # Stdout /\ fs[q[1]] = Cut}}

(* A driver that fails leaves in the place of each of its results what was *)
(* there before or a complete result; a compilation (-S, -E) that fails     *)
(* does not even remove what was there, which the assembler and the linker *)
(* may.  A part of a result is left only where a child was killed as it     *)
(* wrote it: that is one result at most, for the driver stops there, and it *)
(* says so by its status.                                                  *)
FailureKeepsOutputs ==
  \A d \in Drivers : pc[d] = "done" /\ ~unseen[d] =>
    /\ \A r \in AllProducts(cmd[d]) :
         \/ r[1] = Stdout
         \/ fs[r[1]] \in {q[2] : q \in {q \in AllProducts(cmd[d]) : q[1] = r[1]}}
         \/ fs[r[1]] = Old(r[1])
         \/ fs[r[1]] = NoFile /\ \E q \in AllProducts(cmd[d]) : q[1] = r[1] /\ q[2].by # "cc1"
         \/ r[1] \in CutOff(d)
    /\ CutOff(d) # {} => code[d] = 1 /\ \E p \in Paths : CutOff(d) = {p}

(* Every driver that is not killed exits: it works off its inputs, and     *)
(* waits only for children that end.                                       *)
Terminates == \A d \in Drivers : <>(pc[d] \in {"done", "killed"})
===============================================================================
