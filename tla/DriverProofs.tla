----------------------------- MODULE DriverProofs -----------------------------
(***************************************************************************)
(* What a driver leaves in its directory, for any number of drivers and any *)
(* command lines that make different files.                                 *)
(***************************************************************************)
EXTENDS Driver, SequenceTheorems, WellFoundedInduction, TLAPS

-----------------------------------------------------------------------------
(* Putting sequences together *)

\* A set of numbers has a smallest one: what inductions here rest on.
LEMMA Smallest ==
  ASSUME NEW T, T \subseteq Nat, T # {}
  PROVE  \E x \in T : \A y \in T : x <= y
<1> DEFINE R == {ss \in Nat \X Nat : ss[1] < ss[2]}
<1>1. IsWellFoundedOn(R, Nat)
  BY NatLessThanWellFounded DEF OpToRel
<1>2. PICK x \in T : \A y \in T : ~ (<<y, x>> \in R)
  <2> HIDE DEF R
  <2> QED BY <1>1, WFMin
<1>3. ASSUME NEW y \in T, y < x PROVE FALSE
  <2>1. <<y, x>> \in R
    BY <1>3
  <2> QED BY <2>1, <1>2
<1> QED BY <1>2, <1>3

Flattens(f, s, n) == f = [i \in 1 .. n |-> IF i = 1 THEN s[i] ELSE f[i - 1] \o s[i]]

LEMMA FlattenExists ==
  ASSUME NEW s, NEW n \in Nat
  PROVE  \E f : Flattens(f, s, n)
<1> DEFINE T == {k \in 0 .. n : ~ \E f : Flattens(f, s, k)}
<1> SUFFICES ASSUME T # {} PROVE FALSE
  OBVIOUS
<1>1. PICK k \in T : \A y \in T : k <= y
  <2>1. T \subseteq Nat
    OBVIOUS
  <2> HIDE DEF T
  <2> QED BY <2>1, Smallest
<1>2. k # 0
  <2> SUFFICES ASSUME k = 0 PROVE FALSE
    OBVIOUS
  <2> DEFINE f == [i \in 1 .. 0 |-> {}]
  <2>1. Flattens(f, s, 0)
    BY DEF Flattens
  <2> QED BY <2>1
<1>3. PICK f : Flattens(f, s, k - 1)
  <2>1. k - 1 \in 0 .. n /\ k - 1 \notin T
    BY <1>1, <1>2
  <2> QED BY <2>1
<1> DEFINE g == [i \in 1 .. k |-> IF i = k THEN IF k = 1 THEN s[k] ELSE f[k - 1] \o s[k] ELSE f[i]]
<1>4. ASSUME NEW i \in 1 .. k
      PROVE  g[i] = IF i = 1 THEN s[i] ELSE g[i - 1] \o s[i]
  <2>1. CASE i = k
    BY <2>1
  <2>2. CASE i # k
    <3>1. i \in 1 .. k - 1 /\ g[i] = f[i]
      BY <2>2
    <3>2. f[i] = IF i = 1 THEN s[i] ELSE f[i - 1] \o s[i]
      BY <3>1, <1>3 DEF Flattens
    <3>3. i # 1 => g[i - 1] = f[i - 1]
      BY <3>1
    <3> HIDE DEF g
    <3> QED BY <3>1, <3>2, <3>3
  <2> QED BY <2>1, <2>2
<1>5. Flattens(g, s, k)
  <2> DEFINE h == [i \in 1 .. k |-> IF i = 1 THEN s[i] ELSE g[i - 1] \o s[i]]
  <2>1. g = h
    BY <1>4
  <2> QED BY <2>1 DEF Flattens
<1> QED BY <1>5

\* Two such functions agree as far as both go and the sequences are the same.
LEMMA FlattenUnique ==
  ASSUME NEW s, NEW t, NEW m \in Nat, NEW n \in Nat, m <= n,
         \A i \in 1 .. m : s[i] = t[i],
         NEW f, Flattens(f, s, m), NEW g, Flattens(g, t, n)
  PROVE  \A i \in 1 .. m : f[i] = g[i]
<1> DEFINE T == {k \in 1 .. m : f[k] # g[k]}
<1> SUFFICES ASSUME T # {} PROVE FALSE
  OBVIOUS
<1>1. PICK k \in T : \A y \in T : k <= y
  <2>1. T \subseteq Nat
    OBVIOUS
  <2> HIDE DEF T
  <2> QED BY <2>1, Smallest
<1>2. f[k] = IF k = 1 THEN s[k] ELSE f[k - 1] \o s[k]
  BY DEF Flattens
<1>3. g[k] = IF k = 1 THEN t[k] ELSE g[k - 1] \o t[k]
  <2>1. k \in 1 .. n
    OBVIOUS
  <2> QED BY <2>1 DEF Flattens
<1>4. k # 1 => k - 1 \in 1 .. m /\ k - 1 \notin T
  BY <1>1
<1>5. k # 1 => f[k - 1] = g[k - 1]
  BY <1>4
<1> HIDE DEF T
<1>6. s[k] = t[k] /\ f[k] # g[k]
  BY DEF T
<1> QED BY <1>2, <1>3, <1>5, <1>6

LEMMA FlattenIs ==
  ASSUME NEW s, NEW n \in Nat \ {0}, Len(s) = n
  PROVE  \E f : Flattens(f, s, n) /\ FlattenSeq(s) = f[n]
<1> DEFINE f == CHOOSE f : Flattens(f, s, n)
<1>1. Flattens(f, s, n)
  BY FlattenExists
<1>2. FlattenSeq(s) = f[n]
  BY DEF FlattenSeq, Flattens
<1> QED BY <1>1, <1>2

\* One sequence more.
LEMMA FlattenMore ==
  ASSUME NEW t, NEW n \in Nat, NEW s, Len(s) = n, Len(t) = n + 1,
         \A i \in 1 .. n : s[i] = t[i]
  PROVE  IF n = 0 THEN FlattenSeq(t) = t[1]
         ELSE FlattenSeq(t) = FlattenSeq(s) \o t[n + 1]
<1>1. PICK g : Flattens(g, t, n + 1) /\ FlattenSeq(t) = g[n + 1]
  BY FlattenIs
<1>2. g[n + 1] = IF n + 1 = 1 THEN t[n + 1] ELSE g[(n + 1) - 1] \o t[n + 1]
  <2>1. n + 1 \in 1 .. n + 1
    OBVIOUS
  <2> QED BY <1>1, <2>1 DEF Flattens
<1>3. CASE n = 0
  BY <1>1, <1>2, <1>3
<1>4. CASE n # 0
  <2>1. PICK f : Flattens(f, s, n) /\ FlattenSeq(s) = f[n]
    BY <1>4, FlattenIs
  <2>2. f[n] = g[n]
    <3>1. n <= n + 1 /\ n \in 1 .. n /\ n + 1 \in Nat
      BY <1>4
    <3> QED BY <1>1, <2>1, <3>1, FlattenUnique
  <2>3. g[n + 1] = g[n] \o t[n + 1]
    <3>1. n + 1 # 1 /\ (n + 1) - 1 = n
      BY <1>4
    <3> QED BY <1>2, <3>1
  <2> QED BY <1>1, <1>4, <2>1, <2>2, <2>3
<1> QED BY <1>3, <1>4

-----------------------------------------------------------------------------
(* The invariant *)

IsJob(j) == j = Job(j.tool, j.in, j.out) /\ j.out \notin Range2(j.in)
IsChild(x) == /\ x = [job |-> x.job, state |-> x.state, made |-> x.made]
              /\ IsJob(x.job)
              /\ x.state \in {"none", "running", "writing", "ok", "failed"}

Count(d) == Len(Inputs(d))

\* The input a driver is at, the last one when it links.
Turn(d) == pos[d] - 1

Shape(d) ==
  /\ cmd[d] \in Commands[d]
  /\ pc[d] \in {"start", "loop", "wait", "exit", "done", "killed"}
  /\ pos[d] \in 1 .. Count(d) + 2
  /\ \/ todo[d] = <<>>
     \/ todo[d] = <<todo[d][1]>>
     \/ todo[d] = <<todo[d][1], todo[d][2]>>
  /\ \A i \in DOMAIN todo[d] : IsJob(todo[d][i])
  /\ pc[d] = "wait" => Len(todo[d]) <= 1
  /\ tmpfiles[d] \subseteq TmpNames
  /\ ldArgs[d] \in Seq(Range2(Inputs(d)) \cup tmpfiles[d])
  /\ IsChild(child[d])
  /\ pc[d] = "wait" => child[d].state # "none"
  /\ pc[d] \notin {"wait", "killed"} => child[d] = Idle
  /\ pc[d] = "start" => pos[d] = 1 /\ todo[d] = <<>> /\ ldArgs[d] = <<>>
  /\ code[d] \in {0, 1}
  /\ unseen[d] \in BOOLEAN

Shapes ==
  /\ DOMAIN fs = Paths
  /\ DOMAIN cmd = Drivers /\ DOMAIN pc = Drivers /\ DOMAIN pos = Drivers
  /\ DOMAIN todo = Drivers /\ DOMAIN ldArgs = Drivers /\ DOMAIN tmpfiles = Drivers
  /\ DOMAIN child = Drivers /\ DOMAIN code = Drivers /\ DOMAIN unseen = Drivers
  /\ \A d \in Drivers : Shape(d)

\* A driver's children read the sources and its temporary files, and write to
\* these and to its results.
Owns(d, p) == p \in tmpfiles[d] \/ \E r \in AllProducts(cmd[d]) : r[1] = p

Within(d, j) == Range2(j.in) \subseteq Sources \cup tmpfiles[d] /\ Owns(d, j.out)

Owned(d) ==
  /\ Range2(child[d].job.in) \subseteq Sources \cup tmpfiles[d]
  /\ child[d].state # "none" => Within(d, child[d].job)
  /\ \A i \in DOMAIN todo[d] : Within(d, todo[d][i])

\* No temporary file has two owners.
Apart ==
  \A d, e \in Drivers :
    d # e /\ pc[d] # "done" /\ pc[e] # "done" => tmpfiles[d] \cap tmpfiles[e] = {}

SourcesKept == \A p \in Sources : fs[p] = Text(p)

\* Input by input, what the linker gets.
Part(c, p) == CASE Type(c, p) = "library" -> <<Text(p)>>
                [] Type(c, p) = "c" /\ c.mode = "link" -> <<Object(p)>>
                [] OTHER -> <<>>
LinkedBefore(c, m) == FlattenSeq([i \in 1 .. m |-> Part(c, c.inputs[i])])

\* The turns up to m have yielded their results, some of which later ones,
\* up to n, have overwritten.
Built(d, m, n) ==
  \A i \in 1 .. m : \A r \in Products(cmd[d], i) :
    \/ r[1] = Stdout
    \/ fs[r[1]] = r[2]
    \/ \E j \in i + 1 .. n : \E q \in Products(cmd[d], j) : q[1] = r[1]

\* The jobs of this turn that are not done with.
Pending(d) == IF pc[d] = "wait" THEN <<child[d].job>> \o todo[d] ELSE todo[d]

\* What a job makes of the files as they are.
Makes(job) == Made(job.tool, [k \in DOMAIN job.in |-> fs[job.in[k]]])

\* This turn's result is for the linker.
ForLinker(d) == /\ cmd[d].mode = "link"
                /\ Turn(d) \in 1 .. Count(d)
                /\ Type(cmd[d], Inputs(d)[Turn(d)]) = "c"

Goals(d) == IF ForLinker(d) THEN Result(Last(ldArgs[d]), Object(Inputs(d)[Turn(d)]))
            ELSE Products(cmd[d], Turn(d))

\* The jobs of this turn lead to its result.
OnCourse(d) ==
  LET jobs == Pending(d)
  IN  /\ Turn(d) \in 1 .. Count(d) + 1
      /\ ForLinker(d) => /\ Len(ldArgs[d]) > 0
                         /\ Last(ldArgs[d]) \in tmpfiles[d]
                         /\ \A k \in 1 .. Len(ldArgs[d]) - 1 : ldArgs[d][k] # Last(ldArgs[d])
      /\ \/ Len(jobs) = 1 /\ Goals(d) = Result(jobs[1].out, Makes(jobs[1]))
         \/ /\ Len(jobs) = 2
            /\ Goals(d) = Result(jobs[2].out, Made(jobs[2].tool, <<Makes(jobs[1])>>))
            /\ jobs[2].in = <<jobs[1].out>>
            /\ jobs[1].out \in tmpfiles[d] \ Range2(ldArgs[d])

\* What the child of a driver that waits for it has got to.
ChildOnCourse(d) ==
  pc[d] = "wait" =>
    /\ child[d].state = "writing" => child[d].made = Makes(child[d].job)
    /\ child[d].state = "ok" =>
         child[d].job.out = Stdout \/ fs[child[d].job.out] = Makes(child[d].job)

\* The linker's arguments hold what they should, the last one when its turn is over.
ArgsOnCourse(d) ==
  LET parts == LinkedBefore(cmd[d], IF Turn(d) <= Count(d) THEN Turn(d) ELSE Count(d))
  IN  /\ Len(parts) = Len(ldArgs[d])
      /\ ~ unseen[d] =>
           \A k \in 1 .. Len(parts) :
             (ForLinker(d) /\ Pending(d) # <<>> => k < Len(parts)) => fs[ldArgs[d][k]] = parts[k]

Progress(d) ==
  /\ pc[d] \in {"loop", "wait"} => ArgsOnCourse(d)
  /\ pc[d] \in {"loop", "wait"} /\ ~ unseen[d] =>
       /\ Built(d, IF Pending(d) = <<>> THEN Turn(d) ELSE Turn(d) - 1, Turn(d))
       /\ Pending(d) # <<>> => OnCourse(d)
       /\ ChildOnCourse(d)
  /\ pc[d] \in {"exit", "done"} /\ ~ unseen[d] /\ code[d] = 0 =>
       Built(d, Count(d) + 1, Count(d) + 1)

\* What is at the path of a result.
Allowed(d, p) ==
  \/ \E q \in AllProducts(cmd[d]) : q[1] = p /\ fs[p] = q[2]
  \/ fs[p] = Old(p)
  \/ fs[p] = NoFile /\ \E q \in AllProducts(cmd[d]) : q[1] = p /\ q[2].by # "cc1"
  \/ pc[d] = "wait" /\ child[d].state = "writing" /\ child[d].job.out = p
  \/ fs[p] = Cut

Kept(d) ==
  pc[d] # "killed" /\ ~ unseen[d] =>
    \A r \in AllProducts(cmd[d]) : r[1] = Stdout \/ Allowed(d, r[1])

IInv == /\ Shapes /\ Apart /\ SourcesKept /\ NoTmpfileLeft
        /\ \A d \in Drivers : Owned(d) /\ Progress(d) /\ Kept(d)

-----------------------------------------------------------------------------
(* Command lines and their results *)

LEMMA CommandType ==
  ASSUME NEW d \in Drivers, NEW c \in Commands[d]
  PROVE  /\ c \in CommandLines
         /\ Len(c.inputs) \in Nat /\ DOMAIN c.inputs = 1 .. Len(c.inputs)
         /\ \A i \in 1 .. Len(c.inputs) : c.inputs[i] \in Sources
<1>1. c \in CommandLines /\ c.inputs \in Seq(Path)
  BY CommandsAssumption DEF CommandLines
<1>2. Len(c.inputs) \in Nat /\ DOMAIN c.inputs = 1 .. Len(c.inputs)
  BY <1>1
<1>3. Range2(c.inputs) \subseteq Sources
  BY DEF Sources
<1> QED BY <1>1, <1>2, <1>3 DEF Range2

LEMMA PathsApart ==
  /\ Sources \subseteq Paths /\ Results \subseteq Paths /\ TmpNames \subseteq Paths
  /\ TmpNames \cap Sources = {} /\ TmpNames \cap Results = {}
  /\ Stdout \notin Sources /\ Stdout \notin TmpNames
BY FilesAssumption DEF Paths

\* The kinds of input, and what the turn of one yields.
LEMMA ProductsOfTurn ==
  ASSUME NEW d \in Drivers, NEW c \in Commands[d], NEW i \in 1 .. Len(c.inputs),
         NEW p, p = c.inputs[i]
  PROVE  /\ Type(c, p) \in {"library", "c", "assembler", "unknown"}
         /\ Type(c, p) \in {"library", "unknown"} => Products(c, i) = {}
         /\ Type(c, p) = "c" =>
              /\ c.mode \in {"E", "S"} => Products(c, i) = Result(Output(c, p), Compiled(p))
              /\ c.mode = "c" => Products(c, i) = Result(Output(c, p), Object(p))
              /\ c.mode = "link" => Products(c, i) = {}
         /\ Type(c, p) = "assembler" =>
              /\ c.mode = "S" => Products(c, i) = {}
              /\ c.mode # "S" => Products(c, i) = Result(Output(c, p), Made("as", <<Text(p)>>))
<1>1. c.x \in {"", "c", "assembler"}
  BY CommandType DEF CommandLines
<1>2. Type(c, p) \in {"library", "c", "assembler", "unknown"}
  BY <1>1 DEF Type
<1>3. ~ (i > Len(c.inputs))
  BY CommandType
<1>4. Products(c, i) =
        CASE Type(c, p) = "c" /\ c.mode \in {"E", "S"} -> Result(Output(c, p), Compiled(p))
          [] Type(c, p) = "c" /\ c.mode = "c" -> Result(Output(c, p), Object(p))
          [] Type(c, p) = "assembler" /\ c.mode # "S" ->
               Result(Output(c, p), Made("as", <<Text(p)>>))
          [] OTHER -> {}
  BY <1>3 DEF Products
<1> QED BY <1>2, <1>4

LEMMA ProductsOfLink ==
  ASSUME NEW d \in Drivers, NEW c \in Commands[d]
  PROVE  Products(c, Len(c.inputs) + 1) =
           IF Linked(c) = <<>> THEN {} ELSE Result(Target(c), Made("ld", Linked(c)))
<1>1. Len(c.inputs) + 1 > Len(c.inputs)
  BY CommandType
<1> QED BY <1>1 DEF Products

\* Results are where Output and Target say.
LEMMA ProductPaths ==
  ASSUME NEW d \in Drivers, NEW c \in Commands[d], NEW i \in Turns(c), NEW r \in Products(c, i)
  PROVE  r \in AllProducts(c) /\ r[1] \in Results
<1>1. Outputs(c) \subseteq Results
  BY DEF Results
<1>2. r[1] \in Outputs(c)
  <2>1. CASE i = Len(c.inputs) + 1
    <3>1. r \in Result(Target(c), Made("ld", Linked(c)))
      BY <2>1, ProductsOfLink
    <3> QED BY <3>1 DEF Result, Outputs
  <2>2. CASE i \in 1 .. Len(c.inputs)
    <3> SUFFICES ASSUME NEW p, p = c.inputs[i] PROVE r[1] \in Outputs(c)
      OBVIOUS
    <3>1. r[1] = Output(c, p)
      <4>1. Products(c, i) = {} \/ \E x : Products(c, i) = Result(Output(c, p), x)
        <5>1. c.mode \in {"E", "S", "c", "link"}
          BY CommandType DEF CommandLines, Modes
        <5>2. Type(c, p) \in {"library", "c", "assembler", "unknown"}
          BY <2>2, ProductsOfTurn
        <5>3. CASE Type(c, p) \in {"library", "unknown"}
          BY <2>2, <5>3, ProductsOfTurn
        <5>4. CASE Type(c, p) = "c"
          BY <2>2, <5>1, <5>4, ProductsOfTurn
        <5>5. CASE Type(c, p) = "assembler"
          BY <2>2, <5>1, <5>5, ProductsOfTurn
        <5> QED BY <5>2, <5>3, <5>4, <5>5
      <4> QED BY <4>1 DEF Result
    <3>2. p \in Range2(c.inputs)
      BY <2>2, CommandType DEF Range2
    <3> QED BY <3>1, <3>2 DEF Outputs
  <2> QED BY <2>1, <2>2, CommandType DEF Turns
<1>3. r \in AllProducts(c)
  BY DEF AllProducts
<1> QED BY <1>1, <1>2, <1>3

LEMMA AllProductPaths ==
  ASSUME NEW d \in Drivers, NEW c \in Commands[d], NEW r \in AllProducts(c)
  PROVE  /\ r[1] \in Results /\ r[1] \in Paths /\ r[1] \notin TmpNames
         /\ r[1] # Stdout => r[1] \notin Sources
<1>1. r[1] \in Results
  BY ProductPaths DEF AllProducts
<1>2. r[1] # Stdout => r[1] \notin Sources
  BY FilesAssumption
<1> QED BY <1>1, <1>2, PathsApart

\* What the linker gets grows input by input.
Wanted == {Text(p) : p \in Sources} \cup {Object(p) : p \in Sources}

LEMMA LinkedStart ==
  ASSUME NEW c
  PROVE  LinkedBefore(c, 0) = <<>>
<1>1. [i \in 1 .. 0 |-> Part(c, c.inputs[i])] = <<>>
  OBVIOUS
<1> QED BY <1>1 DEF LinkedBefore, FlattenSeq

LEMMA PartType ==
  ASSUME NEW d \in Drivers, NEW c \in Commands[d], NEW i \in 1 .. Len(c.inputs),
         NEW p, p = c.inputs[i]
  PROVE  /\ Part(c, p) \in Seq(Wanted)
         /\ Type(c, p) = "library" => Part(c, p) = <<Text(p)>>
         /\ Type(c, p) = "c" /\ c.mode = "link" => Part(c, p) = <<Object(p)>>
         /\ Type(c, p) # "library" /\ ~ (Type(c, p) = "c" /\ c.mode = "link") => Part(c, p) = <<>>
<1>1. Text(p) \in Wanted /\ Object(p) \in Wanted
  BY CommandType DEF Wanted
<1>2. <<Text(p)>> \in Seq(Wanted) /\ <<Object(p)>> \in Seq(Wanted) /\ <<>> \in Seq(Wanted)
  BY <1>1
<1> QED BY <1>2 DEF Part

LEMMA LinkedStep ==
  ASSUME NEW d \in Drivers, NEW c \in Commands[d], NEW m \in Nat, m + 1 <= Len(c.inputs)
  PROVE  LinkedBefore(c, m + 1) = LinkedBefore(c, m) \o Part(c, c.inputs[m + 1])
<1> DEFINE s == [i \in 1 .. m |-> Part(c, c.inputs[i])]
           t == [i \in 1 .. m + 1 |-> Part(c, c.inputs[i])]
<1>1. /\ Len(s) = m /\ Len(t) = m + 1 /\ t[m + 1] = Part(c, c.inputs[m + 1])
      /\ \A i \in 1 .. m : s[i] = t[i]
  OBVIOUS
<1>2. LinkedBefore(c, m + 1) = FlattenSeq(t) /\ LinkedBefore(c, m) = FlattenSeq(s)
  BY DEF LinkedBefore
<1> HIDE DEF s, t
<1>3. IF m = 0 THEN FlattenSeq(t) = t[1] ELSE FlattenSeq(t) = FlattenSeq(s) \o t[m + 1]
  BY <1>1, FlattenMore
<1>4. CASE m = 0
  <2>1. m + 1 \in 1 .. Len(c.inputs)
    BY CommandType
  <2>2. Part(c, c.inputs[m + 1]) \in Seq(Wanted)
    BY <2>1, PartType
  <2>3. LinkedBefore(c, m) = <<>>
    BY <1>4, LinkedStart
  <2>4. t[1] = Part(c, c.inputs[m + 1])
    BY <1>1, <1>4
  <2>5. LinkedBefore(c, m + 1) = Part(c, c.inputs[m + 1])
    BY <1>2, <1>3, <1>4, <2>4
  <2> QED BY <2>2, <2>3, <2>5, ConcatEmptySeq
<1> QED BY <1>1, <1>2, <1>3, <1>4

LEMMA LinkedType ==
  ASSUME NEW d \in Drivers, NEW c \in Commands[d]
  PROVE  \A m \in 0 .. Len(c.inputs) : LinkedBefore(c, m) \in Seq(Wanted)
<1> DEFINE T == {k \in 0 .. Len(c.inputs) : LinkedBefore(c, k) \notin Seq(Wanted)}
<1> SUFFICES ASSUME T # {} PROVE FALSE
  OBVIOUS
<1>1. PICK k \in T : \A y \in T : k <= y
  <2>1. T \subseteq Nat
    BY CommandType
  <2> HIDE DEF T
  <2> QED BY <2>1, Smallest
<1>2. k # 0
  <2>1. LinkedBefore(c, 0) = <<>> /\ <<>> \in Seq(Wanted)
    BY LinkedStart
  <2> QED BY <2>1
<1>3. k - 1 \in 0 .. Len(c.inputs) /\ k - 1 \notin T /\ k - 1 \in Nat
  BY <1>1, <1>2, CommandType
<1>4. LinkedBefore(c, k - 1) \in Seq(Wanted)
  BY <1>3
<1>5. LinkedBefore(c, k) = LinkedBefore(c, k - 1) \o Part(c, c.inputs[k])
  <2>1. (k - 1) + 1 = k /\ k <= Len(c.inputs)
    BY <1>3
  <2> QED BY <1>3, <2>1, LinkedStep
<1>6. Part(c, c.inputs[k]) \in Seq(Wanted)
  <2>1. k \in 1 .. Len(c.inputs)
    BY <1>3
  <2> QED BY <2>1, PartType
<1>7. LinkedBefore(c, k) \in Seq(Wanted)
  <2> HIDE DEF T
  <2> QED BY <1>4, <1>5, <1>6, ConcatProperties
<1> QED BY <1>7

LEMMA LinkedIsAll ==
  ASSUME NEW d \in Drivers, NEW c \in Commands[d]
  PROVE  Linked(c) = LinkedBefore(c, Len(c.inputs))
BY CommandType DEF Linked, LinkedBefore, Part

-----------------------------------------------------------------------------
(* What a step of one driver leaves alone *)

\* The files that matter to driver e.
Matters(e, p) == \/ p \in Sources
                 \/ pc[e] # "done" /\ p \in tmpfiles[e]
                 \/ p # Stdout /\ \E r \in AllProducts(cmd[e]) : r[1] = p

LEMMA SameBuilt ==
  ASSUME IInv, NEW e \in Drivers, cmd'[e] = cmd[e],
         \A r \in AllProducts(cmd[e]) : r[1] # Stdout => fs'[r[1]] = fs[r[1]],
         NEW m, NEW n, m <= Count(e) + 1, m \in Int
  PROVE  Built(e, m, n) => Built(e, m, n)'
<1> SUFFICES ASSUME NEW c, c = cmd[e], Built(e, m, n) PROVE Built(e, m, n)'
  OBVIOUS
<1>1. c \in Commands[e] /\ c = cmd'[e]
  BY DEF IInv, Shapes, Shape
<1>2. ASSUME NEW i \in 1 .. m, NEW r \in Products(c, i)
      PROVE  r[1] # Stdout => fs'[r[1]] = fs[r[1]]
  <2>1. i \in Turns(c)
    BY <1>1, CommandType DEF Turns, Count, Inputs
  <2>2. r \in AllProducts(c)
    BY <1>1, <2>1, ProductPaths
  <2> QED BY <1>1, <2>2
<1> QED BY <1>1, <1>2 DEF Built

LEMMA SameMakes ==
  ASSUME IInv, NEW e \in Drivers, pc[e] # "done",
         \A p : Matters(e, p) => fs'[p] = fs[p],
         NEW job, Range2(job.in) \subseteq Sources \cup tmpfiles[e]
  PROVE  Makes(job)' = Makes(job)
<1>1. \A k \in DOMAIN job.in : fs'[job.in[k]] = fs[job.in[k]]
  BY DEF Matters, Range2
<1> QED BY <1>1 DEF Makes

\* The jobs still to do, one by one.
LEMMA TodoJobs ==
  ASSUME IInv, NEW e \in Drivers
  PROVE  \/ todo[e] = <<>>
         \/ \E j : todo[e] = <<j>> /\ IsJob(j) /\ Within(e, j)
         \/ \E j, k : /\ todo[e] = <<j, k>> /\ pc[e] # "wait"
                      /\ IsJob(j) /\ Within(e, j) /\ IsJob(k) /\ Within(e, k)
<1>1. Shape(e) /\ Owned(e)
  BY DEF IInv, Shapes
<1>2. CASE \E j : todo[e] = <<j>>
  <2>1. PICK j : todo[e] = <<j>>
    BY <1>2
  <2>2. 1 \in DOMAIN todo[e] /\ todo[e][1] = j
    BY <2>1
  <2> QED BY <1>1, <2>1, <2>2 DEF Shape, Owned
<1>3. CASE \E j, k : todo[e] = <<j, k>>
  <2>1. PICK j, k : todo[e] = <<j, k>>
    BY <1>3
  <2>2. 1 \in DOMAIN todo[e] /\ todo[e][1] = j /\ 2 \in DOMAIN todo[e] /\ todo[e][2] = k
        /\ Len(todo[e]) = 2
    BY <2>1
  <2> QED BY <1>1, <2>1, <2>2 DEF Shape, Owned
<1>4. todo[e] = <<>> \/ (\E j : todo[e] = <<j>>) \/ (\E j, k : todo[e] = <<j, k>>)
  BY <1>1, Zenon DEF Shape
<1> QED BY <1>2, <1>3, <1>4

LEMMA Pair ==
  ASSUME NEW x, NEW y
  PROVE  <<x>> \o <<y>> = <<x, y>>
<1> DEFINE S == {x, y}
<1>1. <<x>> \in Seq(S) /\ <<y>> \in Seq(S) /\ <<x, y>> \in Seq(S)
      /\ Len(<<x>>) = 1 /\ Len(<<y>>) = 1 /\ Len(<<x, y>>) = 2
      /\ <<x>>[1] = x /\ <<y>>[1] = y /\ <<x, y>>[1] = x /\ <<x, y>>[2] = y
  OBVIOUS
<1> SUFFICES ASSUME NEW s, s = <<x>>, NEW t, t = <<y>>, NEW u, u = <<x, y>>
             PROVE  s \o t = u
  OBVIOUS
<1> HIDE DEF S
<1>2. s \o t \in Seq(S) /\ Len(s \o t) = 2 /\ (s \o t)[1] = x /\ (s \o t)[2] = y
  BY <1>1, ConcatProperties
<1>3. u \in Seq(S) /\ Len(s \o t) = Len(u) /\ \A i \in 1 .. Len(s \o t) : (s \o t)[i] = u[i]
  <2>1. \A i \in 1 .. 2 : i = 1 \/ i = 2
    OBVIOUS
  <2> QED BY <1>1, <1>2, <2>1
<1> QED BY <1>2, <1>3, SeqEqual

LEMMA PendingJobs ==
  ASSUME IInv, NEW e \in Drivers, pc[e] \in {"loop", "wait"}, Pending(e) # <<>>
  PROVE  /\ pc[e] = "wait" => Pending(e)[1] = child[e].job
         /\ \/ \E j : Pending(e) = <<j>> /\ IsJob(j) /\ Within(e, j)
            \/ \E j, k : /\ Pending(e) = <<j, k>> 
                         /\ IsJob(j) /\ Within(e, j) /\ IsJob(k) /\ Within(e, k)
<1>1. Shape(e) /\ Owned(e)
  BY DEF IInv, Shapes
<1>2. CASE pc[e] = "loop"
  BY <1>2, TodoJobs DEF Pending
<1>3. CASE pc[e] = "wait"
  <2>1. Pending(e) = <<child[e].job>> \o todo[e]
    BY <1>3 DEF Pending
  <2>2. IsJob(child[e].job) /\ Within(e, child[e].job)
    BY <1>1, <1>3 DEF Shape, Owned, IsChild
  <2>3. CASE todo[e] = <<>>
    <3>1. Pending(e) = <<child[e].job>>
      BY <2>1, <2>3
    <3> QED BY <1>3, <2>2, <3>1
  <2>4. CASE \E j : todo[e] = <<j>> /\ IsJob(j) /\ Within(e, j)
    <3>1. PICK j : todo[e] = <<j>> /\ IsJob(j) /\ Within(e, j)
      BY <2>4
    <3>2. Pending(e) = <<child[e].job, j>>
      BY <2>1, <3>1, Pair
    <3> QED BY <1>3, <2>2, <3>1, <3>2
  <2> QED BY <1>3, <2>3, <2>4, TodoJobs
<1> QED BY <1>2, <1>3

\* A turn goes on as it did.
LEMMA SameCourse ==
  ASSUME NEW e \in Drivers, OnCourse(e), NEW jobs, jobs = Pending(e), Pending(e)' = jobs,
         cmd'[e] = cmd[e], pos'[e] = pos[e], ldArgs'[e] = ldArgs[e],
         tmpfiles'[e] = tmpfiles[e], Makes(jobs[1])' = Makes(jobs[1])
  PROVE  OnCourse(e)'
<1>1. /\ Turn(e)' = Turn(e) /\ Count(e)' = Count(e) /\ Goals(e)' = Goals(e)
      /\ ForLinker(e)' <=> ForLinker(e)
  BY DEF Turn, Count, Goals, ForLinker, Inputs
<1> QED BY <1>1 DEF OnCourse

LEMMA SameArgs ==
  ASSUME NEW e \in Drivers, ArgsOnCourse(e), unseen'[e] = unseen[e], Pending(e)' = <<>> <=> Pending(e) = <<>>,
         cmd'[e] = cmd[e], pos'[e] = pos[e], ldArgs'[e] = ldArgs[e],
         ~ unseen[e] =>
           \A k \in 1 .. Len(ldArgs[e]) :
             (ForLinker(e) /\ Pending(e) # <<>> => k < Len(ldArgs[e]))
             => fs'[ldArgs[e][k]] = fs[ldArgs[e][k]]
  PROVE  ArgsOnCourse(e)'
<1>1. /\ Turn(e)' = Turn(e) /\ Count(e)' = Count(e)
      /\ ForLinker(e)' <=> ForLinker(e)
  BY DEF Turn, Count, ForLinker, Inputs
<1> QED BY <1>1 DEF ArgsOnCourse

\* A driver whose own state and files are left alone.
Own(e) == <<cmd[e], pc[e], pos[e], todo[e], ldArgs[e], tmpfiles[e], child[e], code[e], unseen[e]>>

LEMMA Elsewhere ==
  ASSUME IInv, NEW e \in Drivers, Own(e)' = Own(e),
         \A p : Matters(e, p) => fs'[p] = fs[p]
  PROVE  Shape(e)' /\ Owned(e)' /\ Progress(e)' /\ Kept(e)'
<1>0. /\ cmd'[e] = cmd[e] /\ pc'[e] = pc[e] /\ pos'[e] = pos[e] /\ todo'[e] = todo[e]
      /\ ldArgs'[e] = ldArgs[e] /\ tmpfiles'[e] = tmpfiles[e] /\ child'[e] = child[e]
      /\ code'[e] = code[e] /\ unseen'[e] = unseen[e]
  BY DEF Own
<1>1. Shape(e) /\ Owned(e) /\ Progress(e) /\ Kept(e) /\ cmd[e] \in Commands[e]
      /\ Count(e) \in Nat /\ Count(e)' = Count(e) /\ pos[e] \in 1 .. Count(e) + 2
  <2>1. Shape(e) /\ cmd[e] \in Commands[e] /\ pos[e] \in 1 .. Count(e) + 2
    BY DEF IInv, Shapes, Shape
  <2> QED BY <1>0, <2>1, CommandType DEF IInv, Count, Inputs
<1>2. Shape(e)'
  BY <1>0, <1>1 DEF Shape, Count, Inputs
<1>3. Owned(e)'
  BY <1>0, <1>1 DEF Owned, Within, Owns
<1>4. /\ Pending(e)' = Pending(e) /\ Turn(e)' = Turn(e) /\ Turn(e) <= Count(e) + 1
      /\ Turn(e) \in Int
  BY <1>0, <1>1 DEF Pending, Turn
<1>5. ASSUME pc[e] \in {"loop", "wait"}, ~ unseen[e]
      PROVE  /\ Built(e, IF Pending(e) = <<>> THEN Turn(e) ELSE Turn(e) - 1, Turn(e))'
             /\ Pending(e)' # <<>> => OnCourse(e)'
             /\ ChildOnCourse(e)'
  <2>1. Built(e, IF Pending(e) = <<>> THEN Turn(e) ELSE Turn(e) - 1, Turn(e))'
    <3> SUFFICES ASSUME NEW n, n = Turn(e), NEW m, m = IF Pending(e) = <<>> THEN n ELSE n - 1
                 PROVE  Built(e, m, n)'
      BY <1>4
    <3>1. Built(e, m, n)
      BY <1>1, <1>5 DEF Progress
    <3>2. m \in Int /\ m <= Count(e) + 1
      BY <1>1, <1>4
    <3>3. \A r \in AllProducts(cmd[e]) : r[1] # Stdout => fs'[r[1]] = fs[r[1]]
      BY DEF Matters
    <3> QED BY <1>0, <3>1, <3>2, <3>3, SameBuilt
  <2>2. ASSUME Pending(e) # <<>> PROVE OnCourse(e)'
    <3>1. OnCourse(e)
      BY <1>1, <1>5, <2>2 DEF Progress
    <3> SUFFICES ASSUME NEW jobs, jobs = Pending(e) PROVE OnCourse(e)'
      OBVIOUS
    <3>2. Within(e, jobs[1])
      BY <1>5, <2>2, PendingJobs
    <3>3. Makes(jobs[1])' = Makes(jobs[1])
      BY <1>5, <3>2, SameMakes DEF Within
    <3> QED BY <1>0, <1>4, <3>1, <3>3, SameCourse
  <2>3. ChildOnCourse(e)'
    <3> SUFFICES ASSUME pc[e] = "wait", NEW job, job = child[e].job
                 PROVE  /\ child[e].state = "writing" => child[e].made = Makes(job)'
                        /\ child[e].state = "ok" => job.out = Stdout \/ fs'[job.out] = Makes(job)'
      BY <1>0 DEF ChildOnCourse
    <3>1. Within(e, job)
      BY <1>1 DEF Owned, Shape
    <3>2. Makes(job)' = Makes(job)
      BY <3>1, SameMakes DEF Within
    <3>3. job.out = Stdout \/ fs'[job.out] = fs[job.out]
      BY <3>1 DEF Within, Owns, Matters
    <3> QED BY <1>1, <1>5, <3>2, <3>3 DEF Progress, ChildOnCourse
  <2> QED BY <1>4, <2>1, <2>2, <2>3
<1>6. ASSUME pc[e] \in {"loop", "wait"} PROVE ArgsOnCourse(e)'
  <2>1. ldArgs[e] \in Seq(Range2(Inputs(e)) \cup tmpfiles[e])
    BY <1>1 DEF Shape
  <2>2. Range2(Inputs(e)) \subseteq Sources
    BY <1>1, CommandType DEF Range2, Inputs
  <2>3. \A k \in 1 .. Len(ldArgs[e]) : ldArgs[e][k] \in Sources \cup tmpfiles[e]
    BY <2>1, <2>2
  <2>4. \A k \in 1 .. Len(ldArgs[e]) : fs'[ldArgs[e][k]] = fs[ldArgs[e][k]]
    BY <1>6, <2>3 DEF Matters
  <2>5. ArgsOnCourse(e)
    BY <1>1, <1>6 DEF Progress
  <2> QED BY <1>0, <1>4, <2>4, <2>5, SameArgs
<1>7. ASSUME pc[e] \in {"exit", "done"}, ~ unseen[e], code[e] = 0
      PROVE  Built(e, Count(e) + 1, Count(e) + 1)'
  <2> SUFFICES ASSUME NEW n, n = Count(e) + 1 PROVE Built(e, n, n)'
    BY <1>1
  <2>1. Built(e, n, n)
    BY <1>1, <1>7 DEF Progress
  <2>2. \A r \in AllProducts(cmd[e]) : r[1] # Stdout => fs'[r[1]] = fs[r[1]]
    BY DEF Matters
  <2> QED BY <1>0, <1>1, <2>1, <2>2, SameBuilt
<1>8. Progress(e)'
  BY <1>0, <1>5, <1>7, <1>6 DEF Progress
<1>9. Kept(e)'
  BY <1>0, <1>1 DEF Kept, Allowed, Matters
<1> QED BY <1>2, <1>3, <1>8, <1>9

\* A step of driver d that writes only to files that matter to no other.
LEMMA StepOf ==
  ASSUME IInv, NEW d \in Drivers,
         DOMAIN fs' = Paths,
         DOMAIN cmd' = Drivers, DOMAIN pc' = Drivers, DOMAIN pos' = Drivers,
         DOMAIN todo' = Drivers, DOMAIN ldArgs' = Drivers, DOMAIN tmpfiles' = Drivers,
         DOMAIN child' = Drivers, DOMAIN code' = Drivers, DOMAIN unseen' = Drivers,
         \A e \in Drivers \ {d} : Own(e)' = Own(e),
         \A e \in Drivers \ {d} : \A p : Matters(e, p) => fs'[p] = fs[p],
         \A p \in Sources : fs'[p] = fs[p],
         Shape(d)', Owned(d)', Progress(d)', Kept(d)', Apart', NoTmpfileLeft'
  PROVE  IInv'
<1>1. SourcesKept'
  BY DEF IInv, SourcesKept
<1>2. ASSUME NEW e \in Drivers, e # d PROVE Shape(e)' /\ Owned(e)' /\ Progress(e)' /\ Kept(e)'
  BY <1>2, Elsewhere
<1>3. \A e \in Drivers : Shape(e)' /\ Owned(e)' /\ Progress(e)' /\ Kept(e)'
  BY <1>2
<1>4. Shapes'
  BY <1>3 DEF Shapes
<1> QED BY <1>1, <1>3, <1>4 DEF IInv

\* All of what is known of a driver.
LEMMA Facts ==
  ASSUME IInv, NEW d \in Drivers
  PROVE  /\ DOMAIN fs = Paths
         /\ DOMAIN cmd = Drivers /\ DOMAIN pc = Drivers /\ DOMAIN pos = Drivers
         /\ DOMAIN todo = Drivers /\ DOMAIN ldArgs = Drivers /\ DOMAIN tmpfiles = Drivers
         /\ DOMAIN child = Drivers /\ DOMAIN code = Drivers /\ DOMAIN unseen = Drivers
         /\ Shape(d) /\ Owned(d) /\ Progress(d) /\ Kept(d)
         /\ cmd[d] \in Commands[d] /\ Count(d) \in Nat /\ pos[d] \in 1 .. Count(d) + 2
         /\ Count(d) = Len(cmd[d].inputs) /\ DOMAIN Inputs(d) = 1 .. Count(d)
         /\ \A i \in 1 .. Count(d) : Inputs(d)[i] \in Sources
         /\ tmpfiles[d] \subseteq TmpNames
         /\ IsChild(child[d])
<1>1. /\ Shape(d) /\ cmd[d] \in Commands[d] /\ pos[d] \in 1 .. Count(d) + 2
      /\ tmpfiles[d] \subseteq TmpNames /\ IsChild(child[d])
  BY DEF IInv, Shapes, Shape
<1> QED BY <1>1, CommandType DEF IInv, Shapes, Count, Inputs

\* A step that leaves the files alone, and the driver neither done nor killed.
LEMMA Inward ==
  ASSUME IInv, NEW d \in Drivers, pc[d] \notin {"done", "killed"}, pc'[d] \notin {"done"},
         UNCHANGED <<fs, cmd, tmpfiles>>,
         DOMAIN pc' = Drivers, DOMAIN pos' = Drivers,
         DOMAIN todo' = Drivers, DOMAIN ldArgs' = Drivers,
         DOMAIN child' = Drivers, DOMAIN code' = Drivers, DOMAIN unseen' = Drivers,
         \A e \in Drivers \ {d} : Own(e)' = Own(e),
         Shape(d)', Owned(d)', Progress(d)', Kept(d)'
  PROVE  IInv'
<1>1. \A e \in Drivers : pc'[e] = "done" <=> pc[e] = "done"
  BY DEF Own
<1>2. Apart'
  BY <1>1 DEF IInv, Apart
<1>3. NoTmpfileLeft'
  BY <1>1 DEF IInv, NoTmpfileLeft
<1>4. /\ DOMAIN fs' = Paths /\ DOMAIN cmd' = Drivers /\ DOMAIN tmpfiles' = Drivers
  BY Facts
<1> QED BY <1>2, <1>3, <1>4, StepOf

\* Nothing is being written by a driver that does not wait.
LEMMA KeptAlone ==
  ASSUME IInv, NEW d \in Drivers, fs' = fs, cmd' = cmd, unseen' = unseen,
         pc[d] # "killed", child[d].state # "writing"
  PROVE  Kept(d)'
BY DEF IInv, Kept, Allowed

LEMMA JobIs ==
  ASSUME NEW tool, NEW in, NEW out
  PROVE  /\ Job(tool, in, out).tool = tool /\ Job(tool, in, out).in = in
         /\ Job(tool, in, out).out = out
         /\ out \notin Range2(in) => IsJob(Job(tool, in, out))
BY DEF Job, IsJob

LEMMA IdleState == IsChild(Idle) /\ Idle.state = "none" /\ Range2(Idle.job.in) = {}
<1>1. Range2(<<>>) = {}
  BY DEF Range2
<1> SUFFICES ASSUME NEW j, j = Job("", <<>>, Stdout)
             PROVE  IsChild(Idle) /\ Idle.state = "none" /\ Range2(Idle.job.in) = {}
  OBVIOUS
<1>2. Idle = [job |-> j, state |-> "none", made |-> NoFile]
  BY DEF Idle
<1>3. IsJob(j) /\ j.in = <<>>
  <2>1. Stdout \notin Range2(<<>>)
    BY <1>1
  <2>2. j.tool = "" /\ j.in = <<>> /\ j.out = Stdout
    BY DEF Job
  <2> QED BY <2>1, <2>2 DEF IsJob
<1> QED BY <1>1, <1>2, <1>3 DEF IsChild

\* What a job reads that reads one file.
LEMMA ReadsOne ==
  ASSUME NEW f, NEW p, NEW in, in = <<p>>
  PROVE  [k \in DOMAIN in |-> f[in[k]]] = <<f[p]>>
<1>1. DOMAIN in = 1 .. 1 /\ in[1] = p
  OBVIOUS
<1>2. [k \in DOMAIN in |-> f[in[k]]] = [k \in 1 .. 1 |-> f[p]]
  <2>1. \A k \in 1 .. 1 : in[k] = p
    BY <1>1
  <2> QED BY <1>1, <2>1
<1>3. [k \in 1 .. 1 |-> f[p]] = <<f[p]>>
  OBVIOUS
<1> QED BY <1>2, <1>3

LEMMA KillStep ==
  ASSUME IInv, NEW d \in Drivers, Kill(d)
  PROVE  IInv'
<1>1. Shape(d) /\ Owned(d) /\ pc[d] # "done" /\ pc[d] # "killed" /\ DOMAIN pc = Drivers
      /\ pc' = [pc EXCEPT ![d] = "killed"]
      /\ UNCHANGED <<fs, cmd, pos, todo, ldArgs, tmpfiles, child, code, unseen>>
  BY Facts DEF Kill
<1>2. Shape(d)' /\ Owned(d)'
  BY <1>1 DEF Shape, Owned, Within, Owns, Count, Inputs
<1>3. Progress(d)' /\ Kept(d)'
  BY <1>1 DEF Progress, Kept
<1>4. \A e \in Drivers \ {d} : Own(e)' = Own(e)
  BY <1>1 DEF Own
<1> QED BY <1>1, <1>2, <1>3, <1>4, Facts, Inward

LEMMA StartStep ==
  ASSUME IInv, NEW d \in Drivers, Start(d)
  PROVE  IInv'
<1>1. /\ Shape(d) /\ Owned(d) /\ pc[d] = "start" /\ pos[d] = 1 /\ todo[d] = <<>>
      /\ ldArgs[d] = <<>> /\ child[d] = Idle
      /\ DOMAIN pc = Drivers /\ DOMAIN code = Drivers
      /\ \/ pc' = [pc EXCEPT ![d] = "exit"] /\ code' = [code EXCEPT ![d] = 1]
         \/ pc' = [pc EXCEPT ![d] = "loop"] /\ UNCHANGED code
      /\ UNCHANGED <<fs, cmd, pos, todo, ldArgs, tmpfiles, child, unseen>>
  BY Facts DEF Start, Exit, Shape
<1>2. Shape(d)'
  BY <1>1 DEF Shape, Count, Inputs
<1>3. Owned(d)'
  BY <1>1 DEF Owned, Within, Owns
<1>4. Kept(d)'
  <2>1. child[d].state = "none" /\ pc'[d] \in {"exit", "loop"}
    BY <1>1, IdleState
  <2> QED BY <1>1, <2>1, KeptAlone
<1>5. Progress(d)'
  <2>1. CASE pc'[d] = "exit"
    BY <1>1, <2>1 DEF Progress
  <2>2. CASE pc'[d] = "loop"
    <3>1. Pending(d)' = <<>> /\ Turn(d)' = 0 /\ Count(d)' = Count(d) /\ Count(d) \in Nat
      BY <1>1, <2>2, Facts DEF Pending, Turn, Count, Inputs
    <3>2. Built(d, 0, 0)'
      BY DEF Built
    <3>3. ChildOnCourse(d)'
      BY <2>2 DEF ChildOnCourse
    <3>4. ArgsOnCourse(d)'
      <4> SUFFICES ASSUME NEW c, c = cmd[d] PROVE ArgsOnCourse(d)'
        OBVIOUS
      <4>1. LinkedBefore(c, 0) = <<>> /\ c = cmd'[d]
        BY <1>1, LinkedStart
      <4> QED BY <1>1, <3>1, <4>1 DEF ArgsOnCourse
    <3> QED BY <2>2, <3>1, <3>2, <3>3, <3>4 DEF Progress
  <2> QED BY <1>1, <2>1, <2>2
<1>6. \A e \in Drivers \ {d} : Own(e)' = Own(e)
  BY <1>1 DEF Own
<1> QED BY <1>1, <1>2, <1>3, <1>4, <1>5, <1>6, Facts, Inward

-----------------------------------------------------------------------------
(* The loop over the inputs *)

LEMMA AtInputFacts ==
  ASSUME IInv, NEW d \in Drivers, NEW type, AtInput(d, type),
         NEW c, c = cmd[d], NEW n, n = pos[d], NEW p, p = Inputs(d)[n]
  PROVE  /\ c \in Commands[d] /\ n \in 1 .. Len(c.inputs) /\ p = c.inputs[n] /\ p \in Sources
         /\ Type(c, p) = type /\ fs[p] = Text(p)
         /\ pc[d] = "loop" /\ todo[d] = <<>> /\ child[d] = Idle /\ child[d].state = "none"
         /\ cmd' = cmd /\ child' = child /\ unseen' = unseen /\ pos' = [pos EXCEPT ![d] = n + 1]
         /\ Pending(d) = <<>> /\ Turn(d) = n - 1 /\ Turn(d)' = n
         /\ Count(d) = Len(c.inputs) /\ Count(d)' = Len(c.inputs) /\ Len(c.inputs) \in Nat
         /\ ArgsOnCourse(d) /\ (~ unseen[d] => Built(d, n - 1, n - 1))
<1>1. /\ pc[d] = "loop" /\ todo[d] = <<>> /\ n \in DOMAIN Inputs(d) /\ Type(c, p) = type
      /\ cmd' = cmd /\ child' = child /\ unseen' = unseen /\ pos' = [pos EXCEPT ![d] = n + 1]
  BY DEF AtInput
<1>2. /\ c \in Commands[d] /\ n \in 1 .. Len(c.inputs) /\ p = c.inputs[n] /\ p \in Sources
      /\ Count(d) = Len(c.inputs) /\ Len(c.inputs) \in Nat /\ DOMAIN pos = Drivers
      /\ Shape(d) /\ Progress(d)
  BY <1>1, Facts DEF Inputs
<1>3. child[d] = Idle /\ child[d].state = "none"
  BY <1>1, <1>2, IdleState DEF Shape
<1>4. Pending(d) = <<>> /\ Turn(d) = n - 1 /\ Turn(d)' = n /\ Count(d)' = Len(c.inputs)
  BY <1>1, <1>2 DEF Pending, Turn, Count, Inputs
<1>5. ArgsOnCourse(d) /\ (~ unseen[d] => Built(d, n - 1, n - 1))
  <2> SUFFICES ASSUME NEW m, m = n - 1 PROVE ArgsOnCourse(d) /\ (~ unseen[d] => Built(d, m, m))
    OBVIOUS
  <2> QED BY <1>1, <1>2, <1>4 DEF Progress
<1>6. fs[p] = Text(p)
  BY <1>2 DEF IInv, SourcesKept
<1> QED BY <1>1, <1>2, <1>3, <1>4, <1>5, <1>6

\* The turn begins; if it has no result it is over.
LEMMA BuiltNext ==
  ASSUME IInv, NEW d \in Drivers, cmd' = cmd, \A p : Matters(d, p) => fs'[p] = fs[p],
         NEW n \in Nat, n <= Count(d) + 1, Built(d, n - 1, n - 1)
  PROVE  /\ Built(d, n - 1, n)'
         /\ Products(cmd[d], n) = {} => Built(d, n, n)'
<1> SUFFICES ASSUME NEW c, c = cmd[d] PROVE /\ Built(d, n - 1, n)'
                                            /\ Products(c, n) = {} => Built(d, n, n)'
  OBVIOUS
<1> SUFFICES ASSUME NEW m, m = n - 1 PROVE /\ Built(d, m, n)'
                                           /\ Products(c, n) = {} => Built(d, n, n)'
  OBVIOUS
<1>1. Count(d) \in Nat /\ m \in Int /\ m <= Count(d) + 1
  BY Facts
<1>2. Built(d, m, m)'
  <2>1. \A r \in AllProducts(cmd[d]) : r[1] # Stdout => fs'[r[1]] = fs[r[1]]
    BY DEF Matters
  <2> QED BY <1>1, <2>1, SameBuilt
<1>3. Built(d, m, n)'
  <2>1. \A i \in 1 .. m : \A j \in i + 1 .. m : j \in i + 1 .. n
    OBVIOUS
  <2> QED BY <1>2, <2>1 DEF Built
<1>4. ASSUME Products(c, n) = {} PROVE Built(d, n, n)'
  <2>1. \A i \in 1 .. n : i \in 1 .. m \/ i = n
    OBVIOUS
  <2> QED BY <1>3, <1>4, <2>1 DEF Built
<1> QED BY <1>3, <1>4

\* The arguments of the linker when a turn begins.
Fills(d, before) ==
  /\ before \in Seq(Wanted) /\ Len(before) = Len(ldArgs[d])
  /\ ~ unseen[d] => \A k \in 1 .. Len(before) : fs'[ldArgs[d][k]] = before[k]

LEMMA ArgsBefore ==
  ASSUME IInv, NEW d \in Drivers, pc[d] = "loop", todo[d] = <<>>,
         \A p : Matters(d, p) => fs'[p] = fs[p],
         pos[d] \in 1 .. Len(cmd[d].inputs), ArgsOnCourse(d)
  PROVE  \E before :
           /\ Fills(d, before)
           /\ LinkedBefore(cmd[d], pos[d]) = before \o Part(cmd[d], cmd[d].inputs[pos[d]])
<1> SUFFICES ASSUME NEW c, c = cmd[d], NEW n, n = pos[d]
             PROVE  \E before : Fills(d, before)
                                /\ LinkedBefore(c, n) = before \o Part(c, c.inputs[n])
  OBVIOUS
<1> SUFFICES ASSUME NEW p, p = c.inputs[n], NEW parts, parts = LinkedBefore(c, n)
             PROVE  \E before : Fills(d, before) /\ parts = before \o Part(c, p)
  OBVIOUS
<1> SUFFICES ASSUME NEW m, m = n - 1, NEW args, args = ldArgs[d],
                    NEW before, before = LinkedBefore(c, m)
             PROVE  Fills(d, before) /\ parts = before \o Part(c, p)
  OBVIOUS
<1>1. /\ c \in Commands[d] /\ Len(c.inputs) \in Nat /\ Count(d) = Len(c.inputs)
      /\ Turn(d) = m /\ Pending(d) = <<>>
      /\ args \in Seq(Range2(Inputs(d)) \cup tmpfiles[d])
  BY Facts DEF Turn, Pending, Shape
<1>2. m \in Nat /\ m \in 0 .. Len(c.inputs) /\ m + 1 <= Len(c.inputs) /\ m + 1 = n
  BY <1>1
<1>3. /\ Len(before) = Len(args)
      /\ ~ unseen[d] => \A k \in 1 .. Len(before) : fs[args[k]] = before[k]
  BY <1>1, <1>2 DEF ArgsOnCourse
<1>4. \A k \in 1 .. Len(args) : fs'[args[k]] = fs[args[k]]
  <2>1. Range2(Inputs(d)) \subseteq Sources
    BY <1>1, CommandType DEF Range2, Inputs
  <2>2. \A k \in 1 .. Len(args) : args[k] \in Sources \cup tmpfiles[d]
    BY <1>1, <2>1
  <2> QED BY <2>2 DEF Matters
<1>5. before \in Seq(Wanted)
  BY <1>1, <1>2, LinkedType
<1>6. parts = before \o Part(c, p)
  <2> SUFFICES ASSUME NEW k, k = m + 1
               PROVE  LinkedBefore(c, k) = LinkedBefore(c, m) \o Part(c, c.inputs[k])
    BY <1>2
  <2> QED BY <1>1, <1>2, LinkedStep
<1> QED BY <1>3, <1>4, <1>5, <1>6 DEF Fills

\* None more.
LEMMA ArgsSame ==
  ASSUME IInv, NEW d \in Drivers, pc[d] = "loop", todo[d] = <<>>,
         cmd' = cmd, \A p : Matters(d, p) => fs'[p] = fs[p],
         NEW c, c = cmd[d], NEW n, n = pos[d], n \in 1 .. Len(c.inputs), Turn(d)' = n,
         ArgsOnCourse(d), NEW p, p = c.inputs[n],
         Part(c, p) = <<>>, ldArgs'[d] = ldArgs[d], unseen' = unseen
  PROVE  ArgsOnCourse(d)'
<1> SUFFICES ASSUME NEW parts, parts = LinkedBefore(c, n) PROVE ArgsOnCourse(d)'
  OBVIOUS
<1>1. PICK before : Fills(d, before) /\ parts = before \o Part(c, p)
  <2>1. \E before :
           /\ Fills(d, before)
           /\ LinkedBefore(cmd[d], pos[d]) = before \o Part(cmd[d], cmd[d].inputs[pos[d]])
    BY ArgsBefore
  <2> QED BY <2>1
<1>2. parts = before
  <2>1. before \in Seq(Wanted) /\ parts = before \o <<>>
    BY <1>1 DEF Fills
  <2> QED BY <2>1, ConcatEmptySeq
<1>3. Count(d)' = Len(c.inputs) /\ Len(c.inputs) \in Nat
  BY Facts DEF Count, Inputs
<1>4. LinkedBefore(cmd[d], IF Turn(d) <= Count(d) THEN Turn(d) ELSE Count(d))' = parts
  BY <1>3
<1> QED BY <1>1, <1>2, <1>4 DEF ArgsOnCourse, Fills

LongerBy(d, a) ==
  /\ Len(ldArgs'[d]) = Len(ldArgs[d]) + 1
  /\ ldArgs'[d][Len(ldArgs[d]) + 1] = a
  /\ \A k \in 1 .. Len(ldArgs[d]) : ldArgs'[d][k] = ldArgs[d][k]

\* One more.
LEMMA Longer ==
  ASSUME NEW S, NEW s \in Seq(S), NEW a
  PROVE  /\ Len(Append(s, a)) = Len(s) + 1 /\ Append(s, a)[Len(s) + 1] = a
         /\ \A k \in 1 .. Len(s) : Append(s, a)[k] = s[k]
<1> DEFINE T == S \cup {a}
<1>1. s \in Seq(T)
  BY SeqMonotonic
<1>2. a \in T
  OBVIOUS
<1> HIDE DEF T
<1> QED BY <1>1, <1>2, AppendProperties

LEMMA OneMore ==
  ASSUME IInv, NEW d \in Drivers, NEW a, NEW args, args = ldArgs[d],
         ldArgs'[d] = Append(args, a)
  PROVE  LongerBy(d, a)
<1> SUFFICES ASSUME NEW S, S = Range2(Inputs(d)) \cup tmpfiles[d] PROVE LongerBy(d, a)
  OBVIOUS
<1>1. args \in Seq(S)
  BY Facts, Zenon DEF Shape
<1>2. /\ Len(Append(args, a)) = Len(args) + 1 /\ Append(args, a)[Len(args) + 1] = a
      /\ \A k \in 1 .. Len(args) : Append(args, a)[k] = args[k]
  BY <1>1, Longer
<1> QED BY <1>2, Zenon DEF LongerBy

LEMMA PartLonger ==
  ASSUME NEW S, NEW s \in Seq(S), NEW w, <<w>> \in Seq(S)
  PROVE  /\ Len(s \o <<w>>) = Len(s) + 1 /\ Len(s) \in Nat
         /\ \A k \in 1 .. Len(s) : (s \o <<w>>)[k] = s[k]
         /\ (s \o <<w>>)[Len(s) + 1] = w
<1>1. Len(<<w>>) = 1 /\ <<w>>[1] = w
  OBVIOUS
<1> SUFFICES ASSUME NEW t \in Seq(S), t = <<w>>
             PROVE  /\ Len(s \o t) = Len(s) + 1 /\ Len(s) \in Nat
                    /\ \A k \in 1 .. Len(s) : (s \o t)[k] = s[k]
                    /\ (s \o t)[Len(s) + 1] = w
  OBVIOUS
<1>2. Len(t) = 1 /\ t[1] = w
  BY <1>1
<1>3. Len(s) \in Nat
  OBVIOUS
<1> QED BY <1>2, <1>3, ConcatProperties

LEMMA ArgsMore ==
  ASSUME IInv, NEW d \in Drivers, pc[d] = "loop", todo[d] = <<>>,
         cmd' = cmd, \A p : Matters(d, p) => fs'[p] = fs[p],
         NEW c, c = cmd[d], NEW n, n = pos[d], n \in 1 .. Len(c.inputs), Turn(d)' = n,
         ArgsOnCourse(d), NEW p, p = c.inputs[n],
         NEW w, Part(c, p) = <<w>>, NEW a, LongerBy(d, a), unseen' = unseen,
         (ForLinker(d)' /\ Pending(d)' # <<>>) \/ fs'[a] = w
  PROVE  ArgsOnCourse(d)'
<1> SUFFICES ASSUME NEW parts, parts = LinkedBefore(c, n)
             PROVE  ArgsOnCourse(d)'
  OBVIOUS
<1>0. Part(c, p) \in Seq(Wanted) /\ Len(c.inputs) \in Nat
  BY Facts, PartType
<1>1. PICK before : Fills(d, before) /\ parts = before \o Part(c, p)
  <2>1. \E before :
           /\ Fills(d, before)
           /\ LinkedBefore(cmd[d], pos[d]) = before \o Part(cmd[d], cmd[d].inputs[pos[d]])
    BY ArgsBefore
  <2> QED BY <2>1
<1>2. /\ Len(parts) = Len(before) + 1 /\ Len(before) \in Nat
      /\ \A k \in 1 .. Len(before) : parts[k] = before[k]
      /\ parts[Len(before) + 1] = w
  <2>1. before \in Seq(Wanted) /\ <<w>> \in Seq(Wanted) /\ parts = before \o <<w>>
    BY <1>0, <1>1, Zenon DEF Fills
  <2> QED BY <2>1, PartLonger
<1>3. /\ Len(ldArgs'[d]) = Len(ldArgs[d]) + 1 /\ ldArgs'[d][Len(ldArgs[d]) + 1] = a
      /\ \A k \in 1 .. Len(ldArgs[d]) : ldArgs'[d][k] = ldArgs[d][k]
  BY DEF LongerBy
<1>4. ASSUME NEW k \in 1 .. Len(parts), ~ unseen[d],
             ForLinker(d)' /\ Pending(d)' # <<>> => k < Len(parts)
      PROVE  fs'[ldArgs'[d][k]] = parts[k]
  <2>1. CASE k \in 1 .. Len(before)
    <3>1. fs'[ldArgs[d][k]] = before[k] /\ k \in 1 .. Len(ldArgs[d])
      BY <1>1, <1>4, <2>1 DEF Fills
    <3> QED BY <1>2, <1>3, <2>1, <3>1
  <2>2. CASE k = Len(before) + 1
    <3>1. ~ (ForLinker(d)' /\ Pending(d)' # <<>>)
      BY <1>2, <1>4, <2>2
    <3>2. fs'[a] = w
      BY <3>1
    <3>3. ldArgs'[d][k] = a
      BY <1>1, <1>3, <2>2 DEF Fills
    <3>4. parts[k] = w
      BY <1>2, <2>2
    <3> QED BY <3>2, <3>3, <3>4
  <2> QED BY <1>2, <2>1, <2>2
<1>5. Count(d)' = Len(c.inputs)
  BY DEF Count, Inputs
<1>6. LinkedBefore(cmd[d], IF Turn(d) <= Count(d) THEN Turn(d) ELSE Count(d))' = parts
  BY <1>0, <1>5
<1>7. Len(parts) = Len(ldArgs'[d])
  BY <1>1, <1>2, <1>3 DEF Fills
<1>8. ~ unseen[d] =>
        \A k \in 1 .. Len(parts) :
          (ForLinker(d)' /\ Pending(d)' # <<>> => k < Len(parts)) => fs'[ldArgs'[d][k]] = parts[k]
  BY <1>4
<1> QED BY <1>6, <1>7, <1>8 DEF ArgsOnCourse

\* The turns that need no child: a library, an assembly file under -S.
LEMMA QuietStep ==
  ASSUME IInv, NEW d \in Drivers, NEW type, AtInput(d, type),
         NEW c, c = cmd[d], NEW p, p = Inputs(d)[pos[d]],
         fs' = fs, pc' = pc, todo' = todo, tmpfiles' = tmpfiles, code' = code,
         \/ type = "library" /\ ldArgs' = [ldArgs EXCEPT ![d] = Append(@, p)]
         \/ type = "assembler" /\ c.mode = "S" /\ ldArgs' = ldArgs
  PROVE  IInv'
<1> SUFFICES ASSUME NEW n, n = pos[d] PROVE IInv'
  OBVIOUS
<1>1. /\ c \in Commands[d] /\ n \in 1 .. Len(c.inputs) /\ p = c.inputs[n] /\ p \in Sources
      /\ Type(c, p) = type /\ fs[p] = Text(p)
      /\ pc[d] = "loop" /\ todo[d] = <<>> /\ child[d] = Idle /\ child[d].state = "none"
      /\ cmd' = cmd /\ child' = child /\ unseen' = unseen /\ pos' = [pos EXCEPT ![d] = n + 1]
      /\ Pending(d) = <<>> /\ Turn(d) = n - 1 /\ Turn(d)' = n
      /\ Count(d) = Len(c.inputs) /\ Count(d)' = Len(c.inputs) /\ Len(c.inputs) \in Nat
      /\ ArgsOnCourse(d) /\ (~ unseen[d] => Built(d, n - 1, n - 1))
  BY AtInputFacts
<1>2. /\ Shape(d) /\ Owned(d) /\ DOMAIN pos = Drivers /\ DOMAIN ldArgs = Drivers
      /\ ldArgs[d] \in Seq(Range2(Inputs(d)) \cup tmpfiles[d])
  BY Facts DEF Shape
<1>3. ldArgs'[d] \in Seq(Range2(Inputs(d)) \cup tmpfiles[d])
  <2>1. p \in Range2(Inputs(d))
    BY <1>1, CommandType DEF Range2, Inputs
  <2> QED BY <1>2, <2>1, AppendProperties
<1>4. Shape(d)'
  <2>1. n + 1 \in 1 .. Count(d)' + 2
    BY <1>1
  <2> QED BY <1>1, <1>2, <1>3, <2>1 DEF Shape, Inputs
<1>5. Owned(d)'
  BY <1>1, <1>2 DEF Owned, Within, Owns
<1>6. Kept(d)'
  BY <1>1, KeptAlone
<1>7. Progress(d)'
  <2>1. Pending(d)' = <<>> /\ ChildOnCourse(d)'
    BY <1>1 DEF Pending, ChildOnCourse
  <2>2. Products(c, n) = {} /\ Part(c, p) = IF type = "library" THEN <<Text(p)>> ELSE <<>>
    BY <1>1, ProductsOfTurn, PartType
  <2>3. ~ unseen[d] => Built(d, n, n)'
    BY <1>1, <2>2, BuiltNext
  <2>4. ArgsOnCourse(d)'
    <3>1. CASE type = "library"
      <4>1. Part(c, p) = <<Text(p)>> /\ ldArgs'[d] = Append(ldArgs[d], p) /\ fs'[p] = Text(p)
        BY <1>1, <1>2, <2>2, <3>1
      <4> QED BY <1>1, <4>1, OneMore, ArgsMore
    <3>2. CASE type = "assembler"
      <4>1. Part(c, p) = <<>> /\ ldArgs'[d] = ldArgs[d]
        BY <2>2, <3>2
      <4> QED BY <1>1, <4>1, ArgsSame
    <3> QED BY <3>1, <3>2
  <2> QED BY <1>1, <2>1, <2>3, <2>4 DEF Progress
<1>8. \A e \in Drivers \ {d} : Own(e)' = Own(e)
  BY <1>1, <1>2 DEF Own
<1> QED BY <1>1, <1>2, <1>4, <1>5, <1>6, <1>7, <1>8, Facts, Inward

\* Leaving with status 1.
LEMMA FailStep ==
  ASSUME IInv, NEW d \in Drivers, pc[d] \in {"loop", "wait"}, child[d].state # "writing",
         pc' = [pc EXCEPT ![d] = "exit"], code' = [code EXCEPT ![d] = 1],
         child'[d] = Idle, DOMAIN child' = Drivers,
         \A e \in Drivers \ {d} : child'[e] = child[e],
         pos' = pos \/ pos' = [pos EXCEPT ![d] = @ + 1],
         pos[d] <= Count(d) + 1 \/ pos' = pos,
         fs' = fs, cmd' = cmd, todo' = todo, ldArgs' = ldArgs, tmpfiles' = tmpfiles,
         \/ unseen' = unseen
         \/ unseen' = [unseen EXCEPT ![d] = TRUE]
  PROVE  IInv'
<1>1. /\ Shape(d) /\ Owned(d) /\ DOMAIN pc = Drivers /\ DOMAIN code = Drivers
      /\ DOMAIN child = Drivers /\ DOMAIN pos = Drivers /\ DOMAIN unseen = Drivers
      /\ pos[d] \in 1 .. Count(d) + 2 /\ Count(d) \in Nat /\ Count(d)' = Count(d)
  BY Facts DEF Count, Inputs
<1>2. IsChild(Idle) /\ Idle.state = "none" /\ Range2(Idle.job.in) = {}
  BY IdleState
<1>3. Shape(d)'
  <2>1. pos'[d] \in 1 .. Count(d)' + 2
    BY <1>1
  <2> QED BY <1>1, <1>2, <2>1 DEF Shape, Inputs
<1>4. Owned(d)'
  BY <1>1, <1>2 DEF Owned, Within, Owns
<1>5. Progress(d)' /\ Kept(d)'
  <2>1. pc'[d] = "exit" /\ code'[d] = 1
    BY <1>1
  <2>2. Progress(d)'
    BY <2>1 DEF Progress
  <2>3. CASE unseen' = unseen
    BY <2>2, <2>3, KeptAlone
  <2>4. CASE unseen' = [unseen EXCEPT ![d] = TRUE]
    BY <1>1, <2>2, <2>4 DEF Kept
  <2> QED BY <2>2, <2>3, <2>4
<1>6. \A e \in Drivers \ {d} : Own(e)' = Own(e)
  BY <1>1 DEF Own
<1> QED BY <1>1, <1>3, <1>4, <1>5, <1>6, Facts, Inward

\* The turns of one child.
LEMMA OneJobStep ==
  ASSUME IInv, NEW d \in Drivers, NEW type, AtInput(d, type),
         NEW c, c = cmd[d], NEW p, p = Inputs(d)[pos[d]], NEW tool,
         \/ type = "assembler" /\ c.mode # "S" /\ tool = "as"
         \/ type = "c" /\ c.mode \in {"E", "S"} /\ tool = "cc1",
         fs' = fs, pc' = pc, ldArgs' = ldArgs, tmpfiles' = tmpfiles, code' = code,
         NEW job, job = Job(tool, <<p>>, Output(c, p)),
         todo' = [todo EXCEPT ![d] = <<job>>]
  PROVE  IInv'
<1> SUFFICES ASSUME NEW n, n = pos[d], NEW out, out = Output(c, p) PROVE IInv'
  OBVIOUS
<1>1. /\ c \in Commands[d] /\ n \in 1 .. Len(c.inputs) /\ p = c.inputs[n] /\ p \in Sources
      /\ Type(c, p) = type /\ fs[p] = Text(p)
      /\ pc[d] = "loop" /\ todo[d] = <<>> /\ child[d] = Idle /\ child[d].state = "none"
      /\ cmd' = cmd /\ child' = child /\ unseen' = unseen /\ pos' = [pos EXCEPT ![d] = n + 1]
      /\ Pending(d) = <<>> /\ Turn(d) = n - 1 /\ Turn(d)' = n
      /\ Count(d) = Len(c.inputs) /\ Count(d)' = Len(c.inputs) /\ Len(c.inputs) \in Nat
      /\ ArgsOnCourse(d) /\ (~ unseen[d] => Built(d, n - 1, n - 1))
  BY AtInputFacts
<1>2. /\ Shape(d) /\ Owned(d) /\ DOMAIN pos = Drivers /\ DOMAIN todo = Drivers
  BY Facts
<1>3. Products(c, n) = Result(out, Made(tool, <<Text(p)>>)) /\ Part(c, p) = <<>>
  <2>1. CASE type = "assembler"
    BY <1>1, <2>1, ProductsOfTurn, PartType
  <2>2. CASE type = "c"
    <3>1. Products(c, n) = Result(Output(c, p), Compiled(p))
      BY <1>1, <2>2, ProductsOfTurn
    <3>2. Part(c, p) = <<>>
      BY <1>1, <2>2, PartType
    <3> QED BY <2>2, <3>1, <3>2 DEF Compiled
  <2> QED BY <2>1, <2>2
<1>4. <<out, Made(tool, <<Text(p)>>)>> \in AllProducts(c) /\ out # p
  <2>1. <<out, Made(tool, <<Text(p)>>)>> \in Products(c, n) /\ n \in Turns(c)
    <3>1. n \in Turns(c)
      BY <1>1 DEF Turns
    <3> QED BY <1>3, <3>1 DEF Result
  <2>2. <<out, Made(tool, <<Text(p)>>)>> \in AllProducts(c)
    BY <1>1, <2>1, ProductPaths
  <2>3. out # Stdout => out \notin Sources
    BY <1>1, <2>2, AllProductPaths
  <2> QED BY <1>1, <2>2, <2>3, PathsApart
<1>5. /\ IsJob(job) /\ Range2(job.in) \subseteq Sources /\ Within(d, job)' /\ todo'[d] = <<job>>
      /\ job.tool = tool /\ job.in = <<p>> /\ job.out = out
  <2>1. job.tool = tool /\ job.in = <<p>> /\ job.out = out
    BY JobIs
  <2>2. Range2(<<p>>) = {p}
    BY DEF Range2
  <2>3. IsJob(job)
    BY <1>4, <2>2, JobIs
  <2> QED BY <1>1, <1>2, <1>4, <2>1, <2>2, <2>3 DEF Within, Owns
<1>6. Shape(d)'
  <2>1. n + 1 \in 1 .. Count(d)' + 2
    BY <1>1
  <2>2. todo'[d] = <<todo'[d][1]>> /\ DOMAIN todo'[d] = {1} /\ todo'[d][1] = job
    BY <1>5
  <2> QED BY <1>1, <1>2, <1>5, <2>1, <2>2 DEF Shape, Inputs
<1>7. Owned(d)'
  <2>1. \A i \in DOMAIN todo'[d] : Within(d, todo[d][i])'
    BY <1>5
  <2> QED BY <1>1, <1>2, <2>1 DEF Owned
<1>8. Kept(d)'
  BY <1>1, KeptAlone
<1>9. Progress(d)'
  <2>1. Pending(d)' = <<job>> /\ ChildOnCourse(d)' /\ Pending(d)' # <<>>
    <3>1. pc'[d] = "loop" /\ todo'[d] = <<job>>
      BY <1>1, <1>5
    <3>2. Pending(d)' = <<job>> /\ <<job>> # <<>>
      BY <3>1 DEF Pending
    <3>3. ChildOnCourse(d)'
      BY <3>1 DEF ChildOnCourse
    <3> QED BY <3>2, <3>3
  <2>2. ~ unseen[d] => Built(d, n - 1, n)'
    BY <1>1, BuiltNext
  <2>3. ArgsOnCourse(d)'
    BY <1>1, <1>3, ArgsSame
  <2>4. OnCourse(d)'
    <3>1. ~ ForLinker(d)'
      BY <1>1 DEF ForLinker, Inputs
    <3>2. Goals(d)' = Products(c, n)
      BY <1>1, <3>1 DEF Goals
    <3>3. Makes(job)' = Made(tool, <<Text(p)>>)
      <4>1. [k \in DOMAIN job.in |-> fs'[job.in[k]]] = <<fs'[p]>>
        BY <1>5, ReadsOne
      <4>2. Makes(job)' = Made(job.tool, [k \in DOMAIN job.in |-> fs'[job.in[k]]])
        BY DEF Makes
      <4> QED BY <1>1, <1>5, <4>1, <4>2
    <3>4. n \in 1 .. Count(d)' + 1
      BY <1>1
    <3>5. Goals(d)' = Result(job.out, Makes(job)')
      BY <1>3, <1>5, <3>2, <3>3
    <3> QED BY <1>1, <2>1, <3>1, <3>4, <3>5 DEF OnCourse
  <2> QED BY <1>1, <2>1, <2>2, <2>3, <2>4 DEF Progress
<1>10. \A e \in Drivers \ {d} : Own(e)' = Own(e)
  BY <1>1, <1>2 DEF Own
<1> QED BY <1>1, <1>2, <1>6, <1>7, <1>8, <1>9, <1>10, Facts, Inward

\* A turn that ends the driver with status 1.
LEMMA ExitAtInput ==
  ASSUME IInv, NEW d \in Drivers, NEW type, AtInput(d, type), Exit(d, 1),
         UNCHANGED <<fs, todo, ldArgs, tmpfiles>>
  PROVE  IInv'
<1> SUFFICES ASSUME NEW n, n = pos[d], NEW c, c = cmd[d], NEW p, p = Inputs(d)[n] PROVE IInv'
  OBVIOUS
<1>1. /\ pc[d] = "loop" /\ child[d] = Idle /\ child[d].state = "none" /\ n \in 1 .. Len(c.inputs)
      /\ cmd' = cmd /\ child' = child /\ unseen' = unseen /\ pos' = [pos EXCEPT ![d] = n + 1]
      /\ Count(d) = Len(c.inputs) /\ Len(c.inputs) \in Nat
  BY AtInputFacts
<1>2. /\ child'[d] = Idle /\ DOMAIN child' = Drivers
      /\ pc' = [pc EXCEPT ![d] = "exit"] /\ code' = [code EXCEPT ![d] = 1]
      /\ pos' = [pos EXCEPT ![d] = @ + 1] /\ pos[d] <= Count(d) + 1
  BY <1>1, Facts DEF Exit
<1> QED BY <1>1, <1>2, FailStep

-----------------------------------------------------------------------------
(* Temporary files *)

LEMMA NewFiles ==
  ASSUME IInv, NEW d \in Drivers, pc[d] = "loop", pc' = pc,
         NEW new, new \subseteq FreeNames, CreateTmpfiles(d, new)
  PROVE  /\ new \subseteq TmpNames /\ new \cap Sources = {} /\ new \cap Results = {}
         /\ new \cap tmpfiles[d] = {}
         /\ tmpfiles' = [tmpfiles EXCEPT ![d] = tmpfiles[d] \cup new]
         /\ tmpfiles'[d] = tmpfiles[d] \cup new
         /\ DOMAIN fs' = Paths /\ DOMAIN tmpfiles' = Drivers
         /\ \A e \in Drivers : \A p : Matters(e, p) => fs'[p] = fs[p]
         /\ \A p \in Sources : fs'[p] = fs[p]
         /\ Apart' /\ NoTmpfileLeft'
<1>1. /\ new \subseteq TmpNames /\ \A t \in new : \A e \in Drivers : pc[e] = "done" \/ t \notin tmpfiles[e]
      /\ fs' = [p \in Paths |-> IF p \in new THEN Empty ELSE fs[p]]
      /\ tmpfiles' = [tmpfiles EXCEPT ![d] = tmpfiles[d] \cup new]
  BY DEF CreateTmpfiles, FreeNames
<1>2. /\ new \cap Sources = {} /\ new \cap Results = {} /\ new \cap tmpfiles[d] = {}
      /\ tmpfiles'[d] = tmpfiles[d] \cup new /\ DOMAIN tmpfiles = Drivers
  BY <1>1, PathsApart, Facts
<1>3. ASSUME NEW e \in Drivers, NEW p, Matters(e, p) PROVE fs'[p] = fs[p]
  <2>1. p \in Paths /\ p \notin new
    <3>1. CASE p \in Sources
      BY <1>2, <3>1, PathsApart
    <3>2. CASE pc[e] # "done" /\ p \in tmpfiles[e]
      <4>1. tmpfiles[e] \subseteq TmpNames
        BY Facts
      <4> QED BY <1>1, <3>2, <4>1, PathsApart
    <3>3. CASE p # Stdout /\ \E r \in AllProducts(cmd[e]) : r[1] = p
      <4>1. cmd[e] \in Commands[e]
        BY Facts
      <4>2. p \in Paths /\ p \notin TmpNames
        BY <3>3, <4>1, AllProductPaths
      <4> QED BY <1>1, <4>2
    <3> QED BY <1>3, <3>1, <3>2, <3>3 DEF Matters
  <2> QED BY <1>1, <2>1
<1>4. \A p \in Sources : fs'[p] = fs[p]
  BY <1>3 DEF Matters
<1>5. \A e \in Drivers : e # d => tmpfiles'[e] = tmpfiles[e]
  BY <1>1, <1>2
<1>6. Apart'
  <2> SUFFICES ASSUME NEW a \in Drivers, NEW b \in Drivers, a # b, pc[a] # "done", pc[b] # "done"
               PROVE  tmpfiles'[a] \cap tmpfiles'[b] = {}
    BY DEF Apart
  <2>1. tmpfiles[a] \cap tmpfiles[b] = {}
    BY DEF IInv, Apart
  <2>2. \A t \in new : t \notin tmpfiles[a] /\ t \notin tmpfiles[b]
    BY <1>1
  <2> QED BY <1>2, <1>5, <2>1, <2>2
<1>7. NoTmpfileLeft'
  <2> SUFFICES ASSUME NEW t \in TmpNames, fs'[t] # NoFile
               PROVE  \E e \in Drivers : pc'[e] # "done" /\ t \in tmpfiles'[e]
    BY DEF NoTmpfileLeft
  <2>1. CASE t \in new
    BY <1>2, <2>1
  <2>2. CASE t \notin new
    <3>1. fs[t] # NoFile
      BY <1>1, <2>2, PathsApart
    <3>2. PICK e \in Drivers : pc[e] # "done" /\ t \in tmpfiles[e]
      BY <3>1 DEF IInv, NoTmpfileLeft
    <3> QED BY <1>2, <1>5, <3>2
  <2> QED BY <2>1, <2>2
<1>8. DOMAIN fs' = Paths /\ DOMAIN tmpfiles' = Drivers
  BY <1>1, <1>2
<1> QED BY <1>1, <1>2, <1>3, <1>4, <1>6, <1>7, <1>8

LEMMA KeptMatters ==
  ASSUME IInv, NEW d \in Drivers, \A p : Matters(d, p) => fs'[p] = fs[p],
         cmd' = cmd, unseen' = unseen, pc[d] # "killed", child[d].state # "writing"
  PROVE  Kept(d)'
<1> SUFFICES ASSUME ~ unseen[d], NEW r \in AllProducts(cmd[d]), r[1] # Stdout PROVE Allowed(d, r[1])'
  BY DEF Kept
<1>1. fs'[r[1]] = fs[r[1]]
  BY DEF Matters
<1>2. Allowed(d, r[1])
  BY DEF IInv, Kept
<1> QED BY <1>1, <1>2 DEF Allowed

\* The turns of two children: the compiler's result is assembled.
LEMMA TwoJobStep ==
  ASSUME IInv, NEW d \in Drivers, AtInput(d, "c"),
         NEW c, c = cmd[d], NEW p, p = Inputs(d)[pos[d]],
         NEW t, NEW out, NEW new, new \subseteq FreeNames, CreateTmpfiles(d, new), t \in new,
         pc' = pc, code' = code,
         \/ c.mode = "c" /\ new = {t} /\ out = Output(c, p) /\ ldArgs' = ldArgs
         \/ /\ c.mode = "link" /\ new = {t, out} /\ t # out
            /\ ldArgs' = [ldArgs EXCEPT ![d] = Append(@, out)],
         NEW job1, job1 = Job("cc1", <<p>>, t), NEW job2, job2 = Job("as", <<t>>, out),
         todo' = [todo EXCEPT ![d] = <<job1, job2>>]
  PROVE  IInv'
<1> SUFFICES ASSUME NEW n, n = pos[d], NEW args, args = ldArgs[d] PROVE IInv'
  OBVIOUS
<1>1. /\ c \in Commands[d] /\ n \in 1 .. Len(c.inputs) /\ p = c.inputs[n] /\ p \in Sources
      /\ Type(c, p) = "c" /\ fs[p] = Text(p)
      /\ pc[d] = "loop" /\ todo[d] = <<>> /\ child[d] = Idle /\ child[d].state = "none"
      /\ cmd' = cmd /\ child' = child /\ unseen' = unseen /\ pos' = [pos EXCEPT ![d] = n + 1]
      /\ Pending(d) = <<>> /\ Turn(d) = n - 1 /\ Turn(d)' = n
      /\ Count(d) = Len(c.inputs) /\ Count(d)' = Len(c.inputs) /\ Len(c.inputs) \in Nat
      /\ ArgsOnCourse(d) /\ (~ unseen[d] => Built(d, n - 1, n - 1))
  BY AtInputFacts
<1>2. /\ Shape(d) /\ Owned(d) /\ DOMAIN pos = Drivers /\ DOMAIN todo = Drivers
      /\ DOMAIN ldArgs = Drivers /\ DOMAIN tmpfiles = Drivers
  BY Facts
<1>3. /\ new \subseteq TmpNames /\ new \cap Sources = {} /\ new \cap Results = {}
      /\ new \cap tmpfiles[d] = {}
      /\ tmpfiles' = [tmpfiles EXCEPT ![d] = tmpfiles[d] \cup new]
      /\ tmpfiles'[d] = tmpfiles[d] \cup new
      /\ DOMAIN fs' = Paths /\ DOMAIN tmpfiles' = Drivers
      /\ \A e \in Drivers : \A f : Matters(e, f) => fs'[f] = fs[f]
      /\ \A f \in Sources : fs'[f] = fs[f]
      /\ Apart' /\ NoTmpfileLeft'
  BY <1>1, NewFiles
<1>4. \A a \in Range2(args) : a \notin new
  <2>1. args \in Seq(Range2(Inputs(d)) \cup tmpfiles[d])
    BY <1>2 DEF Shape
  <2>2. Range2(Inputs(d)) \subseteq Sources
    BY <1>1, CommandType DEF Range2, Inputs
  <2>3. Range2(args) \subseteq Sources \cup tmpfiles[d]
    BY <2>1, <2>2 DEF Range2
  <2> QED BY <1>3, <2>3
<1>5. /\ out # t /\ (c.mode = "link" => out \in tmpfiles'[d])
      /\ c.mode = "c" => /\ <<out, Object(p)>> \in AllProducts(c)
                         /\ Products(c, n) = Result(out, Object(p))
  <2>1. CASE c.mode = "link"
    BY <1>3, <2>1
  <2>2. CASE c.mode = "c"
    <3>1. Products(c, n) = Result(out, Object(p))
      BY <1>1, <2>2, ProductsOfTurn
    <3>2. <<out, Object(p)>> \in Products(c, n) /\ n \in Turns(c)
      BY <1>1, <3>1 DEF Result, Turns
    <3>3. <<out, Object(p)>> \in AllProducts(c) /\ <<out, Object(p)>>[1] \in Results
      BY <1>1, <3>2, ProductPaths
    <3> QED BY <1>3, <2>2, <3>1, <3>3
  <2> QED BY <2>1, <2>2
<1>6. /\ IsJob(job1) /\ IsJob(job2) /\ Within(d, job1)' /\ Within(d, job2)'
      /\ job1.tool = "cc1" /\ job1.in = <<p>> /\ job1.out = t
      /\ job2.tool = "as" /\ job2.in = <<t>> /\ job2.out = out
  <2>1. /\ job1.tool = "cc1" /\ job1.in = <<p>> /\ job1.out = t
        /\ job2.tool = "as" /\ job2.in = <<t>> /\ job2.out = out
    BY JobIs
  <2>2. Range2(<<p>>) = {p} /\ Range2(<<t>>) = {t}
    BY DEF Range2
  <2>3. p # t
    BY <1>1, <1>3
  <2>4. IsJob(job1) /\ IsJob(job2)
    BY <1>5, <2>2, <2>3, JobIs
  <2>5. Owns(d, t)' /\ Owns(d, out)'
    <3>1. Owns(d, t)'
      BY <1>3 DEF Owns
    <3>2. CASE c.mode = "link"
      BY <1>5, <3>1, <3>2 DEF Owns
    <3>3. CASE c.mode = "c"
      <4>1. <<out, Object(p)>> \in AllProducts(cmd'[d])
        BY <1>1, <1>5, <3>3
      <4> QED BY <3>1, <4>1 DEF Owns
    <3> QED BY <3>2, <3>3
  <2> QED BY <1>1, <1>3, <2>1, <2>2, <2>4, <2>5 DEF Within
<1>7. /\ todo'[d] = <<job1, job2>> /\ todo'[d][1] = job1 /\ todo'[d][2] = job2
      /\ DOMAIN todo'[d] = {1, 2} /\ Len(todo'[d]) = 2 /\ todo'[d] # <<>>
  BY <1>2
<1>8. ldArgs'[d] \in Seq(Range2(Inputs(d)') \cup tmpfiles'[d]) /\ DOMAIN ldArgs' = Drivers
  <2> SUFFICES ASSUME NEW S, S = Range2(Inputs(d)) \cup tmpfiles[d],
                      NEW T, T = Range2(Inputs(d)') \cup tmpfiles'[d]
               PROVE  ldArgs'[d] \in Seq(T) /\ DOMAIN ldArgs' = Drivers
    OBVIOUS
  <2>1. args \in Seq(S) /\ S \subseteq T
    BY <1>1, <1>2, <1>3 DEF Shape, Inputs
  <2>2. args \in Seq(T)
    BY <2>1, SeqMonotonic
  <2>3. CASE c.mode = "c"
    BY <1>2, <2>2, <2>3
  <2>4. CASE c.mode = "link"
    <3>1. ldArgs'[d] = Append(args, out) /\ out \in T /\ DOMAIN ldArgs' = Drivers
      BY <1>2, <1>5, <2>4
    <3> QED BY <2>2, <3>1, AppendProperties
  <2> QED BY <2>3, <2>4
<1>9. Shape(d)'
  <2>1. n + 1 \in 1 .. Count(d)' + 2
    BY <1>1
  <2>2. \A i \in DOMAIN todo'[d] : IsJob(todo'[d][i])
    BY <1>6, <1>7
  <2>3. tmpfiles'[d] \subseteq TmpNames
    BY <1>2, <1>3 DEF Shape
  <2>4. todo'[d] = <<todo'[d][1], todo'[d][2]>>
    BY <1>7
  <2> QED BY <1>1, <1>2, <1>8, <2>1, <2>2, <2>3, <2>4 DEF Shape, Inputs
<1>10. Owned(d)'
  <2>1. \A i \in DOMAIN todo'[d] : Within(d, todo[d][i])'
    BY <1>6, <1>7
  <2> QED BY <1>1, <1>2, <1>3, <2>1 DEF Owned
<1>11. Kept(d)'
  BY <1>1, <1>3, KeptMatters
<1>12. Progress(d)'
  <2>1. Pending(d)' = <<job1, job2>> /\ ChildOnCourse(d)' /\ Pending(d)' # <<>>
    <3>1. pc'[d] = "loop"
      BY <1>1
    <3>2. Pending(d)' = <<job1, job2>>
      BY <1>7, <3>1 DEF Pending
    <3>3. ChildOnCourse(d)'
      BY <3>1 DEF ChildOnCourse
    <3> QED BY <1>7, <3>2, <3>3
  <2>2. ~ unseen[d] => Built(d, n - 1, n)'
    BY <1>1, <1>3, BuiltNext
  <2>3. ForLinker(d)' <=> c.mode = "link"
    BY <1>1 DEF ForLinker, Inputs
  <2>4. /\ pc[d] = "loop" /\ todo[d] = <<>> /\ cmd' = cmd /\ n \in 1 .. Len(c.inputs)
        /\ unseen' = unseen /\ Turn(d)' = n /\ ArgsOnCourse(d) /\ p = c.inputs[n]
        /\ \A f : Matters(d, f) => fs'[f] = fs[f]
    BY <1>1, <1>3
  <2>5. /\ ArgsOnCourse(d)' /\ Goals(d)' = Result(out, Object(p)) /\ t \notin Range2(ldArgs'[d])
        /\ ForLinker(d)' => /\ Len(ldArgs'[d]) > 0 /\ Last(ldArgs'[d]) \in tmpfiles'[d]
                            /\ \A k \in 1 .. Len(ldArgs'[d]) - 1 : ldArgs'[d][k] # Last(ldArgs'[d])
    <3>1. CASE c.mode = "link"
      <4>1. ldArgs'[d] = Append(args, out) /\ Part(c, p) = <<Object(p)>>
        BY <1>1, <1>2, <3>1, PartType
      <4>2. LongerBy(d, out)
        BY <4>1, OneMore
      <4>3. ArgsOnCourse(d)'
        <5>1. ForLinker(d)' /\ Pending(d)' # <<>>
          BY <2>1, <2>3, <3>1
        <5> QED BY <2>4, <4>1, <4>2, <5>1, ArgsMore
      <4>4. /\ Len(args) \in Nat /\ Len(ldArgs'[d]) = Len(args) + 1 /\ ldArgs'[d][Len(args) + 1] = out
            /\ \A k \in 1 .. Len(args) : ldArgs'[d][k] \in Range2(args)
        <5>1. Len(args) \in Nat /\ DOMAIN args = 1 .. Len(args)
          BY <1>2 DEF Shape
        <5> QED BY <4>2, <5>1 DEF LongerBy, Range2
      <4>5. /\ Len(ldArgs'[d]) > 0 /\ Last(ldArgs'[d]) = out
            /\ \A k \in 1 .. Len(ldArgs'[d]) - 1 : ldArgs'[d][k] # out
            /\ DOMAIN ldArgs'[d] = 1 .. Len(ldArgs'[d])
            /\ t \notin Range2(ldArgs'[d])
        <5>1. DOMAIN ldArgs'[d] = 1 .. Len(ldArgs'[d])
          BY <1>8
        <5>2. \A k \in 1 .. Len(args) : ldArgs'[d][k] # out /\ ldArgs'[d][k] # t
          BY <1>4, <3>1, <4>4
        <5>3. Last(ldArgs'[d]) = out /\ Len(ldArgs'[d]) > 0 /\ Len(ldArgs'[d]) - 1 = Len(args)
          BY <4>4 DEF Last
        <5>4. \A k \in DOMAIN ldArgs'[d] : ldArgs'[d][k] # t
          <6>1. \A k \in DOMAIN ldArgs'[d] : k \in 1 .. Len(args) \/ k = Len(args) + 1
            BY <4>4, <5>1
          <6> QED BY <1>5, <4>4, <5>2, <6>1
        <5> QED BY <5>1, <5>2, <5>3, <5>4 DEF Range2
      <4>6. Goals(d)' = Result(out, Object(p))
        <5>1. Goals(d)' = Result(Last(ldArgs'[d]), Object(Inputs(d)'[n]))
          BY <2>3, <2>4, <3>1 DEF Goals
        <5> QED BY <2>4, <4>5, <5>1 DEF Inputs
      <4>7. out \in tmpfiles'[d]
        BY <1>5, <3>1
      <4> QED BY <4>3, <4>5, <4>6, <4>7
    <3>2. CASE c.mode = "c"
      <4>1. ldArgs'[d] = ldArgs[d] /\ Part(c, p) = <<>>
        BY <1>1, <3>2, PartType
      <4>2. ArgsOnCourse(d)'
        BY <2>4, <4>1, ArgsSame
      <4>3. Goals(d)' = Result(out, Object(p))
        BY <1>1, <1>5, <2>3, <3>2 DEF Goals
      <4>4. t \notin Range2(ldArgs'[d])
        BY <1>4, <4>1
      <4>5. ~ ForLinker(d)'
        BY <2>3, <3>2
      <4> QED BY <4>2, <4>3, <4>4, <4>5
    <3> QED BY <3>1, <3>2
  <2>6. OnCourse(d)'
    <3>1. Makes(job1)' = Compiled(p)
      <4>1. [k \in DOMAIN job1.in |-> fs'[job1.in[k]]] = <<fs'[p]>>
        BY <1>6, ReadsOne
      <4>2. Makes(job1)' = Made(job1.tool, [k \in DOMAIN job1.in |-> fs'[job1.in[k]]])
        BY DEF Makes
      <4>3. fs'[p] = Text(p)
        BY <1>1, <1>3
      <4> QED BY <1>6, <4>1, <4>2, <4>3 DEF Compiled
    <3>2. Goals(d)' = Result(job2.out, Made(job2.tool, <<Makes(job1)'>>))
      BY <1>6, <2>5, <3>1 DEF Object
    <3>3. job2.in = <<job1.out>> /\ job1.out \in tmpfiles'[d] \ Range2(ldArgs'[d])
      BY <1>3, <1>6, <2>5
    <3>4. n \in 1 .. Count(d)' + 1
      BY <1>1
    <3> SUFFICES ASSUME NEW jobs, jobs = <<job1, job2>> PROVE OnCourse(d)'
      OBVIOUS
    <3>5. Len(jobs) = 2 /\ jobs[1] = job1 /\ jobs[2] = job2 /\ Pending(d)' = jobs
      BY <2>1
    <3> QED BY <2>4, <2>5, <3>2, <3>3, <3>4, <3>5 DEF OnCourse
  <2> QED BY <1>1, <2>1, <2>2, <2>5, <2>6 DEF Progress
<1>13. \A e \in Drivers \ {d} : Own(e)' = Own(e)
  <2>1. \A e \in Drivers \ {d} : ldArgs'[e] = ldArgs[e]
    BY <1>2
  <2> QED BY <1>1, <1>2, <1>3, <2>1 DEF Own
<1>14. /\ DOMAIN fs' = Paths /\ DOMAIN cmd' = Drivers /\ DOMAIN pc' = Drivers
       /\ DOMAIN pos' = Drivers /\ DOMAIN todo' = Drivers /\ DOMAIN ldArgs' = Drivers
       /\ DOMAIN tmpfiles' = Drivers /\ DOMAIN child' = Drivers /\ DOMAIN code' = Drivers
       /\ DOMAIN unseen' = Drivers
  BY <1>1, <1>2, <1>3, <1>8, Facts
<1>15. /\ \A e \in Drivers \ {d} : \A f : Matters(e, f) => fs'[f] = fs[f]
       /\ \A f \in Sources : fs'[f] = fs[f]
       /\ Apart' /\ NoTmpfileLeft'
  BY <1>3
<1> QED BY <1>9, <1>10, <1>11, <1>12, <1>13, <1>14, <1>15, StepOf

-----------------------------------------------------------------------------
(* The linker's turn, and the end *)

\* A driver in its loop, between two turns.
LEMMA AtLoop ==
  ASSUME IInv, NEW d \in Drivers, pc[d] = "loop", todo[d] = <<>>, NEW c, c = cmd[d]
  PROVE  /\ c \in Commands[d] /\ Len(c.inputs) \in Nat /\ Count(d) = Len(c.inputs)
         /\ child[d] = Idle /\ child[d].state = "none" /\ Pending(d) = <<>>
         /\ ArgsOnCourse(d) /\ (~ unseen[d] => Built(d, pos[d] - 1, pos[d] - 1))
<1>1. /\ Shape(d) /\ Progress(d) /\ c \in Commands[d] /\ Count(d) = Len(c.inputs)
      /\ Len(c.inputs) \in Nat
  BY Facts
<1>2. child[d] = Idle /\ child[d].state = "none" /\ Pending(d) = <<>>
  BY <1>1, IdleState DEF Shape, Pending
<1>3. ArgsOnCourse(d) /\ (~ unseen[d] => Built(d, Turn(d), Turn(d)))
  BY <1>1, <1>2 DEF Progress
<1> QED BY <1>1, <1>2, <1>3 DEF Turn

\* A sequence is the function of its elements.
LEMMA SeqIs ==
  ASSUME NEW S, NEW s \in Seq(S), NEW D, NEW f, D = 1 .. Len(s), \A k \in D : f[k] = s[k]
  PROVE  [k \in D |-> f[k]] = s
<1>1. s = [k \in 1 .. Len(s) |-> s[k]]
  OBVIOUS
<1>2. [k \in D |-> f[k]] = [k \in D |-> s[k]]
  OBVIOUS
<1> QED BY <1>1, <1>2

\* After the last input the linker has all of its arguments.
ReadFrom(args, s) == /\ \A k \in 1 .. Len(args) : fs[args[k]] = s[k]
                     /\ [k \in DOMAIN args |-> fs[args[k]]] = s

LEMMA LinkerArgs ==
  ASSUME IInv, NEW d \in Drivers, pc[d] = "loop", todo[d] = <<>>, NEW c, c = cmd[d],
         NEW n, n = Len(c.inputs), pos[d] = n + 1, NEW args, args = ldArgs[d]
  PROVE  /\ Len(Linked(c)) = Len(args) /\ (args = <<>> <=> Linked(c) = <<>>)
         /\ DOMAIN args = 1 .. Len(args) /\ Len(args) \in Nat
         /\ Linked(c) = LinkedBefore(c, n)
         /\ Range2(args) \subseteq Sources \cup tmpfiles[d]
         /\ ~ unseen[d] => ReadFrom(args, Linked(c))
<1> SUFFICES ASSUME NEW parts, parts = Linked(c)
             PROVE  /\ Len(parts) = Len(args) /\ (args = <<>> <=> parts = <<>>)
                    /\ DOMAIN args = 1 .. Len(args) /\ Len(args) \in Nat
                    /\ parts = LinkedBefore(c, n)
                    /\ Range2(args) \subseteq Sources \cup tmpfiles[d]
                    /\ ~ unseen[d] => ReadFrom(args, parts)
  OBVIOUS
<1>1. /\ c \in Commands[d] /\ n \in Nat /\ Count(d) = n /\ Pending(d) = <<>> /\ ArgsOnCourse(d)
  BY AtLoop
<1>2. Turn(d) = n
  BY <1>1 DEF Turn
<1>3. parts = LinkedBefore(c, n)
  BY <1>1, LinkedIsAll
<1>4. /\ Len(parts) = Len(args)
      /\ ~ unseen[d] => \A k \in 1 .. Len(parts) : fs[args[k]] = parts[k]
  BY <1>1, <1>2, <1>3 DEF ArgsOnCourse
<1>5. parts \in Seq(Wanted)
  BY <1>1, <1>3, LinkedType
<1>6. args \in Seq(Range2(Inputs(d)) \cup tmpfiles[d])
  BY Facts DEF Shape
<1>7. Range2(args) \subseteq Sources \cup tmpfiles[d]
  <2>1. Range2(Inputs(d)) \subseteq Sources
    BY <1>1, CommandType DEF Range2, Inputs
  <2> QED BY <1>6, <2>1 DEF Range2
<1>8. DOMAIN args = 1 .. Len(args) /\ Len(args) \in Nat /\ (args = <<>> <=> parts = <<>>)
  BY <1>4, <1>5, <1>6, EmptySeq
<1>9. ASSUME ~ unseen[d] PROVE [k \in DOMAIN args |-> fs[args[k]]] = parts
  <2> DEFINE f == [k \in DOMAIN args |-> fs[args[k]]]
  <2>1. \A k \in DOMAIN args : f[k] = parts[k]
    BY <1>4, <1>8, <1>9
  <2>2. DOMAIN args = 1 .. Len(parts)
    BY <1>4, <1>8
  <2>3. f = [k \in DOMAIN args |-> f[k]]
    OBVIOUS
  <2> HIDE DEF f
  <2>4. [k \in DOMAIN args |-> f[k]] = parts
    BY <1>5, <2>1, <2>2, SeqIs
  <2>5. f = parts
    BY <2>3, <2>4
  <2> QED BY <2>5 DEF f
<1> QED BY <1>3, <1>4, <1>7, <1>8, <1>9 DEF ReadFrom

\* Leaving with status 0.
LEMMA ExitStep ==
  ASSUME IInv, NEW d \in Drivers, pc[d] = "loop", todo[d] = <<>>,
         pc' = [pc EXCEPT ![d] = "exit"], code' = [code EXCEPT ![d] = 0],
         pos' = pos \/ pos' = [pos EXCEPT ![d] = @ + 1],
         pos[d] <= Count(d) + 1 \/ pos' = pos,
         fs' = fs, cmd' = cmd, todo' = todo, ldArgs' = ldArgs, tmpfiles' = tmpfiles,
         child' = child, unseen' = unseen,
         NEW n, n = Count(d) + 1, ~ unseen[d] => Built(d, n, n)
  PROVE  IInv'
<1>1. /\ Shape(d) /\ Owned(d) /\ DOMAIN pc = Drivers /\ DOMAIN code = Drivers
      /\ DOMAIN pos = Drivers
      /\ pos[d] \in 1 .. Count(d) + 2 /\ Count(d) \in Nat /\ Count(d)' = Count(d)
  BY Facts DEF Count, Inputs
<1>2. child[d] = Idle /\ child[d].state = "none"
  BY AtLoop
<1>3. Shape(d)'
  <2>1. pos'[d] \in 1 .. Count(d)' + 2
    BY <1>1
  <2> QED BY <1>1, <1>2, <2>1 DEF Shape, Inputs
<1>4. Owned(d)'
  BY <1>1 DEF Owned, Within, Owns
<1>5. Kept(d)'
  BY <1>2, KeptAlone
<1>6. Progress(d)'
  <2>1. pc'[d] = "exit"
    BY <1>1
  <2>2. ~ unseen[d] => Built(d, n, n)'
    <3>1. \A r \in AllProducts(cmd[d]) : r[1] # Stdout => fs'[r[1]] = fs[r[1]]
      OBVIOUS
    <3> QED BY <1>1, <3>1, SameBuilt
  <2> QED BY <1>1, <2>1, <2>2 DEF Progress
<1>7. \A e \in Drivers \ {d} : Own(e)' = Own(e)
  BY <1>1 DEF Own
<1> QED BY <1>1, <1>3, <1>4, <1>5, <1>6, <1>7, Facts, Inward

LEMMA ReturnStep ==
  ASSUME IInv, NEW d \in Drivers, Return(d)
  PROVE  IInv'
<1>1. /\ pc[d] = "loop" /\ todo[d] = <<>> /\ pos[d] > Count(d) + 1
      /\ pc' = [pc EXCEPT ![d] = "exit"] /\ code' = [code EXCEPT ![d] = 0]
      /\ UNCHANGED <<fs, cmd, pos, todo, ldArgs, tmpfiles, child, unseen>>
  BY DEF Return, Exit, Count
<1>2. pos[d] \in 1 .. Count(d) + 2 /\ Count(d) \in Nat
  BY Facts
<1> SUFFICES ASSUME NEW n, n = Count(d) + 1 PROVE IInv'
  OBVIOUS
<1>3. ~ unseen[d] => Built(d, n, n)
  <2>1. pos[d] - 1 = n
    BY <1>1, <1>2
  <2> QED BY <1>1, <2>1, AtLoop
<1> QED BY <1>1, <1>3, ExitStep

\* The linker starts.
LEMMA LinkerJob ==
  ASSUME IInv, NEW d \in Drivers, pc[d] = "loop", todo[d] = <<>>, NEW c, c = cmd[d],
         NEW n, n = Len(c.inputs), pos[d] = n + 1, ldArgs[d] # <<>>,
         pos' = [pos EXCEPT ![d] = @ + 1],
         NEW job, job = Job("ld", ldArgs[d], Target(c)), todo' = [todo EXCEPT ![d] = <<job>>],
         UNCHANGED <<pc, code, fs, cmd, ldArgs, tmpfiles, child, unseen>>
  PROVE  IInv'
<1> SUFFICES ASSUME NEW args, args = ldArgs[d], NEW out, out = Target(c) PROVE IInv'
  OBVIOUS
<1>1. /\ c \in Commands[d] /\ n \in Nat /\ Count(d) = n
      /\ child[d] = Idle /\ child[d].state = "none" /\ Pending(d) = <<>>
      /\ ArgsOnCourse(d) /\ (~ unseen[d] => Built(d, pos[d] - 1, pos[d] - 1))
  BY AtLoop
<1>2. /\ Shape(d) /\ Owned(d) /\ DOMAIN pos = Drivers /\ DOMAIN todo = Drivers
  BY Facts
<1>3. /\ Len(Linked(c)) = Len(args) /\ Linked(c) # <<>>
      /\ DOMAIN args = 1 .. Len(args) /\ Len(args) \in Nat
      /\ Linked(c) = LinkedBefore(c, n)
      /\ Range2(args) \subseteq Sources \cup tmpfiles[d]
      /\ ~ unseen[d] => /\ \A k \in 1 .. Len(args) : fs[args[k]] = Linked(c)[k]
                        /\ [k \in DOMAIN args |-> fs[args[k]]] = Linked(c)
  <2>1. /\ Len(Linked(c)) = Len(args) /\ Linked(c) # <<>>
        /\ DOMAIN args = 1 .. Len(args) /\ Len(args) \in Nat
        /\ Linked(c) = LinkedBefore(c, n)
        /\ Range2(args) \subseteq Sources \cup tmpfiles[d]
    BY LinkerArgs
  <2>2. ~ unseen[d] => ReadFrom(args, Linked(c))
    BY LinkerArgs
  <2> QED BY <2>1, <2>2 DEF ReadFrom
<1>4. Products(c, n + 1) = Result(out, Made("ld", Linked(c)))
  BY <1>1, <1>3, ProductsOfLink
<1>5. <<out, Made("ld", Linked(c))>> \in AllProducts(c) /\ out \notin Range2(args)
  <2>1. <<out, Made("ld", Linked(c))>> \in Products(c, n + 1) /\ n + 1 \in Turns(c)
    BY <1>1, <1>4 DEF Result, Turns
  <2>2. <<out, Made("ld", Linked(c))>> \in AllProducts(c)
    BY <1>1, <2>1, ProductPaths
  <2>3. out \notin TmpNames /\ (out # Stdout => out \notin Sources)
    BY <1>1, <2>2, AllProductPaths
  <2>4. tmpfiles[d] \subseteq TmpNames
    BY Facts
  <2> QED BY <1>3, <2>2, <2>3, <2>4, PathsApart
<1>6. /\ job.tool = "ld" /\ job.in = args /\ job.out = out /\ IsJob(job)
  BY <1>5, JobIs
<1>7. Within(d, job)' /\ todo'[d] = <<job>>
  <2>1. Owns(d, out)'
    BY <1>5 DEF Owns
  <2> QED BY <1>2, <1>3, <1>6, <2>1 DEF Within
<1>8. Turn(d)' = n + 1 /\ Count(d)' = n
  BY <1>1, <1>2 DEF Turn, Count, Inputs
<1>9. Shape(d)'
  <2>1. pos'[d] \in 1 .. Count(d)' + 2
    BY <1>1, <1>2, <1>8
  <2>2. todo'[d] = <<todo'[d][1]>> /\ DOMAIN todo'[d] = {1} /\ todo'[d][1] = job
    BY <1>7
  <2> QED BY <1>1, <1>2, <1>6, <2>1, <2>2 DEF Shape, Inputs
<1>10. Owned(d)'
  <2>1. \A i \in DOMAIN todo'[d] : Within(d, todo[d][i])'
    BY <1>7
  <2> QED BY <1>1, <1>2, <2>1 DEF Owned
<1>11. Kept(d)'
  BY <1>1, KeptAlone
<1>12. Progress(d)'
  <2>1. pc'[d] = "loop" /\ Pending(d)' = <<job>> /\ <<job>> # <<>> /\ ChildOnCourse(d)'
    BY <1>7 DEF Pending, ChildOnCourse
  <2>2. ~ unseen[d] => Built(d, n, n + 1)'
    <3> SUFFICES ASSUME NEW k, k = n + 1 PROVE ~ unseen[d] => Built(d, n, k)'
      OBVIOUS
    <3>1. k \in Nat /\ k <= Count(d) + 1 /\ k - 1 = n /\ pos[d] - 1 = n
      BY <1>1
    <3>2. ~ unseen[d] => Built(d, k - 1, k - 1)
      BY <1>1, <3>1
    <3>3. ~ unseen[d] => Built(d, k - 1, k)'
      BY <3>1, <3>2, BuiltNext
    <3> QED BY <3>1, <3>3
  <2>3. ~ ForLinker(d)'
    BY <1>1, <1>8 DEF ForLinker
  <2>4. ArgsOnCourse(d)'
    <3>1. LinkedBefore(cmd[d], IF Turn(d) <= Count(d) THEN Turn(d) ELSE Count(d))' = Linked(c)
      BY <1>1, <1>3, <1>8
    <3> QED BY <1>3, <2>3, <3>1 DEF ArgsOnCourse
  <2>5. ~ unseen[d] => OnCourse(d)'
    <3> SUFFICES ASSUME ~ unseen[d] PROVE OnCourse(d)'
      OBVIOUS
    <3>1. Goals(d)' = Products(c, n + 1)
      BY <1>8, <2>3 DEF Goals
    <3>2. Makes(job)' = Made("ld", Linked(c))
      BY <1>3, <1>6 DEF Makes
    <3>3. Goals(d)' = Result(job.out, Makes(job)')
      BY <1>4, <1>6, <3>1, <3>2
    <3>4. n + 1 \in 1 .. n + 1
      BY <1>1
    <3> QED BY <1>8, <2>1, <2>3, <3>3, <3>4 DEF OnCourse
  <2>6. Turn(d)' - 1 = n
    BY <1>1, <1>8
  <2> QED BY <1>8, <2>1, <2>2, <2>4, <2>5, <2>6 DEF Progress
<1>13. \A e \in Drivers \ {d} : Own(e)' = Own(e)
  BY <1>2 DEF Own
<1> QED BY <1>1, <1>2, <1>9, <1>10, <1>11, <1>12, <1>13, Facts, Inward

LEMMA LinkStep ==
  ASSUME IInv, NEW d \in Drivers, Link(d)
  PROVE  IInv'
<1> SUFFICES ASSUME NEW c, c = cmd[d], NEW n, n = Len(c.inputs) PROVE IInv'
  OBVIOUS
<1>1. /\ pc[d] = "loop" /\ todo[d] = <<>> /\ pos[d] = n + 1 /\ pos' = [pos EXCEPT ![d] = @ + 1]
      /\ UNCHANGED <<fs, cmd, ldArgs, tmpfiles, child, unseen>>
  BY DEF Link, Inputs
<1>2. /\ c \in Commands[d] /\ n \in Nat /\ Count(d) = n
      /\ child[d] = Idle /\ child[d].state = "none" /\ Pending(d) = <<>>
      /\ ArgsOnCourse(d) /\ (~ unseen[d] => Built(d, pos[d] - 1, pos[d] - 1))
  BY <1>1, AtLoop
<1>3. CASE ldArgs[d] = <<>> /\ Exit(d, 0) /\ UNCHANGED todo
  <2>1. Products(c, n + 1) = {}
    <3>1. Linked(c) = <<>>
      BY <1>1, <1>3, LinkerArgs
    <3> QED BY <1>2, <3>1, ProductsOfLink
  <2> SUFFICES ASSUME NEW k, k = n + 1 PROVE IInv'
    OBVIOUS
  <2>2. k \in Nat /\ k <= Count(d) + 1 /\ pos[d] - 1 = k - 1
    BY <1>1, <1>2
  <2>3. ~ unseen[d] => Built(d, k - 1, k - 1)
    BY <1>2, <2>2
  <2>4. ~ unseen[d] => Built(d, k, k)'
    BY <1>1, <2>1, <2>2, <2>3, BuiltNext
  <2>5. ~ unseen[d] => Built(d, k, k)
    BY <1>1, <2>4 DEF Built
  <2>6. /\ k = Count(d) + 1 /\ pos[d] <= Count(d) + 1
        /\ pc' = [pc EXCEPT ![d] = "exit"] /\ code' = [code EXCEPT ![d] = 0] /\ todo' = todo
    BY <1>1, <1>2, <1>3 DEF Exit
  <2> QED BY <1>1, <2>5, <2>6, ExitStep
<1>4. CASE /\ ldArgs[d] # <<>>
           /\ todo' = [todo EXCEPT ![d] = <<Job("ld", ldArgs[d], Target(cmd[d]))>>]
           /\ UNCHANGED <<pc, code>>
  <2> SUFFICES ASSUME NEW job, job = Job("ld", ldArgs[d], Target(c)) PROVE IInv'
    OBVIOUS
  <2>1. todo' = [todo EXCEPT ![d] = <<job>>]
    BY <1>4
  <2> QED BY <1>1, <1>4, <2>1, LinkerJob
<1>5. CASE ldArgs[d] # <<>> /\ Exit(d, 1) /\ UNCHANGED todo
  <2>1. /\ child'[d] = Idle /\ DOMAIN child' = Drivers
        /\ pc' = [pc EXCEPT ![d] = "exit"] /\ code' = [code EXCEPT ![d] = 1]
        /\ pos[d] <= Count(d) + 1
    BY <1>1, <1>2, <1>5, Facts DEF Exit
  <2> QED BY <1>1, <1>2, <1>5, <2>1, FailStep
<1> QED BY <1>3, <1>4, <1>5 DEF Link

-----------------------------------------------------------------------------
(* run_subprocess *)

LEMMA HeadTail ==
  ASSUME NEW x, NEW y
  PROVE  /\ Head(<<x>>) = x /\ Tail(<<x>>) = <<>> /\ Head(<<x, y>>) = x /\ Tail(<<x, y>>) = <<y>>
OBVIOUS

LEMMA ResultIs ==
  ASSUME NEW p, NEW x, NEW q, NEW y, Result(p, x) = Result(q, y)
  PROVE  p = q /\ x = y
<1>1. <<p, x>> \in Result(p, x)
  BY DEF Result
<1>2. <<p, x>> = <<q, y>>
  BY <1>1 DEF Result
<1> QED BY <1>2

LEMMA ForkStep ==
  ASSUME IInv, NEW d \in Drivers, Fork(d)
  PROVE  IInv'
<1> SUFFICES ASSUME NEW job, job = Head(todo[d]) PROVE IInv'
  OBVIOUS
<1>1. /\ pc[d] = "loop" /\ todo[d] # <<>> /\ pc' = [pc EXCEPT ![d] = "wait"]
      /\ child' = [child EXCEPT ![d] = [Idle EXCEPT !.job = job, !.state = "running"]]
      /\ todo' = [todo EXCEPT ![d] = Tail(@)]
      /\ UNCHANGED <<fs, cmd, pos, ldArgs, tmpfiles, code, unseen>>
  BY DEF Fork
<1>2. /\ Shape(d) /\ Owned(d) /\ Progress(d) /\ DOMAIN pc = Drivers /\ DOMAIN todo = Drivers
      /\ DOMAIN child = Drivers
      /\ Count(d) \in Nat /\ Count(d)' = Count(d) /\ Turn(d)' = Turn(d) /\ Inputs(d)' = Inputs(d)
  BY <1>1, Facts DEF Count, Inputs, Turn
<1>3. /\ child'[d].job = job /\ child'[d].state = "running"
      /\ child'[d] = [job |-> job, state |-> "running", made |-> NoFile]
  BY <1>1, <1>2 DEF Idle
<1>4. /\ todo'[d] = Tail(todo[d]) /\ IsJob(job) /\ Within(d, job)
      /\ \/ todo[d] = <<job>> /\ todo'[d] = <<>>
         \/ \E k : todo[d] = <<job, k>> /\ todo'[d] = <<k>> /\ IsJob(k) /\ Within(d, k)
  <2>1. todo'[d] = Tail(todo[d])
    BY <1>1, <1>2
  <2>2. CASE \E j : todo[d] = <<j>> /\ IsJob(j) /\ Within(d, j)
    BY <2>1, <2>2, HeadTail
  <2>3. CASE \E j, k : /\ todo[d] = <<j, k>> /\ pc[d] # "wait"
                       /\ IsJob(j) /\ Within(d, j) /\ IsJob(k) /\ Within(d, k)
    BY <2>1, <2>3, HeadTail
  <2> QED BY <1>1, <2>2, <2>3, TodoJobs
<1>5. Pending(d)' = todo[d] /\ Pending(d) = todo[d]
  <2>1. Pending(d) = todo[d]
    BY <1>1 DEF Pending
  <2>2. Pending(d)' = <<job>> \o todo'[d]
    BY <1>1, <1>2, <1>3 DEF Pending
  <2>3. CASE todo[d] = <<job>> /\ todo'[d] = <<>>
    <3>1. <<job>> \o <<>> = <<job>>
      OBVIOUS
    <3> QED BY <2>1, <2>2, <2>3, <3>1
  <2>4. CASE \E k : todo[d] = <<job, k>> /\ todo'[d] = <<k>> /\ IsJob(k) /\ Within(d, k)
    BY <2>1, <2>2, <2>4, Pair
  <2> QED BY <1>4, <2>3, <2>4
<1>6. IsChild(child'[d])
  BY <1>3, <1>4 DEF IsChild
<1>7. /\ todo'[d] = <<>> \/ todo'[d] = <<todo'[d][1]>>
      /\ \A i \in DOMAIN todo'[d] : IsJob(todo'[d][i]) /\ Within(d, todo'[d][i])
      /\ Len(todo'[d]) <= 1
  <2>1. CASE todo'[d] = <<>>
    BY <2>1
  <2>2. CASE \E k : todo'[d] = <<k>> /\ IsJob(k) /\ Within(d, k)
    BY <2>2
  <2> QED BY <1>4, <2>1, <2>2
<1>8. Shape(d)'
  BY <1>1, <1>2, <1>3, <1>6, <1>7 DEF Shape
<1>9. Owned(d)'
  <2>1. Within(d, job)' /\ Range2(job.in) \subseteq Sources \cup tmpfiles'[d]
    BY <1>1, <1>4 DEF Within, Owns
  <2>2. \A i \in DOMAIN todo'[d] : Within(d, todo[d][i])'
    BY <1>1, <1>7 DEF Within, Owns
  <2> QED BY <1>3, <2>1, <2>2 DEF Owned
<1>10. Kept(d)'
  <2>1. child[d].state # "writing"
    BY <1>1, <1>2, IdleState DEF Shape
  <2> QED BY <1>1, <2>1, KeptAlone
<1>11. Progress(d)'
  <2>1. ArgsOnCourse(d)'
    <3>1. ArgsOnCourse(d)
      BY <1>1, <1>2 DEF Progress
    <3> QED BY <1>1, <1>5, <3>1, SameArgs
  <2>2. ASSUME ~ unseen[d] PROVE OnCourse(d)'
    <3>1. OnCourse(d)
      BY <1>1, <1>2, <1>5, <2>2 DEF Progress
    <3> SUFFICES ASSUME NEW jobs, jobs = todo[d] PROVE OnCourse(d)'
      OBVIOUS
    <3>2. Makes(jobs[1])' = Makes(jobs[1])
      BY <1>1 DEF Makes
    <3> QED BY <1>1, <1>5, <3>1, <3>2, SameCourse
  <2>3. ASSUME ~ unseen[d] PROVE Built(d, Turn(d) - 1, Turn(d))'
    <3>1. Built(d, Turn(d) - 1, Turn(d))
      BY <1>1, <1>2, <1>5, <2>3 DEF Progress
    <3> QED BY <1>1, <1>2, <3>1 DEF Built
  <2>4. ChildOnCourse(d)'
    BY <1>3 DEF ChildOnCourse
  <2> QED BY <1>1, <1>2, <1>5, <2>1, <2>2, <2>3, <2>4 DEF Progress
<1>12. \A e \in Drivers \ {d} : Own(e)' = Own(e)
  BY <1>1, <1>2 DEF Own
<1> QED BY <1>1, <1>2, <1>8, <1>9, <1>10, <1>11, <1>12, Facts, Inward

LEMMA ForkFailsStep ==
  ASSUME IInv, NEW d \in Drivers, ForkFails(d)
  PROVE  IInv'
<1>1. /\ pc[d] = "loop" /\ todo[d] # <<>> /\ unseen' = [unseen EXCEPT ![d] = TRUE]
      /\ UNCHANGED <<fs, cmd, pos, ldArgs, tmpfiles, child>>
  BY DEF ForkFails
<1>2. /\ Shape(d) /\ Owned(d) /\ Progress(d) /\ DOMAIN unseen = Drivers /\ DOMAIN todo = Drivers
      /\ Count(d) \in Nat /\ Count(d)' = Count(d) /\ Turn(d)' = Turn(d) /\ Inputs(d)' = Inputs(d)
      /\ unseen'[d] = TRUE
  BY <1>1, Facts DEF Count, Inputs, Turn
<1>3. child[d] = Idle /\ child[d].state # "writing"
  BY <1>1, <1>2, IdleState DEF Shape
<1>4. CASE Exit(d, 1) /\ UNCHANGED todo
  <2>1. /\ child'[d] = Idle /\ DOMAIN child' = Drivers
        /\ pc' = [pc EXCEPT ![d] = "exit"] /\ code' = [code EXCEPT ![d] = 1] /\ pos' = pos
    BY <1>1, <1>3, <1>4, Facts DEF Exit
  <2> QED BY <1>1, <1>3, <1>4, <2>1, FailStep
<1>5. CASE todo' = [todo EXCEPT ![d] = Tail(@)] /\ UNCHANGED <<pc, code>>
  <2>1. /\ todo'[d] = <<>> \/ todo'[d] = <<todo'[d][1]>>
        /\ \A i \in DOMAIN todo'[d] : IsJob(todo'[d][i]) /\ Within(d, todo'[d][i])
    <3>1. todo'[d] = Tail(todo[d])
      BY <1>2, <1>5
    <3>2. CASE \E j : todo[d] = <<j>>
      <4>1. todo'[d] = <<>>
        BY <3>1, <3>2, HeadTail
      <4> QED BY <4>1
    <3>3. CASE \E j, k : todo[d] = <<j, k>> /\ IsJob(k) /\ Within(d, k)
      <4>1. \E k : todo'[d] = <<k>> /\ IsJob(k) /\ Within(d, k)
        BY <3>1, <3>3, HeadTail
      <4> QED BY <4>1
    <3> QED BY <1>1, <3>2, <3>3, TodoJobs
  <2>2. Shape(d)'
    BY <1>1, <1>2, <1>5, <2>1 DEF Shape
  <2>3. Owned(d)'
    <3>1. \A i \in DOMAIN todo'[d] : Within(d, todo[d][i])'
      BY <1>1, <2>1 DEF Within, Owns
    <3> QED BY <1>1, <1>2, <1>3, <3>1 DEF Owned, Within, Owns
  <2>4. Kept(d)'
    BY <1>2 DEF Kept
  <2>5. Progress(d)'
    <3>1. ArgsOnCourse(d)
      BY <1>1, <1>2 DEF Progress
    <3>2. ArgsOnCourse(d)'
      BY <1>1, <1>2, <3>1 DEF ArgsOnCourse
    <3> QED BY <1>1, <1>2, <1>5, <3>2 DEF Progress
  <2>6. \A e \in Drivers \ {d} : Own(e)' = Own(e)
    BY <1>1, <1>2, <1>5 DEF Own
  <2> QED BY <1>1, <1>2, <1>5, <2>2, <2>3, <2>4, <2>5, <2>6, Facts, Inward
<1> QED BY <1>4, <1>5 DEF ForkFails

\* The end of a child of a driver that waits for it.
LEMMA ReapOk ==
  ASSUME IInv, NEW d \in Drivers, pc[d] = "wait", child[d].state = "ok",
         pc' = [pc EXCEPT ![d] = "loop"], child' = [child EXCEPT ![d] = Idle],
         UNCHANGED <<fs, cmd, pos, todo, ldArgs, tmpfiles, unseen, code>>
  PROVE  IInv'
<1> SUFFICES ASSUME NEW job, job = child[d].job, NEW n, n = Turn(d), NEW c, c = cmd[d],
                    NEW args, args = ldArgs[d]
             PROVE  IInv'
  OBVIOUS
<1>1. /\ Shape(d) /\ Owned(d) /\ Progress(d) /\ DOMAIN pc = Drivers /\ DOMAIN child = Drivers
      /\ Count(d) \in Nat /\ Count(d)' = Count(d) /\ Turn(d)' = n /\ Inputs(d)' = Inputs(d)
      /\ c \in Commands[d] /\ Count(d) = Len(c.inputs) /\ tmpfiles[d] \subseteq TmpNames
  BY Facts DEF Count, Inputs, Turn
<1>2. child'[d] = Idle /\ pc'[d] = "loop"
  BY <1>1
<1>3. Shape(d)'
  BY <1>1, <1>2, IdleState DEF Shape
<1>4. Owned(d)'
  BY <1>1, <1>2, IdleState DEF Owned, Within, Owns
<1>5. Kept(d)'
  BY KeptAlone
<1>6. Pending(d) = <<job>> \o todo[d] /\ Pending(d)' = todo[d] /\ ChildOnCourse(d)'
  BY <1>2 DEF Pending, ChildOnCourse
<1>7. ArgsOnCourse(d)
  BY <1>1 DEF Progress
<1>8. CASE todo[d] # <<>>
  <2>1. PICK j : todo[d] = <<j>> /\ IsJob(j) /\ Within(d, j)
    BY <1>8, TodoJobs
  <2>2. Pending(d) = <<job, j>> /\ Pending(d)' = <<j>> /\ <<j>> # <<>> /\ <<job, j>> # <<>>
    BY <1>6, <2>1, Pair
  <2>3. ArgsOnCourse(d)'
    BY <1>7, <2>2, SameArgs
  <2>4. ASSUME ~ unseen[d] PROVE OnCourse(d)'
    <3>1. OnCourse(d) /\ ChildOnCourse(d)
      BY <1>1, <2>2, <2>4 DEF Progress
    <3>2. /\ n \in 1 .. Count(d) + 1
          /\ ForLinker(d) => /\ Len(ldArgs[d]) > 0
                             /\ Last(ldArgs[d]) \in tmpfiles[d]
                             /\ \A k \in 1 .. Len(ldArgs[d]) - 1 : ldArgs[d][k] # Last(ldArgs[d])
      BY <3>1 DEF OnCourse
    <3>3. /\ Goals(d) = Result(j.out, Made(j.tool, <<Makes(job)>>))
          /\ j.in = <<job.out>> /\ job.out \in tmpfiles[d]
      <4> SUFFICES ASSUME NEW jobs, jobs = <<job, j>>
                   PROVE  /\ Goals(d) = Result(j.out, Made(j.tool, <<Makes(job)>>))
                          /\ j.in = <<job.out>> /\ job.out \in tmpfiles[d]
        OBVIOUS
      <4>1. Len(jobs) = 2 /\ jobs[1] = job /\ jobs[2] = j /\ Pending(d) = jobs
        BY <2>2
      <4> QED BY <3>1, <4>1 DEF OnCourse
    <3>4. fs[job.out] = Makes(job)
      BY <1>1, <3>1, <3>3, PathsApart DEF ChildOnCourse
    <3>5. Makes(j) = Made(j.tool, <<Makes(job)>>)
      <4>1. [k \in DOMAIN j.in |-> fs[j.in[k]]] = <<fs[job.out]>>
        BY <3>3, ReadsOne
      <4> QED BY <3>4, <4>1 DEF Makes
    <3>6. Goals(d)' = Result(j.out, Makes(j)')
      <4>1. Goals(d)' = Goals(d)
        BY <1>1 DEF Goals, ForLinker
      <4>2. Makes(j)' = Makes(j)
        BY DEF Makes
      <4> QED BY <3>3, <3>5, <4>1, <4>2
    <3>7. ForLinker(d)' <=> ForLinker(d)
      BY <1>1 DEF ForLinker
    <3> SUFFICES ASSUME NEW jobs, jobs = <<j>> PROVE OnCourse(d)'
      OBVIOUS
    <3>8. Len(jobs) = 1 /\ jobs[1] = j /\ Pending(d)' = jobs
      BY <2>2
    <3> QED BY <1>1, <3>2, <3>6, <3>7, <3>8 DEF OnCourse
  <2>5. ASSUME ~ unseen[d] PROVE Built(d, n - 1, n)'
    <3> SUFFICES ASSUME NEW m, m = n - 1 PROVE Built(d, m, n)'
      OBVIOUS
    <3>1. Built(d, m, n)
      BY <1>1, <2>2, <2>5 DEF Progress
    <3> QED BY <3>1 DEF Built
  <2>6. Progress(d)'
    BY <1>1, <1>2, <1>6, <2>2, <2>3, <2>4, <2>5 DEF Progress
  <2>7. \A e \in Drivers \ {d} : Own(e)' = Own(e)
    BY <1>1 DEF Own
  <2> QED BY <1>1, <1>2, <1>3, <1>4, <1>5, <2>6, <2>7, Facts, Inward
<1>9. CASE todo[d] = <<>>
  <2>1. Pending(d) = <<job>> /\ Pending(d)' = <<>> /\ <<job>> # <<>>
    BY <1>6, <1>9
  <2>2. ASSUME ~ unseen[d]
        PROVE  /\ n \in 1 .. Count(d) + 1
               /\ ForLinker(d) => Len(args) > 0 /\ Last(args) \in tmpfiles[d]
               /\ Goals(d) = Result(job.out, Makes(job))
               /\ job.out = Stdout \/ fs[job.out] = Makes(job)
    <3>1. OnCourse(d) /\ ChildOnCourse(d)
      BY <1>1, <2>1, <2>2 DEF Progress
    <3>2. /\ n \in 1 .. Count(d) + 1
          /\ ForLinker(d) => Len(args) > 0 /\ Last(args) \in tmpfiles[d]
      BY <3>1 DEF OnCourse
    <3>3. Goals(d) = Result(job.out, Makes(job))
      <4> SUFFICES ASSUME NEW jobs, jobs = <<job>> PROVE Goals(d) = Result(job.out, Makes(job))
        OBVIOUS
      <4>1. Len(jobs) = 1 /\ jobs[1] = job /\ Pending(d) = jobs
        BY <2>1
      <4> QED BY <3>1, <4>1 DEF OnCourse
    <3>4. job.out = Stdout \/ fs[job.out] = Makes(job)
      BY <3>1 DEF ChildOnCourse
    <3> QED BY <3>2, <3>3, <3>4
  <2>3. ASSUME ~ unseen[d] PROVE Built(d, n, n)'
    <3> SUFFICES ASSUME NEW m, m = n - 1 PROVE Built(d, n, n)'
      OBVIOUS
    <3>1. Built(d, m, n)
      BY <1>1, <2>1, <2>3 DEF Progress
    <3>2. n \in 1 .. Count(d) + 1
      BY <2>2, <2>3
    <3>3. \A r \in Products(c, n) : r[1] = Stdout \/ fs[r[1]] = r[2]
      <4>1. CASE ForLinker(d)
        <5>1. Products(c, n) = {}
          BY <1>1, <4>1, ProductsOfTurn DEF ForLinker, Inputs
        <5> QED BY <5>1
      <4>2. CASE ~ ForLinker(d)
        <5>1. Products(c, n) = Result(job.out, Makes(job))
          BY <2>2, <2>3, <4>2 DEF Goals
        <5> QED BY <2>2, <2>3, <5>1 DEF Result
      <4> QED BY <4>1, <4>2
    <3>4. \A i \in 1 .. n : i \in 1 .. m \/ i = n
      BY <3>2
    <3> QED BY <3>1, <3>3, <3>4 DEF Built
  <2>4. ArgsOnCourse(d)'
    <3>1. CASE ~ (ForLinker(d) /\ ~ unseen[d])
      <4> SUFFICES ASSUME NEW parts, parts = LinkedBefore(c, IF n <= Count(d) THEN n ELSE Count(d))
                   PROVE  ArgsOnCourse(d)'
        OBVIOUS
      <4>1. parts = LinkedBefore(cmd[d], IF Turn(d) <= Count(d) THEN Turn(d) ELSE Count(d))'
        BY <1>1
      <4>2. /\ Len(parts) = Len(args)
            /\ ~ unseen[d] => \A k \in 1 .. Len(parts) :
                 (ForLinker(d) /\ Pending(d) # <<>> => k < Len(parts)) => fs[args[k]] = parts[k]
        BY <1>7 DEF ArgsOnCourse
      <4>3. ~ unseen[d] => \A k \in 1 .. Len(parts) : fs[args[k]] = parts[k]
        BY <3>1, <4>2
      <4> QED BY <4>1, <4>2, <4>3 DEF ArgsOnCourse
    <3>2. CASE ForLinker(d) /\ ~ unseen[d]
      <4>1. n \in 1 .. Len(c.inputs) /\ Type(c, c.inputs[n]) = "c" /\ c.mode = "link"
            /\ Len(c.inputs) \in Nat
        BY <1>1, <3>2 DEF ForLinker, Inputs
      <4> SUFFICES ASSUME NEW parts, parts = LinkedBefore(c, n), NEW p, p = c.inputs[n],
                          NEW m, m = n - 1, NEW before, before = LinkedBefore(c, m)
                   PROVE  ArgsOnCourse(d)'
        OBVIOUS
      <4>2. /\ Len(parts) = Len(args)
            /\ \A k \in 1 .. Len(parts) : k < Len(parts) => fs[args[k]] = parts[k]
        BY <1>1, <1>7, <3>2, <4>1 DEF ArgsOnCourse
      <4>3. parts = before \o <<Object(p)>> /\ before \in Seq(Wanted) /\ <<Object(p)>> \in Seq(Wanted)
        <5>1. m \in Nat /\ m + 1 = n /\ m + 1 <= Len(c.inputs) /\ m \in 0 .. Len(c.inputs)
          BY <4>1
        <5>2. Part(c, p) = <<Object(p)>> /\ Part(c, p) \in Seq(Wanted)
          BY <1>1, <4>1, PartType
        <5>3. before \in Seq(Wanted)
          BY <1>1, <5>1, LinkedType
        <5>4. parts = before \o Part(c, p)
          <6> SUFFICES ASSUME NEW k, k = m + 1
                       PROVE  LinkedBefore(c, k) = LinkedBefore(c, m) \o Part(c, c.inputs[k])
            BY <5>1
          <6> QED BY <1>1, <5>1, LinkedStep
        <5> QED BY <5>2, <5>3, <5>4
      <4>4. /\ Len(parts) = Len(before) + 1 /\ Len(before) \in Nat
            /\ parts[Len(before) + 1] = Object(p)
        BY <4>3, PartLonger
      <4>5. fs[Last(args)] = Object(p)
        <5>1. Result(Last(args), Object(p)) = Result(job.out, Makes(job))
          BY <1>1, <2>2, <3>2 DEF Goals, Inputs
        <5>2. Last(args) = job.out /\ Object(p) = Makes(job)
          BY <5>1, ResultIs
        <5>3. job.out # Stdout
          BY <1>1, <2>2, <3>2, <5>2, PathsApart
        <5> QED BY <2>2, <3>2, <5>2, <5>3
      <4>6. args[Len(parts)] = Last(args)
        BY <4>2 DEF Last
      <4>7. \A k \in 1 .. Len(parts) : fs[args[k]] = parts[k]
        <5>1. fs[args[Len(parts)]] = parts[Len(parts)]
          BY <4>4, <4>5, <4>6
        <5>2. \A k \in 1 .. Len(parts) : k < Len(parts) \/ k = Len(parts)
          BY <4>4
        <5> QED BY <4>2, <5>1, <5>2
      <4>8. parts = LinkedBefore(cmd[d], IF Turn(d) <= Count(d) THEN Turn(d) ELSE Count(d))'
        BY <1>1, <4>1
      <4> QED BY <4>2, <4>7, <4>8 DEF ArgsOnCourse
    <3> QED BY <3>1, <3>2
  <2>5. Progress(d)'
    BY <1>1, <1>2, <1>6, <2>1, <2>3, <2>4 DEF Progress
  <2>6. \A e \in Drivers \ {d} : Own(e)' = Own(e)
    BY <1>1 DEF Own
  <2> QED BY <1>1, <1>2, <1>3, <1>4, <1>5, <2>5, <2>6, Facts, Inward
<1> QED BY <1>8, <1>9

LEMMA ReapStep ==
  ASSUME IInv, NEW d \in Drivers, Reap(d)
  PROVE  IInv'
<1>1. /\ pc[d] = "wait" /\ child' = [child EXCEPT ![d] = Idle]
      /\ UNCHANGED <<fs, cmd, pos, todo, ldArgs, tmpfiles, unseen>>
  BY DEF Reap
<1>2. CASE child[d].state = "ok" /\ pc' = [pc EXCEPT ![d] = "loop"] /\ UNCHANGED code
  BY <1>1, <1>2, ReapOk
<1>3. CASE child[d].state = "failed" /\ Exit(d, 1)
  <2>1. /\ child'[d] = Idle /\ DOMAIN child' = Drivers
        /\ \A e \in Drivers \ {d} : child'[e] = child[e]
        /\ pc' = [pc EXCEPT ![d] = "exit"] /\ code' = [code EXCEPT ![d] = 1]
    BY <1>1, <1>3, Facts DEF Exit
  <2> QED BY <1>1, <1>3, <2>1, FailStep
<1> QED BY <1>2, <1>3 DEF Reap

-----------------------------------------------------------------------------
(* cleanup *)

LEMMA CleanupStep ==
  ASSUME IInv, NEW d \in Drivers, Cleanup(d)
  PROVE  IInv'
<1>1. /\ pc[d] = "exit" /\ pc' = [pc EXCEPT ![d] = "done"]
      /\ fs' = [p \in Paths |-> IF p \in tmpfiles[d] THEN NoFile ELSE fs[p]]
      /\ UNCHANGED <<cmd, pos, todo, ldArgs, tmpfiles, child, code, unseen>>
  BY DEF Cleanup
<1>2. /\ Shape(d) /\ Owned(d) /\ Progress(d) /\ Kept(d) /\ DOMAIN pc = Drivers
      /\ Count(d) \in Nat /\ Count(d)' = Count(d) /\ cmd[d] \in Commands[d]
      /\ tmpfiles[d] \subseteq TmpNames
  BY <1>1, Facts DEF Count, Inputs
<1>3. \A p \in Paths : p \notin TmpNames => fs'[p] = fs[p]
  BY <1>1, <1>2
<1>4. \A p \in Sources : fs'[p] = fs[p]
  BY <1>3, PathsApart
<1>5. \A e \in Drivers : \A r \in AllProducts(cmd[e]) : fs'[r[1]] = fs[r[1]]
  <2> SUFFICES ASSUME NEW e \in Drivers, NEW r \in AllProducts(cmd[e]) PROVE fs'[r[1]] = fs[r[1]]
    OBVIOUS
  <2>1. cmd[e] \in Commands[e]
    BY Facts
  <2>2. r[1] \in Paths /\ r[1] \notin TmpNames
    BY <2>1, AllProductPaths
  <2> QED BY <1>3, <2>2
<1>6. ASSUME NEW e \in Drivers, e # d, NEW p, Matters(e, p) PROVE fs'[p] = fs[p]
  <2>1. CASE pc[e] # "done" /\ p \in tmpfiles[e]
    <3>1. p \notin tmpfiles[d]
      BY <1>1, <1>6, <2>1 DEF IInv, Apart
    <3>2. p \in Paths
      <4>1. tmpfiles[e] \subseteq TmpNames
        BY Facts
      <4> QED BY <2>1, <4>1, PathsApart
    <3> QED BY <1>1, <3>1, <3>2
  <2> QED BY <1>4, <1>5, <1>6, <2>1 DEF Matters
<1>7. Shape(d)' /\ Owned(d)'
  BY <1>1, <1>2 DEF Shape, Owned, Within, Owns, Inputs
<1>8. Progress(d)'
  <2>1. ASSUME ~ unseen[d], code[d] = 0 PROVE Built(d, Count(d) + 1, Count(d) + 1)'
    <3> SUFFICES ASSUME NEW n, n = Count(d) + 1 PROVE Built(d, n, n)'
      BY <1>2
    <3>1. Built(d, n, n)
      BY <1>1, <1>2, <2>1 DEF Progress
    <3> QED BY <1>1, <1>2, <1>5, <3>1, SameBuilt
  <2> QED BY <1>1, <1>2, <2>1 DEF Progress
<1>9. Kept(d)'
  BY <1>1, <1>2, <1>5 DEF Kept, Allowed
<1>10. Apart'
  BY <1>1, <1>2 DEF IInv, Apart
<1>11. NoTmpfileLeft'
  <2> SUFFICES ASSUME NEW t \in TmpNames, fs'[t] # NoFile
               PROVE  \E e \in Drivers : pc'[e] # "done" /\ t \in tmpfiles'[e]
    BY DEF NoTmpfileLeft
  <2>1. t \notin tmpfiles[d] /\ fs[t] # NoFile
    BY <1>1, PathsApart
  <2>2. PICK e \in Drivers : pc[e] # "done" /\ t \in tmpfiles[e]
    BY <2>1 DEF IInv, NoTmpfileLeft
  <2> QED BY <1>1, <1>2, <2>1, <2>2
<1>12. \A e \in Drivers \ {d} : Own(e)' = Own(e)
  BY <1>1, <1>2 DEF Own
<1>13. /\ DOMAIN fs' = Paths /\ DOMAIN cmd' = Drivers /\ DOMAIN pc' = Drivers
       /\ DOMAIN pos' = Drivers /\ DOMAIN todo' = Drivers /\ DOMAIN ldArgs' = Drivers
       /\ DOMAIN tmpfiles' = Drivers /\ DOMAIN child' = Drivers /\ DOMAIN code' = Drivers
       /\ DOMAIN unseen' = Drivers
  BY <1>1, Facts
<1>14. \A e \in Drivers \ {d} : \A p : Matters(e, p) => fs'[p] = fs[p]
  BY <1>6
<1> QED BY <1>4, <1>7, <1>8, <1>9, <1>10, <1>11, <1>12, <1>13, <1>14, StepOf

-----------------------------------------------------------------------------
(* The children *)

\* A running child belongs to a driver that waits for it or was killed.
LEMMA ChildFacts ==
  ASSUME IInv, NEW d \in Drivers, child[d].state \in {"running", "writing"},
         NEW job, job = child[d].job
  PROVE  /\ pc[d] \in {"wait", "killed"} /\ IsJob(job) /\ Within(d, job)
         /\ child[d] = [job |-> job, state |-> child[d].state, made |-> child[d].made]
         /\ pc[d] = "wait" => /\ Pending(d) = <<job>> \o todo[d] /\ Pending(d) # <<>>
                              /\ Pending(d)[1] = job
<1>1. Shape(d) /\ Owned(d) /\ IsChild(child[d])
  BY Facts
<1>2. pc[d] \in {"wait", "killed"}
  BY <1>1, IdleState DEF Shape
<1>3. IsJob(job) /\ Within(d, job)
      /\ child[d] = [job |-> job, state |-> child[d].state, made |-> child[d].made]
  BY <1>1 DEF IsChild, Owned
<1>4. ASSUME pc[d] = "wait"
      PROVE  /\ Pending(d) = <<job>> \o todo[d] /\ Pending(d) # <<>> /\ Pending(d)[1] = job
  <2>1. Pending(d) = <<job>> \o todo[d]
    BY <1>4 DEF Pending
  <2>2. CASE todo[d] = <<>>
    <3>1. Pending(d) = <<job>>
      BY <2>1, <2>2
    <3> QED BY <2>1, <3>1
  <2>3. CASE \E j : todo[d] = <<j>>
    <3>1. PICK j : todo[d] = <<j>>
      BY <2>3
    <3>2. Pending(d) = <<job, j>>
      BY <2>1, <3>1, Pair
    <3> QED BY <2>1, <3>2
  <2> QED BY <1>4, <2>2, <2>3, TodoJobs
<1> QED BY <1>2, <1>3, <1>4

\* Its output matters to no other driver.
LEMMA OutIsOwn ==
  ASSUME IInv, NEW d \in Drivers, pc[d] # "done", NEW out, Owns(d, out)
  PROVE  /\ out \notin Sources
         /\ \A e \in Drivers \ {d} : ~ Matters(e, out)
         /\ out \in TmpNames => out \in tmpfiles[d]
<1>1. cmd[d] \in Commands[d] /\ tmpfiles[d] \subseteq TmpNames
  BY Facts
<1>2. CASE out \in tmpfiles[d]
  <2>1. out \in TmpNames /\ out \notin Sources
    BY <1>1, <1>2, PathsApart
  <2>2. ASSUME NEW e \in Drivers \ {d}, Matters(e, out) PROVE FALSE
    <3>1. ~ (pc[e] # "done" /\ out \in tmpfiles[e])
      BY <1>2 DEF IInv, Apart
    <3>2. \A r \in AllProducts(cmd[e]) : r[1] # out
      <4>1. cmd[e] \in Commands[e]
        BY Facts
      <4> QED BY <2>1, <4>1, AllProductPaths
    <3> QED BY <2>1, <2>2, <3>1, <3>2 DEF Matters
  <2> QED BY <1>2, <2>1, <2>2
<1>3. CASE \E r \in AllProducts(cmd[d]) : r[1] = out
  <2>1. PICK r \in AllProducts(cmd[d]) : r[1] = out
    BY <1>3
  <2>2. out \notin TmpNames /\ out \notin Sources
    BY <1>1, <2>1, AllProductPaths, PathsApart
  <2>3. ASSUME NEW e \in Drivers \ {d}, Matters(e, out) PROVE FALSE
    <3>1. cmd[e] \in Commands[e] /\ tmpfiles[e] \subseteq TmpNames
      BY Facts
    <3>2. out # Stdout => \A q \in AllProducts(cmd[e]) : q[1] # out
      BY <1>1, <2>1, <3>1, FilesAssumption
    <3> QED BY <2>2, <2>3, <3>1, <3>2 DEF Matters
  <2> QED BY <2>2, <2>3
<1> QED BY <1>2, <1>3 DEF Owns

\* To its own driver it is a temporary file nobody has read yet, or the result
\* of the turn.
LEMMA OutOfTurn ==
  ASSUME IInv, NEW d \in Drivers, pc[d] = "wait", ~ unseen[d],
         child[d].state \in {"running", "writing"}, NEW job, job = child[d].job
  PROVE  /\ \A k \in 1 .. Len(ldArgs[d]) :
              (ForLinker(d) => k < Len(ldArgs[d])) => ldArgs[d][k] # job.out
         /\ \/ job.out \in tmpfiles[d]
            \/ /\ Products(cmd[d], Turn(d)) = Result(job.out, Makes(job))
               /\ Turn(d) \in 1 .. Count(d) + 1
<1> SUFFICES ASSUME NEW args, args = ldArgs[d], NEW out, out = job.out
             PROVE  /\ \A k \in 1 .. Len(args) : (ForLinker(d) => k < Len(args)) => args[k] # out
                    /\ \/ out \in tmpfiles[d]
                       \/ /\ Products(cmd[d], Turn(d)) = Result(out, Makes(job))
                          /\ Turn(d) \in 1 .. Count(d) + 1
  OBVIOUS
<1>1. /\ Shape(d) /\ cmd[d] \in Commands[d] /\ Progress(d) /\ tmpfiles[d] \subseteq TmpNames
      /\ Count(d) = Len(cmd[d].inputs) /\ Count(d) \in Nat
  BY Facts
<1>2. Pending(d) = <<job>> \o todo[d] /\ Pending(d) # <<>> /\ Pending(d)[1] = job
  BY ChildFacts
<1>3. OnCourse(d)
  BY <1>1, <1>2 DEF Progress
<1>4. /\ Turn(d) \in 1 .. Count(d) + 1
      /\ ForLinker(d) => /\ Len(args) > 0 /\ Last(args) \in tmpfiles[d]
                         /\ \A k \in 1 .. Len(args) - 1 : args[k] # Last(args)
      /\ \/ Goals(d) = Result(out, Makes(job))
         \/ out \in tmpfiles[d] \ Range2(args)
  <2> SUFFICES ASSUME NEW jobs, jobs = Pending(d)
               PROVE  /\ Turn(d) \in 1 .. Count(d) + 1
                      /\ ForLinker(d) => /\ Len(args) > 0 /\ Last(args) \in tmpfiles[d]
                                         /\ \A k \in 1 .. Len(args) - 1 : args[k] # Last(args)
                      /\ \/ Goals(d) = Result(out, Makes(job))
                         \/ out \in tmpfiles[d] \ Range2(args)
    OBVIOUS
  <2>1. jobs[1] = job
    BY <1>2
  <2> QED BY <1>3, <2>1 DEF OnCourse
<1>5. /\ DOMAIN args = 1 .. Len(args) /\ Len(args) \in Nat
      /\ \A k \in 1 .. Len(args) : args[k] \in Sources \cup tmpfiles[d]
  <2>1. args \in Seq(Range2(Inputs(d)) \cup tmpfiles[d])
    BY <1>1 DEF Shape
  <2>2. Range2(Inputs(d)) \subseteq Sources
    BY <1>1, CommandType DEF Range2, Inputs
  <2> QED BY <2>1, <2>2
<1>6. CASE out \in tmpfiles[d] \ Range2(args)
  BY <1>5, <1>6 DEF Range2
<1>7. CASE Goals(d) = Result(out, Makes(job)) /\ ForLinker(d)
  <2>1. out = Last(args)
    BY <1>7, ResultIs DEF Goals
  <2>2. \A k \in 1 .. Len(args) : k < Len(args) => k \in 1 .. Len(args) - 1
    BY <1>5
  <2> QED BY <1>4, <1>7, <2>1, <2>2
<1>8. CASE Goals(d) = Result(out, Makes(job)) /\ ~ ForLinker(d)
  <2>1. Products(cmd[d], Turn(d)) = Result(out, Makes(job))
    BY <1>8 DEF Goals
  <2>2. <<out, Makes(job)>> \in AllProducts(cmd[d])
    <3>1. <<out, Makes(job)>> \in Products(cmd[d], Turn(d)) /\ Turn(d) \in Turns(cmd[d])
      BY <1>1, <1>4, <2>1 DEF Result, Turns
    <3> QED BY <1>1, <3>1, ProductPaths
  <2>3. out \notin TmpNames /\ out \notin Sources
    BY <1>1, <2>2, AllProductPaths, PathsApart
  <2> QED BY <1>1, <1>4, <1>5, <2>1, <2>3
<1> QED BY <1>4, <1>6, <1>7, <1>8

\* A job does not write to what it reads.
LEMMA MakesStays ==
  ASSUME NEW job, IsJob(job), DOMAIN fs = Paths, Range2(job.in) \subseteq Paths,
         NEW x, fs' = fs \/ fs' = [fs EXCEPT ![job.out] = x]
  PROVE  Makes(job)' = Makes(job)
<1>1. \A k \in DOMAIN job.in : job.in[k] # job.out /\ job.in[k] \in Paths
  BY DEF IsJob, Range2
<1>2. \A k \in DOMAIN job.in : fs'[job.in[k]] = fs[job.in[k]]
  BY <1>1
<1> QED BY <1>2 DEF Makes

LEMMA MattersPaths ==
  ASSUME IInv, NEW e \in Drivers, NEW p, Matters(e, p)
  PROVE  p \in Paths
<1>1. cmd[e] \in Commands[e] /\ tmpfiles[e] \subseteq TmpNames
  BY Facts
<1> QED BY <1>1, AllProductPaths, PathsApart DEF Matters

LEMMA ReadsPaths ==
  ASSUME IInv, NEW d \in Drivers, NEW job, Within(d, job)
  PROVE  Range2(job.in) \subseteq Paths /\ job.out \in Paths
<1>1. cmd[d] \in Commands[d] /\ tmpfiles[d] \subseteq TmpNames
  BY Facts
<1> QED BY <1>1, AllProductPaths, PathsApart DEF Within, Owns

LEMMA NextState ==
  ASSUME NEW x, x = [job |-> x.job, state |-> x.state, made |-> x.made], NEW s, NEW m
  PROVE  /\ [x EXCEPT !.state = s] = [job |-> x.job, state |-> s, made |-> x.made]
         /\ [x EXCEPT !.state = s, !.made = m] = [job |-> x.job, state |-> s, made |-> m]
<1>1. [x EXCEPT !.state = s] = [job |-> x.job, state |-> s, made |-> x.made]
  OBVIOUS
<1>2. \A y : y = [job |-> y.job, state |-> y.state, made |-> y.made] =>
               [y EXCEPT !.made = m] = [job |-> y.job, state |-> y.state, made |-> m]
  OBVIOUS
<1>3. [x EXCEPT !.state = s, !.made = m] = [job |-> x.job, state |-> s, made |-> m]
  <2>1. [x EXCEPT !.state = s, !.made = m] = [[x EXCEPT !.state = s] EXCEPT !.made = m]
    OBVIOUS
  <2> SUFFICES ASSUME NEW y, y = [x EXCEPT !.state = s]
               PROVE  [y EXCEPT !.made = m] = [job |-> x.job, state |-> s, made |-> m]
    BY <2>1
  <2>2. y.job = x.job /\ y.state = s /\ y = [job |-> y.job, state |-> y.state, made |-> y.made]
    BY <1>1
  <2> QED BY <1>2, <2>2
<1> QED BY <1>1, <1>3

\* A step of a child, which may write to its output.
LEMMA ChildStepOf ==
  ASSUME IInv, NEW d \in Drivers, child[d].state \in {"running", "writing"},
         NEW job, job = child[d].job, NEW x, fs' = fs \/ fs' = [fs EXCEPT ![job.out] = x],
         NEW state \in {"writing", "ok", "failed"}, NEW made,
         DOMAIN child' = Drivers, child'[d] = [job |-> job, state |-> state, made |-> made],
         \A e \in Drivers \ {d} : child'[e] = child[e],
         UNCHANGED <<cmd, pc, pos, todo, ldArgs, tmpfiles, code>>,
         unseen' = unseen \/ unseen' = [unseen EXCEPT ![d] = TRUE],
         pc[d] = "wait" /\ ~ unseen'[d] => ChildOnCourse(d)' /\ Kept(d)'
  PROVE  IInv'
<1> SUFFICES ASSUME NEW out, out = job.out, NEW n, n = Turn(d) PROVE IInv'
  OBVIOUS
<1>1. /\ pc[d] \in {"wait", "killed"} /\ IsJob(job) /\ Within(d, job)
      /\ pc[d] = "wait" => /\ Pending(d) = <<job>> \o todo[d] /\ Pending(d) # <<>>
                           /\ Pending(d)[1] = job
  BY ChildFacts
<1>2. /\ Shape(d) /\ Owned(d) /\ Progress(d) /\ DOMAIN child = Drivers /\ DOMAIN unseen = Drivers
      /\ DOMAIN fs = Paths /\ cmd[d] \in Commands[d]
      /\ Count(d) = Len(cmd[d].inputs) /\ Count(d) \in Nat /\ unseen[d] \in BOOLEAN
      /\ tmpfiles[d] \subseteq TmpNames
  BY Facts DEF Shape
<1>3. /\ child'[d] = [job |-> job, state |-> state, made |-> made]
      /\ child'[d].job = job /\ child'[d].state = state /\ child'[d].made = made
      /\ \A e \in Drivers \ {d} : child'[e] = child[e]
      /\ \A e \in Drivers \ {d} : unseen'[e] = unseen[e]
      /\ unseen'[d] \in BOOLEAN /\ (~ unseen'[d] => ~ unseen[d])
      /\ DOMAIN child' = Drivers /\ DOMAIN unseen' = Drivers /\ DOMAIN fs' = Paths
  <2>1. /\ child'[d].job = job /\ child'[d].state = state /\ child'[d].made = made
    OBVIOUS
  <2>2. /\ \A e \in Drivers \ {d} : unseen'[e] = unseen[e]
        /\ unseen'[d] \in BOOLEAN /\ (~ unseen'[d] => ~ unseen[d]) /\ DOMAIN unseen' = Drivers
    BY <1>2
  <2>3. DOMAIN fs' = Paths
    BY <1>2
  <2> QED BY <2>1, <2>2, <2>3
<1>4. /\ Count(d)' = Count(d) /\ Inputs(d)' = Inputs(d) /\ Turn(d)' = n
  BY DEF Count, Inputs, Turn
<1>5. /\ out \notin Sources /\ (\A e \in Drivers \ {d} : ~ Matters(e, out))
      /\ (out \in TmpNames => out \in tmpfiles[d])
  BY <1>1, OutIsOwn DEF Within
<1>6. \A p \in Paths : p # out => fs'[p] = fs[p]
  BY <1>2
<1>7. Makes(job)' = Makes(job)
  BY <1>1, <1>2, MakesStays, ReadsPaths
<1>8. IsChild(child'[d])
  BY <1>1, <1>3 DEF IsChild
<1>9. Shape(d)'
  BY <1>1, <1>2, <1>3, <1>4, <1>8 DEF Shape
<1>10. Owned(d)'
  <2>1. Within(d, job)'
    BY <1>1 DEF Within, Owns
  <2> QED BY <1>2, <1>3, <2>1 DEF Owned, Within, Owns
<1>11. Kept(d)'
  <2>1. CASE pc[d] = "wait" /\ ~ unseen'[d]
    BY <2>1
  <2>2. CASE ~ (pc[d] = "wait" /\ ~ unseen'[d])
    BY <1>1, <2>2 DEF Kept
  <2> QED BY <2>1, <2>2
<1>12. ASSUME pc[d] = "wait" PROVE Pending(d)' = Pending(d)
  BY <1>3, <1>12 DEF Pending
<1>13. ASSUME pc[d] = "wait", ~ unseen'[d]
       PROVE  ArgsOnCourse(d)' /\ OnCourse(d)' /\ Built(d, n - 1, n)'
  <2>1. /\ \A k \in 1 .. Len(ldArgs[d]) :
             (ForLinker(d) => k < Len(ldArgs[d])) => ldArgs[d][k] # out
        /\ \/ out \in tmpfiles[d]
           \/ Products(cmd[d], n) = Result(out, Makes(job)) /\ n \in 1 .. Count(d) + 1
    BY <1>3, <1>13, OutOfTurn
  <2>2. ArgsOnCourse(d) /\ OnCourse(d) /\ Built(d, n - 1, n)
    BY <1>1, <1>2, <1>3, <1>13 DEF Progress
  <2>3. ArgsOnCourse(d)'
    <3>1. unseen'[d] = unseen[d] /\ Pending(d) # <<>> /\ Pending(d)' = Pending(d)
      BY <1>1, <1>2, <1>3, <1>12, <1>13
    <3>2. \A k \in 1 .. Len(ldArgs[d]) :
            (ForLinker(d) /\ Pending(d) # <<>> => k < Len(ldArgs[d]))
            => fs'[ldArgs[d][k]] = fs[ldArgs[d][k]]
      <4>1. \A k \in 1 .. Len(ldArgs[d]) : ldArgs[d][k] \in Paths
        <5>1. ldArgs[d] \in Seq(Range2(Inputs(d)) \cup tmpfiles[d])
          BY <1>2 DEF Shape
        <5>2. Range2(Inputs(d)) \subseteq Sources
          BY <1>2, CommandType DEF Range2, Inputs
        <5> QED BY <1>2, <5>1, <5>2, PathsApart
      <4> QED BY <1>6, <2>1, <3>1, <4>1
    <3> QED BY <2>2, <3>1, <3>2, SameArgs
  <2>4. OnCourse(d)'
    <3> SUFFICES ASSUME NEW jobs, jobs = Pending(d) PROVE OnCourse(d)'
      OBVIOUS
    <3>1. Makes(jobs[1])' = Makes(jobs[1])
      BY <1>1, <1>7, <1>13
    <3>2. Pending(d)' = jobs
      BY <1>12, <1>13
    <3> QED BY <2>2, <3>1, <3>2, SameCourse
  <2>5. Built(d, n - 1, n)'
    <3> SUFFICES ASSUME NEW m, m = n - 1, NEW c, c = cmd[d] PROVE Built(d, m, n)'
      OBVIOUS
    <3>1. Built(d, m, n) /\ c = cmd'[d]
      BY <2>2
    <3>2. n \in 1 .. Count(d) + 1
      BY <2>2 DEF OnCourse
    <3>3. ASSUME NEW i \in 1 .. m, NEW r \in Products(c, i)
          PROVE  \/ fs'[r[1]] = fs[r[1]]
                 \/ \E j \in i + 1 .. n : \E q \in Products(c, j) : q[1] = r[1]
      <4>1. r \in AllProducts(c)
        <5>1. i \in Turns(c)
          BY <1>2, <3>2 DEF Turns
        <5> QED BY <1>2, <5>1, ProductPaths
      <4>2. r[1] \in Paths /\ r[1] \notin TmpNames
        BY <1>2, <4>1, AllProductPaths
      <4>3. CASE r[1] # out
        BY <1>6, <4>2, <4>3
      <4>4. CASE r[1] = out
        <5>1. Products(c, n) = Result(out, Makes(job))
          BY <1>2, <2>1, <4>2, <4>4
        <5>2. <<out, Makes(job)>> \in Products(c, n) /\ n \in i + 1 .. n
          BY <3>2, <5>1 DEF Result
        <5>3. <<out, Makes(job)>>[1] = out
          OBVIOUS
        <5> QED BY <4>4, <5>2, <5>3
      <4> QED BY <4>3, <4>4
    <3> QED BY <3>1, <3>3 DEF Built
  <2> QED BY <2>3, <2>4, <2>5
<1>14. ASSUME pc[d] = "wait", unseen'[d] PROVE ArgsOnCourse(d)'
  <2>1. ArgsOnCourse(d)
    BY <1>2, <1>14 DEF Progress
  <2>2. LinkedBefore(cmd[d], IF Turn(d) <= Count(d) THEN Turn(d) ELSE Count(d))'
          = LinkedBefore(cmd[d], IF Turn(d) <= Count(d) THEN Turn(d) ELSE Count(d))
    BY <1>4
  <2> QED BY <1>14, <2>1, <2>2 DEF ArgsOnCourse
<1>15. Progress(d)'
  <2>1. CASE pc[d] = "killed"
    BY <2>1 DEF Progress
  <2>2. CASE pc[d] = "wait" /\ unseen'[d]
    BY <1>14, <2>2 DEF Progress
  <2>3. CASE pc[d] = "wait" /\ ~ unseen'[d]
    <3>1. Pending(d)' # <<>>
      BY <1>1, <1>12, <2>3
    <3> QED BY <1>4, <1>13, <2>3, <3>1 DEF Progress
  <2> QED BY <1>1, <1>3, <2>1, <2>2, <2>3
<1>16. \A e \in Drivers \ {d} : Own(e)' = Own(e)
  BY <1>3 DEF Own
<1>17. /\ \A e \in Drivers \ {d} : \A p : Matters(e, p) => fs'[p] = fs[p]
       /\ \A p \in Sources : fs'[p] = fs[p]
  BY <1>5, <1>6, MattersPaths, PathsApart
<1>18. Apart'
  BY DEF IInv, Apart
<1>19. NoTmpfileLeft'
  <2> SUFFICES ASSUME NEW t \in TmpNames, fs'[t] # NoFile
               PROVE  \E e \in Drivers : pc'[e] # "done" /\ t \in tmpfiles'[e]
    BY DEF NoTmpfileLeft
  <2>1. CASE t = out
    BY <1>1, <1>5, <2>1
  <2>2. CASE t # out
    BY <1>6, <2>2, PathsApart DEF IInv, NoTmpfileLeft
  <2> QED BY <2>1, <2>2
<1>20. /\ DOMAIN cmd' = Drivers /\ DOMAIN pc' = Drivers /\ DOMAIN pos' = Drivers
       /\ DOMAIN todo' = Drivers /\ DOMAIN ldArgs' = Drivers /\ DOMAIN tmpfiles' = Drivers
       /\ DOMAIN code' = Drivers
  BY Facts
<1> QED BY <1>3, <1>9, <1>10, <1>11, <1>15, <1>16, <1>17, <1>18, <1>19, <1>20, StepOf

\* What is at the results that no child writes to.
LEMMA KeptElsewhere ==
  ASSUME IInv, NEW d \in Drivers, pc[d] = "wait", ~ unseen[d], cmd' = cmd,
         child[d].state \in {"running", "writing"}, NEW job, job = child[d].job,
         \A p \in Paths : p # job.out => fs'[p] = fs[p],
         job.out # Stdout /\ (\E r \in AllProducts(cmd[d]) : r[1] = job.out) => Allowed(d, job.out)'
  PROVE  Kept(d)'
<1> SUFFICES ASSUME NEW r \in AllProducts(cmd[d]), r[1] # Stdout PROVE Allowed(d, r[1])'
  BY DEF Kept
<1>1. CASE r[1] = job.out
  BY <1>1
<1>2. CASE r[1] # job.out
  <2>1. Allowed(d, r[1])
    BY DEF IInv, Kept
  <2>2. r[1] \in Paths
    BY Facts, AllProductPaths
  <2> QED BY <1>2, <2>1, <2>2 DEF Allowed
<1> QED BY <1>1, <1>2

\* The result of the turn is what its child makes.
LEMMA ResultOfTurn ==
  ASSUME IInv, NEW d \in Drivers, pc[d] = "wait", ~ unseen[d],
         child[d].state \in {"running", "writing"}, NEW job, job = child[d].job,
         \E r \in AllProducts(cmd[d]) : r[1] = job.out
  PROVE  <<job.out, Makes(job)>> \in AllProducts(cmd[d])
<1>1. cmd[d] \in Commands[d] /\ Count(d) = Len(cmd[d].inputs) /\ tmpfiles[d] \subseteq TmpNames
  BY Facts
<1>2. job.out \notin TmpNames
  BY <1>1, AllProductPaths
<1>3. Products(cmd[d], Turn(d)) = Result(job.out, Makes(job)) /\ Turn(d) \in 1 .. Count(d) + 1
  BY <1>1, <1>2, OutOfTurn
<1>4. <<job.out, Makes(job)>> \in Products(cmd[d], Turn(d)) /\ Turn(d) \in Turns(cmd[d])
  BY <1>1, <1>3 DEF Result, Turns
<1> QED BY <1>1, <1>4, ProductPaths

LEMMA OpensStep ==
  ASSUME IInv, NEW d \in Drivers, ChildOpens(d)
  PROVE  IInv'
<1> SUFFICES ASSUME NEW job, job = child[d].job, NEW made, made = Makes(job) PROVE IInv'
  OBVIOUS
<1>1. /\ child[d].state = "running"
      /\ child' = [child EXCEPT ![d].state = "writing", ![d].made = made]
      /\ fs' = fs \/ fs' = [fs EXCEPT ![job.out] = Torn]
      /\ UNCHANGED <<cmd, pc, pos, todo, ldArgs, tmpfiles, code, unseen>>
  BY DEF ChildOpens, Makes
<1>2. /\ IsJob(job) /\ child[d] = [job |-> job, state |-> child[d].state, made |-> child[d].made]
      /\ DOMAIN child = Drivers /\ DOMAIN fs = Paths
      /\ Range2(job.in) \subseteq Paths
  BY <1>1, ChildFacts, Facts, ReadsPaths
<1>3. /\ DOMAIN child' = Drivers /\ (\A e \in Drivers \ {d} : child'[e] = child[e])
      /\ child'[d] = [job |-> job, state |-> "writing", made |-> made]
  <2>1. child'[d] = [child[d] EXCEPT !.state = "writing", !.made = made]
    BY <1>1, <1>2
  <2>2. child'[d] = [job |-> job, state |-> "writing", made |-> made]
    BY <1>2, <2>1, NextState
  <2> QED BY <1>1, <1>2, <2>2
<1>4. child'[d].job = job /\ child'[d].state = "writing" /\ child'[d].made = made
  BY <1>2, <1>3
<1>5. ASSUME pc[d] = "wait", ~ unseen'[d] PROVE ChildOnCourse(d)' /\ Kept(d)'
  <2>1. Makes(job)' = Makes(job)
    BY <1>1, <1>2, MakesStays
  <2>2. ChildOnCourse(d)'
    BY <1>4, <2>1 DEF ChildOnCourse
  <2>3. Allowed(d, job.out)'
    BY <1>1, <1>4, <1>5 DEF Allowed
  <2>4. ~ unseen[d] /\ \A p \in Paths : p # job.out => fs'[p] = fs[p]
    BY <1>1, <1>2, <1>5
  <2> QED BY <1>1, <1>5, <2>2, <2>3, <2>4, KeptElsewhere
<1>6. /\ child[d].state \in {"running", "writing"} /\ "writing" \in {"writing", "ok", "failed"}
      /\ fs' = fs \/ fs' = [fs EXCEPT ![job.out] = Torn]
      /\ UNCHANGED <<cmd, pc, pos, todo, ldArgs, tmpfiles, code, unseen>>
  BY <1>1
<1> QED BY <1>3, <1>5, <1>6, ChildStepOf

LEMMA ClosesStep ==
  ASSUME IInv, NEW d \in Drivers, ChildCloses(d)
  PROVE  IInv'
<1> SUFFICES ASSUME NEW job, job = child[d].job, NEW made, made = child[d].made PROVE IInv'
  OBVIOUS
<1>1. /\ child[d].state = "writing" /\ child' = [child EXCEPT ![d].state = "ok"]
      /\ fs' = IF job.out = Stdout THEN fs ELSE [fs EXCEPT ![job.out] = made]
      /\ UNCHANGED <<cmd, pc, pos, todo, ldArgs, tmpfiles, code, unseen>>
  BY DEF ChildCloses, ToChild
<1>2. /\ IsJob(job) /\ child[d] = [job |-> job, state |-> child[d].state, made |-> made]
      /\ DOMAIN child = Drivers /\ DOMAIN fs = Paths /\ Within(d, job) /\ cmd[d] \in Commands[d]
      /\ tmpfiles[d] \subseteq TmpNames
  BY <1>1, ChildFacts, Facts
<1>3. /\ DOMAIN child' = Drivers /\ (\A e \in Drivers \ {d} : child'[e] = child[e])
      /\ child'[d] = [job |-> job, state |-> "ok", made |-> made]
  <2>1. child'[d] = [child[d] EXCEPT !.state = "ok"]
    BY <1>1, <1>2
  <2>2. child'[d] = [job |-> job, state |-> "ok", made |-> made]
    BY <1>2, <2>1, NextState
  <2> QED BY <1>1, <1>2, <2>2
<1>4. child'[d].job = job /\ child'[d].state = "ok" /\ child'[d].made = made
  BY <1>2, <1>3
<1>5. fs' = fs \/ fs' = [fs EXCEPT ![job.out] = made]
  BY <1>1
<1>6. job.out # Stdout => fs'[job.out] = made
  <2>1. job.out \in Paths
    BY <1>2, AllProductPaths, PathsApart DEF Within, Owns
  <2> QED BY <1>1, <1>2, <2>1
<1>7. ASSUME pc[d] = "wait", ~ unseen'[d] PROVE ChildOnCourse(d)' /\ Kept(d)'
  <2>1. ~ unseen[d] /\ made = Makes(job) /\ \A p \in Paths : p # job.out => fs'[p] = fs[p]
    <3>1. ChildOnCourse(d)
      BY <1>1, <1>7, Facts DEF Progress
    <3> QED BY <1>1, <1>2, <1>7, <3>1 DEF ChildOnCourse
  <2>2. Makes(job)' = made
    BY <1>2, <1>5, <2>1, MakesStays, ReadsPaths
  <2>3. ChildOnCourse(d)'
    BY <1>4, <1>6, <2>2 DEF ChildOnCourse
  <2>4. job.out # Stdout /\ (\E r \in AllProducts(cmd[d]) : r[1] = job.out) => Allowed(d, job.out)'
    <3> SUFFICES ASSUME job.out # Stdout, \E r \in AllProducts(cmd[d]) : r[1] = job.out
                 PROVE  Allowed(d, job.out)'
      OBVIOUS
    <3>1. <<job.out, made>> \in AllProducts(cmd'[d])
      BY <1>1, <1>7, <2>1, ResultOfTurn
    <3>2. <<job.out, made>>[1] = job.out /\ fs'[job.out] = <<job.out, made>>[2]
      BY <1>6
    <3> QED BY <3>1, <3>2 DEF Allowed
  <2> QED BY <1>1, <1>7, <2>1, <2>3, <2>4, KeptElsewhere
<1> QED BY <1>1, <1>3, <1>5, <1>7, ChildStepOf

\* A child fails; the assembler and the linker may remove their output.
LEMMA FailsAnyhow ==
  ASSUME IInv, NEW d \in Drivers, child[d].state \in {"running", "writing"},
         NEW job, job = child[d].job, child' = [child EXCEPT ![d].state = "failed"],
         \/ child[d].state = "running" /\ fs' = fs
         \/ job.tool # "cc1" /\ fs' = [fs EXCEPT ![job.out] = NoFile],
         UNCHANGED <<cmd, pc, pos, todo, ldArgs, tmpfiles, code, unseen>>
  PROVE  IInv'
<1> SUFFICES ASSUME NEW made, made = child[d].made PROVE IInv'
  OBVIOUS
<1>1. /\ IsJob(job) /\ child[d] = [job |-> job, state |-> child[d].state, made |-> made]
      /\ DOMAIN child = Drivers /\ DOMAIN fs = Paths /\ Within(d, job) /\ cmd[d] \in Commands[d]
      /\ tmpfiles[d] \subseteq TmpNames
  BY ChildFacts, Facts
<1>2. /\ DOMAIN child' = Drivers /\ (\A e \in Drivers \ {d} : child'[e] = child[e])
      /\ child'[d] = [job |-> job, state |-> "failed", made |-> made]
  <2>1. child'[d] = [child[d] EXCEPT !.state = "failed"]
    BY <1>1
  <2>2. child'[d] = [job |-> job, state |-> "failed", made |-> made]
    BY <1>1, <2>1, NextState
  <2> QED BY <1>1, <2>2
<1>3. child'[d].job = job /\ child'[d].state = "failed"
  BY <1>1, <1>2
<1>4. fs' = fs \/ fs' = [fs EXCEPT ![job.out] = NoFile]
  OBVIOUS
<1>5. ASSUME pc[d] = "wait", ~ unseen'[d] PROVE ChildOnCourse(d)' /\ Kept(d)'
  <2>1. ChildOnCourse(d)'
    BY <1>3 DEF ChildOnCourse
  <2>2. ~ unseen[d]
    BY <1>5
  <2>3. CASE child[d].state = "running" /\ fs' = fs
    BY <1>5, <2>1, <2>3, KeptAlone
  <2>4. CASE job.tool # "cc1" /\ fs' = [fs EXCEPT ![job.out] = NoFile]
    <3>1. \A p \in Paths : p # job.out => fs'[p] = fs[p]
      BY <1>1, <2>4
    <3>2. job.out # Stdout /\ (\E r \in AllProducts(cmd[d]) : r[1] = job.out) => Allowed(d, job.out)'
      <4> SUFFICES ASSUME \E r \in AllProducts(cmd[d]) : r[1] = job.out PROVE Allowed(d, job.out)'
        OBVIOUS
      <4>1. <<job.out, Makes(job)>> \in AllProducts(cmd'[d])
        BY <1>5, <2>2, ResultOfTurn
      <4>2. <<job.out, Makes(job)>>[1] = job.out /\ <<job.out, Makes(job)>>[2].by # "cc1"
        BY <2>4 DEF Makes, Made
      <4>3. job.out \in Paths
        BY <1>1, AllProductPaths
      <4>4. fs'[job.out] = NoFile
        BY <1>1, <2>4, <4>3
      <4> QED BY <4>1, <4>2, <4>4 DEF Allowed
    <3> QED BY <1>5, <2>1, <2>2, <3>1, <3>2, KeptElsewhere
  <2> QED BY <2>3, <2>4
<1> QED BY <1>2, <1>4, <1>5, ChildStepOf

LEMMA FailsStep ==
  ASSUME IInv, NEW d \in Drivers, ChildFails(d)
  PROVE  IInv'
BY FailsAnyhow DEF ChildFails, ToChild

LEMMA KilledStep ==
  ASSUME IInv, NEW d \in Drivers, ChildKilled(d)
  PROVE  IInv'
<1> SUFFICES ASSUME NEW job, job = child[d].job, NEW made, made = child[d].made PROVE IInv'
  OBVIOUS
<1>1. /\ child[d].state \in {"running", "writing"}
      /\ child' = [child EXCEPT ![d].state = "failed"]
      /\ fs' = IF child[d].state = "running" \/ job.out = Stdout THEN fs
               ELSE [fs EXCEPT ![job.out] = Cut]
      /\ UNCHANGED <<cmd, pc, pos, todo, ldArgs, tmpfiles, code, unseen>>
  BY DEF ChildKilled, ToChild
<1>2. CASE child[d].state = "running"
  BY <1>1, <1>2, FailsAnyhow
<1>3. CASE child[d].state = "writing"
  <2>1. /\ child[d] = [job |-> job, state |-> child[d].state, made |-> made]
        /\ DOMAIN child = Drivers /\ DOMAIN fs = Paths /\ job.out \in Paths
    BY <1>1, ChildFacts, Facts, ReadsPaths
  <2>2. child'[d] = [job |-> job, state |-> "failed", made |-> made]
    <3>1. child'[d] = [child[d] EXCEPT !.state = "failed"]
      BY <1>1, <2>1
    <3> QED BY <2>1, <3>1, NextState
  <2>3. DOMAIN child' = Drivers /\ \A e \in Drivers \ {d} : child'[e] = child[e]
    BY <1>1, <2>1
  <2>4. fs' = fs \/ fs' = [fs EXCEPT ![job.out] = Cut]
    BY <1>1
  <2>5. ASSUME pc[d] = "wait", ~ unseen'[d] PROVE ChildOnCourse(d)' /\ Kept(d)'
    <3>1. ChildOnCourse(d)'
      BY <2>2 DEF ChildOnCourse
    <3>2. ~ unseen[d] /\ \A p \in Paths : p # job.out => fs'[p] = fs[p]
      BY <1>1, <2>1, <2>4, <2>5
    <3>3. job.out # Stdout => Allowed(d, job.out)'
      <4>1. job.out # Stdout => fs'[job.out] = Cut
        BY <1>1, <1>3, <2>1
      <4> QED BY <4>1 DEF Allowed
    <3> QED BY <1>1, <2>5, <3>1, <3>2, <3>3, KeptElsewhere
  <2> QED BY <1>1, <2>2, <2>3, <2>4, <2>5, ChildStepOf
<1> QED BY <1>1, <1>2, <1>3

LEMMA ShortWriteStep ==
  ASSUME IInv, NEW d \in Drivers, ShortWrite(d)
  PROVE  IInv'
<1> SUFFICES ASSUME NEW job, job = child[d].job, NEW made, made = child[d].made PROVE IInv'
  OBVIOUS
<1>1. child[d].state = "writing" /\ UNCHANGED <<cmd, pc, pos, todo, ldArgs, tmpfiles, code>>
  BY DEF ShortWrite
<1>2. CASE job.tool = "cc1" /\ ToChild(d, "ok") /\ unseen' = [unseen EXCEPT ![d] = TRUE] /\ fs' = fs
  <2>1. /\ child[d] = [job |-> job, state |-> child[d].state, made |-> made]
        /\ DOMAIN child = Drivers /\ DOMAIN unseen = Drivers
    BY <1>1, ChildFacts, Facts
  <2>2. /\ DOMAIN child' = Drivers /\ (\A e \in Drivers \ {d} : child'[e] = child[e])
        /\ child'[d] = [job |-> job, state |-> "ok", made |-> made]
    <3>1. child'[d] = [child[d] EXCEPT !.state = "ok"]
      BY <1>2, <2>1 DEF ToChild
    <3>2. child'[d] = [job |-> job, state |-> "ok", made |-> made]
      BY <2>1, <3>1, NextState
    <3> QED BY <1>2, <2>1, <3>2 DEF ToChild
  <2>3. unseen'[d]
    BY <1>2, <2>1
  <2> QED BY <1>1, <1>2, <2>2, <2>3, ChildStepOf
<1>3. CASE /\ job.tool # "cc1" /\ ToChild(d, "failed") /\ fs' = [fs EXCEPT ![job.out] = NoFile]
           /\ UNCHANGED unseen
  BY <1>1, <1>3, FailsAnyhow DEF ToChild
<1> QED BY <1>2, <1>3 DEF ShortWrite

-----------------------------------------------------------------------------
(* The invariant holds *)

LEMMA Steps ==
  ASSUME IInv, NEW d \in Drivers, DriverStep(d) \/ ChildStep(d) \/ Kill(d)
  PROVE  IInv'
<1> SUFFICES ASSUME NEW c, c = cmd[d], NEW p, p = Inputs(d)[pos[d]] PROVE IInv'
  OBVIOUS
<1>1. CASE Start(d)
  BY <1>1, StartStep
<1>2. CASE Library(d)
  BY <1>2, QuietStep DEF Library
<1>3. CASE Unknown(d)
  BY <1>3, ExitAtInput DEF Unknown
<1>4. CASE Assembly(d)
  <2>1. AtInput(d, "assembler") /\ UNCHANGED <<fs, pc, ldArgs, tmpfiles, code>>
    BY <1>4 DEF Assembly
  <2>2. CASE c.mode = "S" /\ todo' = todo
    BY <2>1, <2>2, QuietStep
  <2> SUFFICES ASSUME NEW job, job = Job("as", <<p>>, Output(c, p)) PROVE IInv'
    OBVIOUS
  <2>3. CASE c.mode # "S" /\ todo' = [todo EXCEPT ![d] = <<job>>]
    BY <2>1, <2>3, OneJobStep
  <2> QED BY <1>4, <2>2, <2>3 DEF Assembly, assemble
<1>5. CASE CompileOnly(d)
  <2> SUFFICES ASSUME NEW job, job = Job("cc1", <<p>>, Output(c, p)) PROVE IInv'
    OBVIOUS
  <2>1. /\ AtInput(d, "c") /\ c.mode \in {"E", "S"} /\ todo' = [todo EXCEPT ![d] = <<job>>]
        /\ UNCHANGED <<fs, pc, ldArgs, tmpfiles, code>>
    BY <1>5 DEF CompileOnly, run_cc1
  <2> QED BY <2>1, OneJobStep
<1>6. CASE CompileAndAssemble(d)
  <2>1. PICK t \in FreeNames :
          /\ CreateTmpfiles(d, {t})
          /\ todo' = [todo EXCEPT ![d] = <<run_cc1(p, t), assemble(t, Output(c, p))>>]
    BY <1>6 DEF CompileAndAssemble
  <2> SUFFICES ASSUME NEW out, out = Output(c, p), NEW new, new = {t},
                      NEW job1, job1 = Job("cc1", <<p>>, t), NEW job2, job2 = Job("as", <<t>>, out)
               PROVE  IInv'
    OBVIOUS
  <2>2. /\ AtInput(d, "c") /\ c.mode = "c" /\ pc' = pc /\ code' = code /\ ldArgs' = ldArgs
        /\ todo' = [todo EXCEPT ![d] = <<job1, job2>>] /\ CreateTmpfiles(d, new)
        /\ new \subseteq FreeNames /\ t \in new
    BY <1>6, <2>1 DEF CompileAndAssemble, run_cc1, assemble
  <2> QED BY <2>2, TwoJobStep
<1>7. CASE CompileAndLink(d)
  <2>1. PICK t, out \in FreeNames :
          /\ t # out
          /\ CreateTmpfiles(d, {t, out})
          /\ todo' = [todo EXCEPT ![d] = <<run_cc1(p, t), assemble(t, out)>>]
          /\ ldArgs' = [ldArgs EXCEPT ![d] = Append(@, out)]
    BY <1>7 DEF CompileAndLink
  <2> SUFFICES ASSUME NEW new, new = {t, out},
                      NEW job1, job1 = Job("cc1", <<p>>, t), NEW job2, job2 = Job("as", <<t>>, out)
               PROVE  IInv'
    OBVIOUS
  <2>2. /\ AtInput(d, "c") /\ c.mode = "link" /\ pc' = pc /\ code' = code
        /\ ldArgs' = [ldArgs EXCEPT ![d] = Append(@, out)]
        /\ todo' = [todo EXCEPT ![d] = <<job1, job2>>] /\ CreateTmpfiles(d, new)
        /\ new \subseteq FreeNames /\ t \in new
    BY <1>7, <2>1 DEF CompileAndLink, run_cc1, assemble
  <2>3. \/ c.mode = "c" /\ new = {t} /\ out = Output(c, p) /\ ldArgs' = ldArgs
        \/ /\ c.mode = "link" /\ new = {t, out} /\ t # out
           /\ ldArgs' = [ldArgs EXCEPT ![d] = Append(@, out)]
    BY <2>1, <2>2
  <2> QED BY <2>2, <2>3, TwoJobStep
<1>8. CASE MkstempFails(d)
  BY <1>8, ExitAtInput DEF MkstempFails
<1>9. CASE Link(d)
  BY <1>9, LinkStep
<1>10. CASE Return(d)
  BY <1>10, ReturnStep
<1>11. CASE Fork(d)
  BY <1>11, ForkStep
<1>12. CASE ForkFails(d)
  BY <1>12, ForkFailsStep
<1>13. CASE Reap(d)
  BY <1>13, ReapStep
<1>14. CASE Cleanup(d)
  BY <1>14, CleanupStep
<1>15. CASE ChildOpens(d)
  BY <1>15, OpensStep
<1>16. CASE ChildCloses(d)
  BY <1>16, ClosesStep
<1>17. CASE ChildFails(d)
  BY <1>17, FailsStep
<1>18. CASE ShortWrite(d)
  BY <1>18, ShortWriteStep
<1>19. CASE Kill(d)
  BY <1>19, KillStep
<1>20. CASE ChildKilled(d)
  BY <1>20, KilledStep
<1> QED BY <1>1, <1>2, <1>3, <1>4, <1>5, <1>6, <1>7, <1>8, <1>9, <1>10, <1>11, <1>12, <1>13,
           <1>14, <1>15, <1>16, <1>17, <1>18, <1>19, <1>20 DEF DriverStep, ChildStep

\* Nothing happens.
LEMMA Stutter ==
  ASSUME IInv, UNCHANGED vars
  PROVE  IInv'
<1>1. UNCHANGED <<fs, cmd, pc, pos, todo, ldArgs, tmpfiles, child, code, unseen>>
  BY DEF vars
<1>2. /\ DOMAIN fs' = Paths
      /\ DOMAIN cmd' = Drivers /\ DOMAIN pc' = Drivers /\ DOMAIN pos' = Drivers
      /\ DOMAIN todo' = Drivers /\ DOMAIN ldArgs' = Drivers /\ DOMAIN tmpfiles' = Drivers
      /\ DOMAIN child' = Drivers /\ DOMAIN code' = Drivers /\ DOMAIN unseen' = Drivers
  BY <1>1 DEF IInv, Shapes
<1>3. ASSUME NEW e \in Drivers PROVE Shape(e)' /\ Owned(e)' /\ Progress(e)' /\ Kept(e)'
  <2>1. Own(e)' = Own(e) /\ \A p : Matters(e, p) => fs'[p] = fs[p]
    BY <1>1 DEF Own
  <2> QED BY <2>1, Elsewhere
<1>4. Shapes'
  BY <1>2, <1>3 DEF Shapes
<1>5. Apart' /\ SourcesKept' /\ NoTmpfileLeft'
  BY <1>1 DEF IInv, Apart, SourcesKept, NoTmpfileLeft
<1> QED BY <1>3, <1>4, <1>5 DEF IInv

LEMMA Initially ==
  ASSUME Init
  PROVE  IInv
<1>1. /\ \A d \in Drivers : cmd[d] \in Commands[d]
      /\ DOMAIN cmd = Drivers
      /\ fs = [p \in Paths |-> IF p \in TmpNames THEN NoFile
                               ELSE IF p \in Sources THEN Text(p) ELSE Old(p)]
      /\ pc = [d \in Drivers |-> "start"] /\ pos = [d \in Drivers |-> 1]
      /\ todo = [d \in Drivers |-> <<>>] /\ ldArgs = [d \in Drivers |-> <<>>]
      /\ tmpfiles = [d \in Drivers |-> {}] /\ child = [d \in Drivers |-> Idle]
      /\ code = [d \in Drivers |-> 0] /\ unseen = [d \in Drivers |-> FALSE]
  BY DEF Init
<1>2. ASSUME NEW d \in Drivers PROVE Shape(d) /\ Owned(d) /\ Progress(d) /\ Kept(d)
  <2>1. Count(d) \in Nat
    BY <1>1, CommandType DEF Count, Inputs
  <2>2. Shape(d)
    <3>1. ldArgs[d] \in Seq(Range2(Inputs(d)) \cup tmpfiles[d])
      BY <1>1
    <3> QED BY <1>1, <2>1, <3>1, IdleState DEF Shape
  <2>3. Owned(d)
    BY <1>1, IdleState DEF Owned
  <2>4. Progress(d)
    BY <1>1 DEF Progress
  <2>5. Kept(d)
    <3> SUFFICES ASSUME NEW r \in AllProducts(cmd[d]), r[1] # Stdout PROVE Allowed(d, r[1])
      BY DEF Kept
    <3>1. r[1] \in Paths /\ r[1] \notin TmpNames /\ r[1] \notin Sources
      BY <1>1, AllProductPaths
    <3>2. fs[r[1]] = Old(r[1])
      BY <1>1, <3>1
    <3> QED BY <3>2 DEF Allowed
  <2> QED BY <2>2, <2>3, <2>4, <2>5
<1>3. Shapes
  BY <1>1, <1>2 DEF Shapes
<1>4. Apart
  BY <1>1 DEF Apart
<1>5. SourcesKept
  BY <1>1, PathsApart DEF SourcesKept
<1>6. NoTmpfileLeft
  BY <1>1, PathsApart DEF NoTmpfileLeft
<1> QED BY <1>2, <1>3, <1>4, <1>5, <1>6 DEF IInv

\* Whatever the drivers of one directory do, and however they, their children
\* or the signals sent to them interleave (main, run_subprocess, cleanup):
\* what each has in hand is what its command line and its turn ask for.
THEOREM DriverInvariant == Spec => []IInv
<1>1. Init => IInv
  BY Initially
<1>2. IInv /\ [Next]_vars => IInv'
  <2> SUFFICES ASSUME IInv, [Next]_vars PROVE IInv'
    OBVIOUS
  <2>1. CASE Next
    BY <2>1, Steps DEF Next
  <2>2. CASE UNCHANGED vars
    BY <2>2, Stutter
  <2> QED BY <2>1, <2>2
<1> QED BY <1>1, <1>2, PTL DEF Spec

\* The variables of main.c have the values they are declared for.
THEOREM DriverTypeOK == Spec => []TypeOK
<1>1. IInv => TypeOK
  <2> SUFFICES ASSUME IInv PROVE TypeOK
    OBVIOUS
  <2>1. ASSUME NEW d \in Drivers
        PROVE  /\ cmd[d] \in Commands[d]
               /\ pc[d] \in {"start", "loop", "wait", "exit", "done", "killed"}
               /\ pos[d] \in 1 .. Len(Inputs(d)) + 2
               /\ Len(todo[d]) <= 2
               /\ tmpfiles[d] \subseteq TmpNames
               /\ Range2(ldArgs[d]) \subseteq Range2(Inputs(d)) \cup tmpfiles[d]
               /\ pc[d] = "wait" => child[d].state # "none"
               /\ pc[d] \notin {"wait", "killed"} => child[d] = Idle
               /\ code[d] \in {0, 1}
    <3>1. Shape(d)
      BY Facts
    <3>2. Len(todo[d]) <= 2
      <4>1. CASE todo[d] = <<>>
        BY <4>1
      <4>2. CASE \E j : todo[d] = <<j>>
        BY <4>2
      <4>3. CASE \E j, k : todo[d] = <<j, k>>
        BY <4>3
      <4> QED BY <4>1, <4>2, <4>3, TodoJobs
    <3>3. Range2(ldArgs[d]) \subseteq Range2(Inputs(d)) \cup tmpfiles[d]
      <4>1. ldArgs[d] \in Seq(Range2(Inputs(d)) \cup tmpfiles[d])
        BY <3>1 DEF Shape
      <4> SUFFICES ASSUME NEW S, S = Range2(Inputs(d)) \cup tmpfiles[d], NEW k \in DOMAIN ldArgs[d]
                   PROVE  ldArgs[d][k] \in S
        BY DEF Range2
      <4> QED BY <4>1
    <3> QED BY <3>1, <3>2, <3>3 DEF Shape, Count
  <2> QED BY <2>1 DEF IInv, Shapes, TypeOK
<1> QED BY <1>1, DriverInvariant, PTL

\* cleanup, registered with atexit, removes every file create_tmpfile has
\* made, on every way a driver ends but a signal.
THEOREM DriverLeavesNoTmpfile == Spec => []NoTmpfileLeft
<1>1. IInv => NoTmpfileLeft
  BY DEF IInv
<1> QED BY <1>1, DriverInvariant, PTL

\* A driver that ends with status 0 has made each result of its command line,
\* out of the right files and in their order, whatever the other drivers did.
THEOREM DriverSuccess == Spec => []SuccessMeansBuilt
<1>1. IInv => SuccessMeansBuilt
  <2> SUFFICES ASSUME IInv, NEW d \in Drivers, pc[d] = "done", code[d] = 0, ~ unseen[d],
                      NEW c, c = cmd[d], NEW i \in Turns(c), NEW r \in Products(c, i)
               PROVE  \/ r[1] = Stdout
                      \/ fs[r[1]] = r[2]
                      \/ \E j \in Turns(c) : j > i /\ \E q \in Products(c, j) : q[1] = r[1]
    BY DEF SuccessMeansBuilt
  <2>1. Count(d) = Len(c.inputs) /\ Count(d) \in Nat
    BY Facts
  <2> SUFFICES ASSUME NEW n, n = Count(d) + 1
               PROVE  \/ r[1] = Stdout
                      \/ fs[r[1]] = r[2]
                      \/ \E j \in Turns(c) : j > i /\ \E q \in Products(c, j) : q[1] = r[1]
    OBVIOUS
  <2>2. Built(d, n, n)
    BY Facts DEF Progress
  <2>3. Turns(c) = 1 .. n /\ n \in Nat
    BY <2>1 DEF Turns
  <2>4. \A j \in i + 1 .. n : j \in Turns(c) /\ j > i
    BY <2>3
  <2> QED BY <2>2, <2>3, <2>4 DEF Built
<1> QED BY <1>1, DriverInvariant, PTL

-----------------------------------------------------------------------------
(* Where a child was killed *)

\* Why there is the part of a result at p: the child that wrote it was killed,
\* and its driver has that still to see, or has stopped.
Stopped(d, p) ==
  \/ pc[d] = "wait" /\ child[d].state = "failed" /\ child[d].job.out = p
  \/ pc[d] \in {"exit", "done"} /\ code[d] = 1

CutOk(d) ==
  pc[d] # "killed" /\ ~ unseen[d] =>
    /\ \A p \in CutOff(d) : Stopped(d, p)
    /\ \A p, q \in CutOff(d) : p = q

CutInv == \A d \in Drivers : CutOk(d)

LEMMA MarksApart == Torn # Cut /\ NoFile # Cut /\ \A p : Old(p) # Cut
<1>1. Cut.by = "killed" /\ Torn.by = "cut off" /\ \A p : Old(p).by = "earlier"
  BY DEF Cut, Torn, Old
<1> QED BY <1>1, NoFileAssumption

\* No complete result is the part of one.
LEMMA ProductIsWhole ==
  ASSUME NEW d \in Drivers, NEW c \in Commands[d], NEW r \in AllProducts(c)
  PROVE  r[2] # Cut
<1>1. \A s : Made("cc1", s).by = "cc1" /\ Made("as", s).by = "as" /\ Made("ld", s).by = "ld"
  BY DEF Made
<1>2. Cut.by = "killed"
  BY DEF Cut
<1>3. PICK i \in Turns(c) : r \in Products(c, i)
  BY DEF AllProducts
<1>4. CASE i = Len(c.inputs) + 1
  <2>1. r \in Result(Target(c), Made("ld", Linked(c)))
    BY <1>3, <1>4, ProductsOfLink
  <2>2. r[2] = Made("ld", Linked(c))
    BY <2>1 DEF Result
  <2> QED BY <1>1, <1>2, <2>2
<1>5. CASE i \in 1 .. Len(c.inputs)
  <2> SUFFICES ASSUME NEW p, p = c.inputs[i] PROVE r[2] # Cut
    OBVIOUS
  <2>1. c.mode \in {"E", "S", "c", "link"}
    BY CommandType DEF CommandLines, Modes
  <2>2. Type(c, p) \in {"library", "c", "assembler", "unknown"}
    BY <1>5, ProductsOfTurn
  <2>3. r[2] \in {Compiled(p), Object(p), Made("as", <<Text(p)>>)}
    <3>1. \A path, x : r \in Result(path, x) => r[2] = x
      BY DEF Result
    <3>2. CASE Type(c, p) \in {"library", "unknown"}
      BY <1>3, <1>5, <3>2, ProductsOfTurn
    <3>3. CASE Type(c, p) = "c"
      <4>1. \/ Products(c, i) = Result(Output(c, p), Compiled(p))
            \/ Products(c, i) = Result(Output(c, p), Object(p))
            \/ Products(c, i) = {}
        BY <1>5, <2>1, <3>3, ProductsOfTurn
      <4> QED BY <1>3, <3>1, <4>1
    <3>4. CASE Type(c, p) = "assembler"
      <4>1. \/ Products(c, i) = Result(Output(c, p), Made("as", <<Text(p)>>))
            \/ Products(c, i) = {}
        BY <1>5, <2>1, <3>4, ProductsOfTurn
      <4> QED BY <1>3, <3>1, <4>1
    <3> QED BY <2>2, <3>2, <3>3, <3>4
  <2> QED BY <1>1, <1>2, <2>3 DEF Compiled, Object
<1> QED BY <1>3, <1>4, <1>5, CommandType DEF Turns

\* A path is cut off that was so before or is written now.
LEMMA CutBefore ==
  ASSUME IInv, NEW d \in Drivers, cmd' = cmd, NEW p \in CutOff(d)'
  PROVE  /\ p # Stdout /\ fs'[p] = Cut /\ p \in Paths /\ p \notin TmpNames
         /\ \E r \in AllProducts(cmd[d]) : r[1] = p
         /\ Matters(d, p)
         /\ fs'[p] = fs[p] => p \in CutOff(d)
<1>1. /\ p # Stdout /\ fs'[p] = Cut
      /\ \E r \in AllProducts(cmd[d]) : r[1] = p
  BY DEF CutOff
<1>2. p \in Paths /\ p \notin TmpNames
  BY <1>1, Facts, AllProductPaths
<1>3. Matters(d, p)
  BY <1>1 DEF Matters
<1>4. ASSUME fs'[p] = fs[p] PROVE p \in CutOff(d)
  BY <1>1, <1>4 DEF CutOff
<1> QED BY <1>1, <1>2, <1>3, <1>4

\* A driver writes to no result, and has something cut off only where it is about
\* to see it or has stopped.
LEMMA DriverWrites ==
  ASSUME IInv, NEW d \in Drivers, DriverStep(d)
  PROVE  /\ cmd' = cmd
         /\ \A p \in Paths \ TmpNames : fs'[p] = fs[p]
         /\ \A e \in Drivers \ {d} : /\ pc'[e] = pc[e] /\ child'[e] = child[e]
                                     /\ code'[e] = code[e] /\ unseen'[e] = unseen[e]
         /\ ~ unseen'[d] => ~ unseen[d]
         /\ \/ pc[d] \in {"start", "loop"}
            \/ pc[d] = "wait" /\ child[d].state = "ok"
            \/ pc[d] = "wait" /\ pc'[d] = "exit" /\ code'[d] = 1
            \/ pc[d] = "exit" /\ pc'[d] = "done" /\ code'[d] = code[d]
<1>1. /\ DOMAIN pc = Drivers /\ DOMAIN child = Drivers /\ DOMAIN code = Drivers
      /\ DOMAIN unseen = Drivers /\ tmpfiles[d] \subseteq TmpNames
  BY Facts
<1> DEFINE Others == \A e \in Drivers \ {d} : /\ pc'[e] = pc[e] /\ child'[e] = child[e]
                                              /\ code'[e] = code[e] /\ unseen'[e] = unseen[e]
<1>2. CASE Start(d) \/ Link(d) \/ Return(d) \/ Fork(d)
  <2>1. cmd' = cmd /\ fs' = fs /\ unseen' = unseen /\ pc[d] \in {"start", "loop"}
    BY <1>2 DEF Start, Link, Return, Fork
  <2>2. Others
    BY <1>1, <1>2 DEF Start, Link, Return, Fork, Exit
  <2> QED BY <2>1, <2>2
<1>3. CASE ForkFails(d)
  <2>1. /\ cmd' = cmd /\ fs' = fs /\ pc[d] = "loop" /\ child' = child
        /\ unseen' = [unseen EXCEPT ![d] = TRUE]
    BY <1>3 DEF ForkFails
  <2>2. Others
    BY <1>1, <1>3, <2>1 DEF ForkFails, Exit
  <2>3. unseen'[d]
    BY <1>1, <2>1
  <2> QED BY <2>1, <2>2, <2>3
<1>4. CASE Library(d) \/ Unknown(d) \/ Assembly(d) \/ CompileOnly(d) \/ MkstempFails(d)
  <2>1. /\ \E type : AtInput(d, type)
        /\ fs' = fs
        /\ \/ code' = code /\ pc' = pc
           \/ Exit(d, 1)
    BY <1>4 DEF Library, Unknown, Assembly, CompileOnly, MkstempFails
  <2>2. pc[d] = "loop" /\ cmd' = cmd /\ child' = child /\ unseen' = unseen
    BY <2>1 DEF AtInput
  <2>3. Others
    BY <1>1, <2>1, <2>2 DEF Exit
  <2> QED BY <2>1, <2>2, <2>3
<1>5. CASE CompileAndAssemble(d) \/ CompileAndLink(d)
  <2>1. /\ AtInput(d, "c") /\ pc' = pc /\ code' = code
        /\ \E new : new \subseteq TmpNames /\ CreateTmpfiles(d, new)
    <3>1. FreeNames \subseteq TmpNames
      BY DEF FreeNames
    <3>2. CASE CompileAndAssemble(d)
      <4>1. PICK t \in FreeNames : CreateTmpfiles(d, {t})
        BY <3>2 DEF CompileAndAssemble
      <4>2. {t} \subseteq TmpNames
        BY <3>1
      <4> QED BY <3>2, <4>1, <4>2 DEF CompileAndAssemble
    <3>3. CASE CompileAndLink(d)
      <4>1. PICK t1, t2 \in FreeNames : CreateTmpfiles(d, {t1, t2})
        BY <3>3 DEF CompileAndLink
      <4>2. {t1, t2} \subseteq TmpNames
        BY <3>1
      <4> QED BY <3>3, <4>1, <4>2 DEF CompileAndLink
    <3> QED BY <1>5, <3>2, <3>3
  <2>2. pc[d] = "loop" /\ cmd' = cmd /\ child' = child /\ unseen' = unseen
    BY <2>1 DEF AtInput
  <2>3. \A p \in Paths \ TmpNames : fs'[p] = fs[p]
    BY <2>1 DEF CreateTmpfiles
  <2> QED BY <2>1, <2>2, <2>3
<1>6. CASE Reap(d)
  <2>1. /\ pc[d] = "wait" /\ cmd' = cmd /\ fs' = fs /\ unseen' = unseen
        /\ child' = [child EXCEPT ![d] = Idle]
        /\ \/ child[d].state = "ok" /\ pc' = [pc EXCEPT ![d] = "loop"] /\ code' = code
           \/ pc' = [pc EXCEPT ![d] = "exit"] /\ code' = [code EXCEPT ![d] = 1]
    BY <1>6 DEF Reap, Exit
  <2>2. Others
    BY <1>1, <2>1
  <2>3. child[d].state = "ok" \/ (pc'[d] = "exit" /\ code'[d] = 1)
    BY <1>1, <2>1
  <2> QED BY <2>1, <2>2, <2>3
<1>7. CASE Cleanup(d)
  <2>1. /\ pc[d] = "exit" /\ pc' = [pc EXCEPT ![d] = "done"]
        /\ \A p \in Paths \ TmpNames : fs'[p] = fs[p]
        /\ cmd' = cmd /\ child' = child /\ code' = code /\ unseen' = unseen
    BY <1>1, <1>7 DEF Cleanup
  <2>2. Others /\ pc'[d] = "done"
    BY <1>1, <2>1
  <2> QED BY <2>1, <2>2
<1> QED BY <1>2, <1>3, <1>4, <1>5, <1>6, <1>7 DEF DriverStep

LEMMA CutByDriver ==
  ASSUME IInv, CutInv, NEW d \in Drivers, DriverStep(d), NEW e \in Drivers
  PROVE  CutOk(e)'
<1>1. /\ cmd' = cmd
      /\ \A p \in Paths \ TmpNames : fs'[p] = fs[p]
      /\ e # d => /\ pc'[e] = pc[e] /\ child'[e] = child[e]
                  /\ code'[e] = code[e] /\ unseen'[e] = unseen[e]
      /\ ~ unseen'[d] => ~ unseen[d]
      /\ \/ pc[d] \in {"start", "loop"}
         \/ pc[d] = "wait" /\ child[d].state = "ok"
         \/ pc[d] = "wait" /\ pc'[d] = "exit" /\ code'[d] = 1
         \/ pc[d] = "exit" /\ pc'[d] = "done" /\ code'[d] = code[d]
  BY DriverWrites
<1>2. \A p \in CutOff(e)' : p \in CutOff(e)
  <2> SUFFICES ASSUME NEW p \in CutOff(e)' PROVE p \in CutOff(e)
    OBVIOUS
  <2>1. p \in Paths \ TmpNames /\ (fs'[p] = fs[p] => p \in CutOff(e))
    BY <1>1, CutBefore
  <2> QED BY <1>1, <2>1
<1>3. CutOk(e)
  BY DEF CutInv
<1>4. CASE e # d
  BY <1>1, <1>2, <1>3, <1>4 DEF CutOk, Stopped
<1>5. CASE e = d
  <2> SUFFICES ASSUME ~ unseen'[d]
               PROVE  /\ \A p \in CutOff(d)' : Stopped(d, p)'
                      /\ \A p, q \in CutOff(d)' : p = q
    BY <1>5 DEF CutOk
  <2>1. /\ \A p \in CutOff(d) : Stopped(d, p)
        /\ \A p, q \in CutOff(d) : p = q
    BY <1>1, <1>3, <1>5 DEF CutOk
  <2>2. CASE pc[d] \in {"start", "loop"} \/ (pc[d] = "wait" /\ child[d].state = "ok")
    <3>1. \A p : ~ Stopped(d, p)
      BY <2>2 DEF Stopped
    <3> QED BY <1>2, <1>5, <2>1, <3>1
  <2>3. CASE pc[d] = "wait" /\ pc'[d] = "exit" /\ code'[d] = 1
    BY <1>2, <1>5, <2>1, <2>3 DEF Stopped
  <2>4. CASE pc[d] = "exit" /\ pc'[d] = "done" /\ code'[d] = code[d]
    BY <1>2, <1>5, <2>1, <2>4 DEF Stopped
  <2> QED BY <1>1, <2>2, <2>3, <2>4
<1> QED BY <1>4, <1>5

\* What a child can write, and how it leaves Cut.
LEMMA ChildWrites ==
  ASSUME IInv, NEW d \in Drivers, ChildStep(d), NEW job, job = child[d].job
  PROVE  /\ child[d].state \in {"running", "writing"}
         /\ UNCHANGED <<cmd, pc, code>>
         /\ \A p \in Paths \ {job.out} : fs'[p] = fs[p]
         /\ \A e \in Drivers \ {d} : child'[e] = child[e] /\ unseen'[e] = unseen[e]
         /\ ~ unseen'[d] => ~ unseen[d]
         /\ \/ fs'[job.out] = fs[job.out]
            \/ fs'[job.out] \in {Torn, NoFile}
            \/ child[d].state = "writing" /\ fs'[job.out] = child[d].made
            \/ child'[d].state = "failed" /\ child'[d].job = job
<1>1. child[d].state \in {"running", "writing"} /\ UNCHANGED <<cmd, pc, code>>
  BY DEF ChildStep, ChildOpens, ChildCloses, ChildFails, ChildKilled, ShortWrite
<1>2. /\ DOMAIN child = Drivers /\ DOMAIN unseen = Drivers /\ DOMAIN fs = Paths
      /\ job.out \in Paths
      /\ child[d] = [job |-> job, state |-> child[d].state, made |-> child[d].made]
  BY <1>1, Facts, ChildFacts, ReadsPaths
<1>3. CASE ChildOpens(d)
  <2>1. PICK m : child' = [child EXCEPT ![d].state = "writing", ![d].made = m]
    BY <1>3 DEF ChildOpens
  <2>2. unseen' = unseen /\ (fs' = fs \/ fs' = [fs EXCEPT ![job.out] = Torn])
    BY <1>3 DEF ChildOpens
  <2> QED BY <1>1, <1>2, <2>1, <2>2
<1>4. CASE ChildCloses(d)
  <2>1. /\ child[d].state = "writing" /\ child' = [child EXCEPT ![d].state = "ok"]
        /\ unseen' = unseen
        /\ fs' = fs \/ fs' = [fs EXCEPT ![job.out] = child[d].made]
    BY <1>4 DEF ChildCloses, ToChild
  <2> QED BY <1>1, <1>2, <2>1
<1>5. CASE ChildFails(d)
  <2>1. /\ child' = [child EXCEPT ![d].state = "failed"]
        /\ unseen' = unseen
        /\ fs' = fs \/ fs' = [fs EXCEPT ![job.out] = NoFile]
    BY <1>5 DEF ChildFails, ToChild
  <2> QED BY <1>1, <1>2, <2>1
<1>6. CASE ChildKilled(d)
  <2>1. /\ child' = [child EXCEPT ![d].state = "failed"]
        /\ unseen' = unseen
        /\ fs' = fs \/ fs' = [fs EXCEPT ![job.out] = Cut]
    BY <1>6 DEF ChildKilled, ToChild
  <2>2. child'[d].state = "failed" /\ child'[d].job = job
    <3>1. child'[d] = [child[d] EXCEPT !.state = "failed"]
      BY <1>2, <2>1
    <3>2. child'[d] = [job |-> job, state |-> "failed", made |-> child[d].made]
      BY <1>2, <3>1, NextState
    <3> QED BY <3>2
  <2> QED BY <1>1, <1>2, <2>1, <2>2
<1>7. CASE ShortWrite(d)
  <2>1. /\ \E state : child' = [child EXCEPT ![d].state = state]
        /\ unseen' = unseen \/ unseen' = [unseen EXCEPT ![d] = TRUE]
        /\ fs' = fs \/ fs' = [fs EXCEPT ![job.out] = NoFile]
    BY <1>7 DEF ShortWrite, ToChild
  <2> QED BY <1>1, <1>2, <2>1
<1> QED BY <1>3, <1>4, <1>5, <1>6, <1>7 DEF ChildStep

LEMMA CutByChild ==
  ASSUME IInv, CutInv, NEW d \in Drivers, ChildStep(d), NEW e \in Drivers
  PROVE  CutOk(e)'
<1> SUFFICES ASSUME NEW job, job = child[d].job, NEW out, out = job.out PROVE CutOk(e)'
  OBVIOUS
<1>1. /\ child[d].state \in {"running", "writing"}
      /\ UNCHANGED <<cmd, pc, code>>
      /\ \A p \in Paths \ {out} : fs'[p] = fs[p]
      /\ e # d => child'[e] = child[e] /\ unseen'[e] = unseen[e]
      /\ ~ unseen'[d] => ~ unseen[d]
      /\ \/ fs'[out] = fs[out]
         \/ fs'[out] \in {Torn, NoFile}
         \/ child[d].state = "writing" /\ fs'[out] = child[d].made
         \/ child'[d].state = "failed" /\ child'[d].job = job
  BY ChildWrites
<1>2. pc[d] \in {"wait", "killed"} /\ Within(d, job)
  BY <1>1, ChildFacts
<1>3. CutOk(e)
  BY DEF CutInv
<1>4. \A p \in CutOff(e)' : p # out => p \in CutOff(e)
  <2> SUFFICES ASSUME NEW p \in CutOff(e)', p # out PROVE p \in CutOff(e)
    OBVIOUS
  <2>1. p \in Paths /\ (fs'[p] = fs[p] => p \in CutOff(e))
    BY <1>1, CutBefore
  <2> QED BY <1>1, <2>1
<1>5. CASE e # d
  <2>1. \A p \in CutOff(e)' : p # out
    <3>1. ~ Matters(e, out)
      BY <1>2, <1>5, OutIsOwn DEF Within
    <3> QED BY <1>1, <3>1, CutBefore
  <2> QED BY <1>1, <1>3, <1>4, <1>5, <2>1 DEF CutOk, Stopped
<1>6. CASE e = d
  <2> SUFFICES ASSUME pc[d] = "wait", ~ unseen'[d]
               PROVE  /\ \A p \in CutOff(d)' : Stopped(d, p)'
                      /\ \A p, q \in CutOff(d)' : p = q
    BY <1>1, <1>2, <1>6 DEF CutOk
  <2>1. \A p : p \notin CutOff(d)
    BY <1>1, <1>3, <1>6 DEF CutOk, Stopped
  <2>2. \A p \in CutOff(d)' : p = out
    BY <1>4, <1>6, <2>1
  <2>3. ASSUME out \in CutOff(d)' PROVE Stopped(d, out)'
    <3>1. /\ fs'[out] = Cut /\ (fs'[out] = fs[out] => out \in CutOff(d))
          /\ \E r \in AllProducts(cmd[d]) : r[1] = out
      BY <1>1, <2>3, CutBefore
    <3>2. ASSUME child[d].state = "writing" PROVE child[d].made # Cut
      <4>1. child[d].made = Makes(job)
        <5>1. ChildOnCourse(d)
          BY <1>1, Facts DEF Progress
        <5> QED BY <3>2, <5>1 DEF ChildOnCourse
      <4>2. <<out, Makes(job)>> \in AllProducts(cmd[d])
        BY <1>1, <3>1, ResultOfTurn
      <4>3. <<out, Makes(job)>>[2] # Cut
        BY <4>2, Facts, ProductIsWhole
      <4> QED BY <4>1, <4>3
    <3>3. child'[d].state = "failed" /\ child'[d].job = job
      BY <1>1, <2>1, <3>1, <3>2, MarksApart
    <3> QED BY <1>1, <3>3 DEF Stopped
  <2> QED BY <2>2, <2>3
<1> QED BY <1>5, <1>6

LEMMA CutByKill ==
  ASSUME IInv, CutInv, NEW d \in Drivers, Kill(d), NEW e \in Drivers
  PROVE  CutOk(e)'
<1>1. /\ DOMAIN pc = Drivers /\ pc' = [pc EXCEPT ![d] = "killed"]
      /\ UNCHANGED <<fs, cmd, child, code, unseen>>
  BY Facts DEF Kill
<1>2. CASE e = d
  BY <1>1, <1>2 DEF CutOk
<1>3. CASE e # d
  <2>1. pc'[e] = pc[e] /\ CutOff(e)' = CutOff(e) /\ CutOk(e)
    BY <1>1, <1>3 DEF CutInv, CutOff
  <2> QED BY <1>1, <2>1 DEF CutOk, Stopped
<1> QED BY <1>2, <1>3

\* The part of a result is at one path at most, and its driver stops for it.
LEMMA DriverCut == Spec => []CutInv
<1>1. Init => CutInv
  <2> SUFFICES ASSUME Init, NEW d \in Drivers, NEW p \in CutOff(d) PROVE FALSE
    BY DEF CutInv, CutOk
  <2>1. IInv
    BY Initially
  <2>2. fs[p] = Cut /\ p \in Paths /\ p \notin TmpNames /\ p \notin Sources
    <3>1. PICK r \in AllProducts(cmd[d]) : r[1] = p /\ p # Stdout /\ fs[p] = Cut
      BY DEF CutOff
    <3> QED BY <2>1, <3>1, Facts, AllProductPaths
  <2>3. fs[p] = Old(p)
    BY <2>2 DEF Init
  <2> QED BY <2>2, <2>3, MarksApart
<1>2. IInv /\ CutInv /\ [Next]_vars => CutInv'
  <2> SUFFICES ASSUME IInv, CutInv, [Next]_vars, NEW e \in Drivers PROVE CutOk(e)'
    BY DEF CutInv
  <2>1. CASE Next
    BY <2>1, CutByDriver, CutByChild, CutByKill DEF Next
  <2>2. CASE UNCHANGED vars
    <3>1. CutOff(e)' = CutOff(e) /\ CutOk(e)
      BY <2>2 DEF CutInv, CutOff, vars
    <3> QED BY <2>2, <3>1 DEF CutOk, Stopped, vars
  <2> QED BY <2>1, <2>2
<1> QED BY <1>1, <1>2, DriverInvariant, PTL DEF Spec

\* A driver that fails leaves what was there or a complete result in the place
\* of each of its results, and removes one only by the assembler or linker; the
\* part of a result is left where a child was killed as it wrote it
\* (main.c:621-623), at one path, and the driver then ends with status 1.
THEOREM DriverFailure == Spec => []FailureKeepsOutputs
<1>1. IInv /\ CutInv => FailureKeepsOutputs
  <2> SUFFICES ASSUME IInv, CutInv, NEW d \in Drivers, pc[d] = "done", ~ unseen[d]
               PROVE  /\ \A r \in AllProducts(cmd[d]) :
                           \/ r[1] = Stdout
                           \/ fs[r[1]] \in {q[2] : q \in {q \in AllProducts(cmd[d]) : q[1] = r[1]}}
                           \/ fs[r[1]] = Old(r[1])
                           \/ /\ fs[r[1]] = NoFile
                              /\ \E q \in AllProducts(cmd[d]) : q[1] = r[1] /\ q[2].by # "cc1"
                           \/ r[1] \in CutOff(d)
                      /\ CutOff(d) # {} => code[d] = 1 /\ \E p \in Paths : CutOff(d) = {p}
    BY DEF FailureKeepsOutputs
  <2>1. ASSUME NEW r \in AllProducts(cmd[d]), r[1] # Stdout
        PROVE  \/ fs[r[1]] \in {q[2] : q \in {q \in AllProducts(cmd[d]) : q[1] = r[1]}}
               \/ fs[r[1]] = Old(r[1])
               \/ /\ fs[r[1]] = NoFile
                  /\ \E q \in AllProducts(cmd[d]) : q[1] = r[1] /\ q[2].by # "cc1"
               \/ r[1] \in CutOff(d)
    <3>1. Allowed(d, r[1])
      BY <2>1, Facts DEF Kept
    <3>2. fs[r[1]] = Cut => r[1] \in CutOff(d)
      BY <2>1 DEF CutOff
    <3> QED BY <3>1, <3>2 DEF Allowed
  <2>2. ASSUME CutOff(d) # {} PROVE code[d] = 1 /\ \E p \in Paths : CutOff(d) = {p}
    <3>1. PICK p : p \in CutOff(d)
      BY <2>2
    <3>2. Stopped(d, p) /\ \A q \in CutOff(d) : q = p
      BY <3>1 DEF CutInv, CutOk
    <3>3. p \in Paths
      <4>1. \E r \in AllProducts(cmd[d]) : r[1] = p
        BY <3>1 DEF CutOff
      <4> QED BY <4>1, Facts, AllProductPaths
    <3> QED BY <3>1, <3>2, <3>3 DEF Stopped
  <2> QED BY <2>1, <2>2
<1> QED BY <1>1, DriverInvariant, DriverCut, PTL
=============================================================================
