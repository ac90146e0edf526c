--------------------------- MODULE AtomicOpProofs ---------------------------
(* The code for an `_Atomic int` implements an atomic object, for every    *)
(* number of threads, every word size and every set of calls.              *)
EXTENDS AtomicOp, TLAPS

-----------------------------------------------------------------------------
(* Words.                                                                  *)

\* v is a value of the object's type.
InType(v) == v \in Int /\ Sext(Low(v)) = v

\* Reducing modulo the word is reducing the value by whole words.
LEMMA LowOfShift ==
  ASSUME NEW u \in 0 .. WORD - 1
  PROVE  Low(u) = u /\ Low(u - WORD) = u
<1> DEFINE c == WORD
<1>1. c \in Nat \ {0}
  BY HalfAssumption, SMT DEF WORD
<1>2. u % c = u
  BY <1>1, SMT
<1>3. (u - c) % c = u
  BY <1>1, SMT
<1> QED
  BY <1>2, <1>3 DEF Low

\* Truncating a C value to int gives a value of type int.
LEMMA NarrowInType ==
  ASSUME Kind = "int", NEW v \in Int
  PROVE  InType(Narrow(v))
<1> DEFINE u == Low(v)
<1>1. WORD \in Nat \ {0} /\ HALF \in Nat \ {0}
  BY HalfAssumption, SMT DEF WORD
<1>2. u \in 0 .. WORD - 1
  BY <1>1, SMT DEF Low
<1>3. Narrow(v) = Sext(u)
  BY DEF Narrow
<1> HIDE DEF u
<1>4. Low(Sext(u)) = u
  BY <1>2, LowOfShift DEF Sext
<1>5. Sext(u) \in Int
  BY <1>1, <1>2, SMT DEF Sext
<1> QED
  BY <1>3, <1>4, <1>5 DEF InType

\* On values of type int, the word operations are the C ones.
LEMMA WordFacts ==
  ASSUME Kind = "int"
  PROVE  /\ \A v : InType(v) => LoadReserved(v) = v /\ Narrow(v) = v
         /\ \A v, w : InType(w) => Splice(v, w) = w
         /\ \A v, w : InType(v) /\ InType(w) /\ Low(v) = Low(w) => v = w
  BY DEF InType, LoadReserved, Narrow, Splice

-----------------------------------------------------------------------------
(* The inductive invariant.                                                *)

InLoop == {"lr", "sc", "return"}

\* What one thread may rely on between two of its instructions.
ThreadOK(t) ==
  /\ pc[t] = "body" => call[t].op = "add" /\ InType(old[t])
  /\ pc[t] \in InLoop =>
       /\ InType(old[t])
       /\ InType(new[t])
       /\ \/ call[t].op = "add" /\ new[t] = Narrow(old[t] + call[t].arg)
          \/ call[t].op = "cas" /\ new[t] = Narrow(call[t].arg)
                                /\ old[t] = Narrow(call[t].expected)
  /\ pc[t] = "sc" => t4[t] = old[t]
  /\ pc[t] = "sc" /\ t \in reserved => mem = old[t]
  /\ pc[t] = "return" => InType(t4[t])

IInv == /\ TypeOK
        /\ InType(mem)
        /\ \A t \in Threads : ThreadOK(t)

\* The initial state satisfies the invariant.
LEMMA InitIInv ==
  ASSUME Kind = "int"
  PROVE  Init => IInv
<1> SUFFICES ASSUME Init PROVE IInv
  OBVIOUS
<1>1. TypeOK
  BY StartAssumption DEF Init, TypeOK
<1>2. InType(mem)
  BY StartAssumption DEF Init, InType, Narrow
<1>3. \A t \in Threads : ThreadOK(t)
  BY DEF Init, ThreadOK, InLoop
<1> QED
  BY <1>1, <1>2, <1>3 DEF IInv

\* The call of a thread is a call.
LEMMA CallType ==
  ASSUME TypeOK, NEW t \in Threads
  PROVE  /\ call[t] \in Call
         /\ call[t].arg \in Int
         /\ call[t].expected \in Int
         /\ call[t].op \in {"add", "exchange", "store", "cas"}
  BY CallsAssumption DEF TypeOK, Call

\* Every step keeps the types.
LEMMA ThreadTypeOK ==
  ASSUME Kind = "int", IInv, NEW t \in Threads, Thread(t)
  PROVE  TypeOK' /\ InType(mem')
<1>1. /\ TypeOK /\ InType(mem) /\ ThreadOK(t)
      /\ call[t].arg \in Int /\ call[t].expected \in Int
      /\ mem \in Int /\ old[t] \in Int /\ new[t] \in Int /\ t4[t] \in Int
  BY CallType DEF IInv, TypeOK
<1>2. \A v \in Int : Narrow(v) \in Int /\ InType(Narrow(v))
  BY NarrowInType DEF InType
<1>3. CASE ReadOld(t)
  BY <1>1, <1>3 DEF ReadOld, TypeOK
<1>4. CASE ComputeNew(t)
  <2>1. Narrow(old[t] + call[t].arg) \in Int
    BY <1>1, <1>2
  <2> QED
    BY <1>1, <1>4, <2>1 DEF ComputeNew, TypeOK
<1>5. CASE EnterCas(t)
  BY <1>1, <1>2, <1>5 DEF EnterCas, TypeOK
<1>6. CASE Reserve(t)
  <2>1. LoadReserved(mem) \in Int
    BY <1>1, WordFacts
  <2> QED
    BY <1>1, <1>6, <2>1 DEF Reserve, TypeOK
<1>7. CASE StoreConditional(t)
  <2>1. mem' = new[t] /\ InType(new[t])
    BY <1>1, <1>7, WordFacts DEF StoreConditional, ThreadOK, InLoop
  <2> QED
    BY <1>1, <1>7, <2>1 DEF StoreConditional, TypeOK
<1>8. CASE StoreFails(t)
  BY <1>1, <1>8 DEF StoreFails, TypeOK
<1>9. CASE CasTrue(t)
  BY <1>1, <1>9 DEF CasTrue, TypeOK
<1>10. CASE CasFalse(t)
  <2>1. InType(t4[t])
    BY <1>1, <1>10 DEF CasFalse, ThreadOK
  <2>2. Splice(old[t], t4[t]) \in Int
    BY <2>1, WordFacts DEF InType
  <2> QED
    BY <1>1, <1>10, <2>2 DEF CasFalse, TypeOK
<1>11. CASE Exchange(t)
  BY <1>1, <1>2, <1>11 DEF Exchange, TypeOK
<1>12. CASE PlainStore(t)
  BY <1>1, <1>2, <1>12 DEF PlainStore, TypeOK
<1> QED
  BY <1>3, <1>4, <1>5, <1>6, <1>7, <1>8, <1>9, <1>10, <1>11, <1>12 DEF Thread

\* A step of t keeps what t relies on.
LEMMA OwnThreadOK ==
  ASSUME Kind = "int", IInv, NEW t \in Threads, Thread(t)
  PROVE  ThreadOK(t)'
<1>1. /\ TypeOK /\ InType(mem) /\ ThreadOK(t)
      /\ call[t].arg \in Int /\ call[t].expected \in Int
      /\ mem \in Int /\ old[t] \in Int
  BY CallType DEF IInv, TypeOK
<1>2. \A v \in Int : InType(Narrow(v))
  BY NarrowInType
<1>3. CASE ReadOld(t)
  BY <1>1, <1>3 DEF ReadOld, TypeOK, ThreadOK, InLoop, InType
<1>4. CASE ComputeNew(t)
  <2>1. InType(Narrow(old[t] + call[t].arg))
    BY <1>1, <1>2
  <2>2. pc'[t] = "lr" /\ new'[t] = Narrow(old[t] + call[t].arg) /\ old'[t] = old[t] /\ call' = call
    BY <1>1, <1>4 DEF ComputeNew, TypeOK
  <2> QED
    BY <1>1, <1>4, <2>1, <2>2 DEF ComputeNew, ThreadOK, InLoop, InType
<1>5. CASE EnterCas(t)
  <2>1. /\ pc'[t] = "lr" /\ call' = call
        /\ new'[t] = Narrow(call[t].arg) /\ old'[t] = Narrow(call[t].expected)
    BY <1>1, <1>5 DEF EnterCas, TypeOK
  <2> QED
    BY <1>1, <1>2, <1>5, <2>1 DEF EnterCas, ThreadOK, InLoop, InType
<1>6. CASE Reserve(t)
  <2>1. LoadReserved(mem) = mem
    BY <1>1, WordFacts
  <2>2. /\ t4'[t] = mem /\ mem' = mem /\ call' = call /\ old' = old /\ new' = new
        /\ pc[t] = "lr"
        /\ pc'[t] = IF mem # old[t] THEN "return" ELSE "sc"
    BY <1>1, <1>6, <2>1 DEF Reserve, TypeOK, TakenBne
  <2> QED
    BY <1>1, <2>2 DEF ThreadOK, InLoop, InType
<1>7. CASE StoreConditional(t)
  <2>1. pc[t] = "sc" /\ pc'[t] = "return" /\ UNCHANGED <<call, old, new, t4>>
    BY <1>1, <1>7 DEF StoreConditional, TypeOK
  <2> QED
    BY <1>1, <2>1 DEF ThreadOK, InLoop, InType
<1>8. CASE StoreFails(t)
  <2>1. pc[t] = "sc" /\ pc'[t] = "lr" /\ UNCHANGED <<call, old, new, t4>>
    BY <1>1, <1>8 DEF StoreFails, TypeOK
  <2> QED
    BY <1>1, <2>1 DEF ThreadOK, InLoop, InType
<1>9. CASE CasTrue(t)
  BY <1>1, <1>9 DEF CasTrue, TypeOK, ThreadOK, InLoop
<1>10. CASE CasFalse(t)
  <2>1. Splice(old[t], t4[t]) = t4[t] /\ InType(t4[t])
    BY <1>1, <1>10, WordFacts DEF CasFalse, ThreadOK
  <2>2. /\ call' = call /\ old'[t] = t4[t]
        /\ pc'[t] = IF call[t].op = "add" THEN "body" ELSE "done"
    BY <1>1, <1>10, <2>1 DEF CasFalse, TypeOK
  <2> QED
    BY <2>1, <2>2 DEF ThreadOK, InLoop, InType
<1>11. CASE Exchange(t)
  BY <1>1, <1>11 DEF Exchange, TypeOK, ThreadOK, InLoop
<1>12. CASE PlainStore(t)
  BY <1>1, <1>12 DEF PlainStore, TypeOK, ThreadOK, InLoop
<1> QED
  BY <1>3, <1>4, <1>5, <1>6, <1>7, <1>8, <1>9, <1>10, <1>11, <1>12 DEF Thread

\* A step of t leaves another thread alone: a store to the object ends the
\* other thread's reservation with it.
LEMMA OtherThreadOK ==
  ASSUME Kind = "int", IInv, NEW t \in Threads, Thread(t),
         NEW s \in Threads, s # t
  PROVE  ThreadOK(s)'
<1>1. TypeOK /\ ThreadOK(s)
  BY DEF IInv
<1>2. /\ pc'[s] = pc[s] /\ call' = call /\ old'[s] = old[s] /\ new'[s] = new[s]
      /\ t4'[s] = t4[s]
  BY <1>1 DEF TypeOK, Thread, ReadOld, ComputeNew, EnterCas, Reserve, StoreConditional,
              StoreFails, CasTrue, CasFalse, Exchange, PlainStore
<1>3. s \in reserved' => s \in reserved /\ mem' = mem
  BY DEF Thread, ReadOld, ComputeNew, EnterCas, Reserve, StoreConditional,
         StoreFails, CasTrue, CasFalse, Exchange, PlainStore
<1> QED
  BY <1>1, <1>2, <1>3 DEF ThreadOK, InLoop, InType

\* IInv is an invariant of the code for an int.
THEOREM AtomicOpInvariant ==
  ASSUME Kind = "int"
  PROVE  Spec => []IInv
<1>1. Init => IInv
  BY InitIInv
<1>2. IInv /\ [Next]_vars => IInv'
  <2> SUFFICES ASSUME IInv, [Next]_vars PROVE IInv'
    OBVIOUS
  <2>1. CASE Next
    <3>1. PICK t \in Threads : Thread(t)
      BY <2>1 DEF Next
    <3>2. TypeOK' /\ InType(mem')
      BY <3>1, ThreadTypeOK
    <3>3. \A s \in Threads : ThreadOK(s)'
      BY <3>1, OwnThreadOK, OtherThreadOK
    <3> QED
      BY <3>2, <3>3 DEF IInv, InType
  <2>2. CASE UNCHANGED vars
    BY <2>2 DEF vars, IInv, TypeOK, ThreadOK, InLoop, InType
  <2> QED
    BY <2>1, <2>2
<1> QED
  BY <1>1, <1>2, PTL DEF Spec

\* The variables keep their types.
THEOREM AtomicOpTypeOK ==
  ASSUME Kind = "int"
  PROVE  Spec => []TypeOK
<1>1. IInv => TypeOK
  BY DEF IInv
<1> QED
  BY <1>1, AtomicOpInvariant, PTL

-----------------------------------------------------------------------------
(* Refinement.                                                             *)

Results == [t \in Threads |-> Decided(t)]

\* What a call does, in the words of the code.
LEMMA ApplyIs ==
  ASSUME NEW c, NEW v
  PROVE  Object!Apply(c, v) = Apply(c, v)
  BY DEF Object!Apply, Object!Outcome, Object!Narrow, Object!Sext, Object!Low, Object!WORD,
         Apply, Outcome, Narrow, Sext, Low, WORD

\* The two parts of an outcome.
LEMMA OutcomeIs ==
  ASSUME NEW n, NEW b, NEW r
  PROVE  Outcome(n, b, r).next = n /\ Outcome(n, b, r).result = <<b, r>>
  BY DEF Outcome

\* No call has a result at the start.
LEMMA InitRefines == Init => Object!Init
  BY DEF Init, Object!Init, Decided, Object!Pending, Pending

\* The results of the other threads are not touched by a step of t.
LEMMA OthersUndecided ==
  ASSUME IInv, NEW t \in Threads, Thread(t), NEW s \in Threads, s # t
  PROVE  Decided(s)' = Decided(s)
<1>1. TypeOK
  BY DEF IInv
<1>2. /\ pc'[s] = pc[s] /\ call' = call /\ old'[s] = old[s] /\ new'[s] = new[s]
      /\ t4'[s] = t4[s] /\ ret'[s] = ret[s]
  BY <1>1 DEF TypeOK, Thread, ReadOld, ComputeNew, EnterCas, Reserve, StoreConditional,
              StoreFails, CasTrue, CasFalse, Exchange, PlainStore
<1> QED
  BY <1>2 DEF Decided, SubwIsZero

\* A step that changes neither the object nor the result of its thread is
\* a stuttering step of the atomic object.
LEMMA Stutters ==
  ASSUME IInv, NEW t \in Threads, Thread(t), mem' = mem, Decided(t)' = Decided(t)
  PROVE  UNCHANGED <<mem, call, Results>>
<1>1. \A s \in Threads : Decided(s)' = Decided(s)
  BY OthersUndecided
<1>2. call' = call
  BY DEF Thread, ReadOld, ComputeNew, EnterCas, Reserve, StoreConditional,
         StoreFails, CasTrue, CasFalse, Exchange, PlainStore
<1>3. Results' = Results
  BY <1>1 DEF Results
<1> QED
  BY <1>2, <1>3

\* A step that gives its thread the result of its call, and the object the
\* value the call makes of it, is a step of the atomic object.
LEMMA Acts ==
  ASSUME IInv, NEW t \in Threads, Thread(t), Decided(t) = Pending,
         mem' = Apply(call[t], mem).next,
         Decided(t)' = Apply(call[t], mem).result
  PROVE  Object!Next
<1>1. \A s \in Threads \ {t} : Decided(s)' = Decided(s)
  BY OthersUndecided
<1>2. call' = call
  BY DEF Thread, ReadOld, ComputeNew, EnterCas, Reserve, StoreConditional,
         StoreFails, CasTrue, CasFalse, Exchange, PlainStore
<1>3. Results' = [Results EXCEPT ![t] = Apply(call[t], mem).result]
  BY <1>1 DEF Results
<1>4. Results[t] = Object!Pending
  BY DEF Results, Object!Pending, Pending
<1>5. Object!Act(t)
  BY <1>2, <1>3, <1>4, ApplyIs DEF Object!Act, Results
<1> QED
  BY <1>5 DEF Object!Next

\* Every step of a thread is a step of the atomic object or stutters: the
\* object acts at the sc.w that stores, at the lr.w that lets a lone
\* compare-and-swap fail, at the amoswap and at the plain store.
LEMMA ThreadRefines ==
  ASSUME Kind = "int", IInv, NEW t \in Threads, Thread(t)
  PROVE  Object!Next \/ UNCHANGED <<mem, call, Results>>
<1>1. /\ TypeOK /\ InType(mem) /\ ThreadOK(t)
      /\ call[t].op \in {"add", "exchange", "store", "cas"}
  BY CallType DEF IInv
<1>2. CASE ReadOld(t)
  <2>1. mem' = mem /\ Decided(t) = Pending /\ Decided(t)' = Pending
    BY <1>1, <1>2 DEF ReadOld, TypeOK, Decided
  <2> QED
    BY <2>1, Stutters
<1>3. CASE ComputeNew(t)
  <2>1. mem' = mem /\ Decided(t) = Pending /\ Decided(t)' = Pending
    BY <1>1, <1>3 DEF ComputeNew, TypeOK, Decided
  <2> QED
    BY <2>1, Stutters
<1>4. CASE EnterCas(t)
  <2>1. mem' = mem /\ Decided(t) = Pending /\ Decided(t)' = Pending
    BY <1>1, <1>4 DEF EnterCas, TypeOK, Decided
  <2> QED
    BY <2>1, Stutters
<1>5. CASE Reserve(t)
  <2>1. /\ mem' = mem /\ call' = call /\ old' = old /\ new' = new /\ ret' = ret
        /\ pc[t] = "lr" /\ t4'[t] = mem
        /\ pc'[t] = IF mem # old[t] THEN "return" ELSE "sc"
    BY <1>1, <1>5, WordFacts DEF Reserve, TypeOK, TakenBne
  <2>2. Decided(t) = Pending
    BY <2>1 DEF Decided
  <2>3. CASE mem = old[t]
    <3>1. Decided(t)' = Pending
      BY <2>1, <2>3 DEF Decided
    <3> QED
      BY <2>1, <2>2, <3>1, Stutters
  <2>4. CASE mem # old[t]
    <3>1. InType(old[t]) /\ pc'[t] = "return"
      BY <1>1, <2>1, <2>4 DEF ThreadOK, InLoop
    <3>2. ~ SubwIsZero(t)'
      BY <1>1, <2>1, <2>4, <3>1, WordFacts DEF SubwIsZero
    <3>3. CASE call[t].op = "add"
      <4>1. Decided(t)' = Pending
        BY <2>1, <3>1, <3>2, <3>3 DEF Decided
      <4> QED
        BY <2>1, <2>2, <4>1, Stutters
    <3>4. CASE call[t].op # "add"
      <4>1. call[t].op = "cas" /\ old[t] = Narrow(call[t].expected)
        BY <1>1, <2>1, <3>4 DEF ThreadOK, InLoop
      <4>2. Splice(old[t], mem) = mem
        BY <1>1, WordFacts
      <4>3. Decided(t)' = <<"no", Splice(old'[t], t4'[t])>>
        BY <2>1, <3>1, <3>2, <4>1 DEF Decided
      <4>4. Decided(t)' = <<"no", mem>>
        BY <2>1, <4>2, <4>3
      <4>5. Apply(call[t], mem) = Outcome(mem, "no", mem)
        BY <2>4, <4>1 DEF Apply
      <4>6. mem' = Apply(call[t], mem).next /\ Decided(t)' = Apply(call[t], mem).result
        BY <2>1, <4>4, <4>5, OutcomeIs
      <4> QED
        BY <2>2, <4>6, Acts
    <3> QED
      BY <3>3, <3>4
  <2> QED
    BY <2>3, <2>4
<1>6. CASE StoreConditional(t)
  <2>1. /\ call' = call /\ old' = old /\ new' = new /\ t4' = t4
        /\ pc[t] = "sc" /\ pc'[t] = "return"
        /\ mem = old[t] /\ t4[t] = old[t] /\ InType(new[t])
        /\ mem' = Splice(mem, new[t])
    BY <1>1, <1>6 DEF StoreConditional, TypeOK, ThreadOK, InLoop
  <2>2. mem' = new[t]
    BY <2>1, WordFacts
  <2>3. Decided(t) = Pending
    BY <2>1 DEF Decided
  <2>4. Decided(t)' = <<"yes", IF call[t].op = "add" THEN new[t] ELSE old[t]>>
    BY <2>1 DEF Decided, SubwIsZero
  <2>5. CASE call[t].op = "add"
    <3>1. new[t] = Narrow(mem + call[t].arg)
      BY <1>1, <2>1, <2>5 DEF ThreadOK, InLoop
    <3>2. Apply(call[t], mem) = Outcome(new[t], "yes", new[t])
      BY <2>5, <3>1 DEF Apply
    <3>3. mem' = Apply(call[t], mem).next /\ Decided(t)' = Apply(call[t], mem).result
      BY <2>2, <2>4, <2>5, <3>2, OutcomeIs
    <3> QED
      BY <2>3, <3>3, Acts
  <2>6. CASE call[t].op # "add"
    <3>1. call[t].op = "cas" /\ new[t] = Narrow(call[t].arg) /\ mem = Narrow(call[t].expected)
      BY <1>1, <2>1, <2>6 DEF ThreadOK, InLoop
    <3>2. Apply(call[t], mem) = Outcome(new[t], "yes", mem)
      BY <3>1 DEF Apply
    <3>3. mem' = Apply(call[t], mem).next /\ Decided(t)' = Apply(call[t], mem).result
      BY <2>1, <2>2, <2>4, <2>6, <3>2, OutcomeIs
    <3> QED
      BY <2>3, <3>3, Acts
  <2> QED
    BY <2>5, <2>6
<1>7. CASE StoreFails(t)
  <2>1. mem' = mem /\ Decided(t) = Pending /\ Decided(t)' = Pending
    BY <1>1, <1>7 DEF StoreFails, TypeOK, Decided
  <2> QED
    BY <2>1, Stutters
<1>8. CASE CasTrue(t)
  <2>1. mem' = mem /\ Decided(t)' = Decided(t)
    BY <1>1, <1>8 DEF CasTrue, TypeOK, Decided
  <2> QED
    BY <2>1, Stutters
<1>9. CASE CasFalse(t)
  <2>1. call[t].op \in {"add", "cas"}
    BY <1>1, <1>9 DEF CasFalse, ThreadOK, InLoop
  <2>2. mem' = mem /\ Decided(t)' = Decided(t)
    BY <1>1, <1>9, <2>1 DEF CasFalse, TypeOK, Decided
  <2> QED
    BY <2>2, Stutters
<1>10. CASE Exchange(t)
  <2>1. /\ Decided(t) = Pending /\ Decided(t)' = <<"yes", mem>>
        /\ mem' = Narrow(call[t].arg) /\ call[t].op = "exchange"
    BY <1>1, <1>10 DEF Exchange, TypeOK, Decided
  <2>2. Apply(call[t], mem) = Outcome(mem', "yes", mem)
    BY <2>1 DEF Apply
  <2>3. mem' = Apply(call[t], mem).next /\ Decided(t)' = Apply(call[t], mem).result
    BY <2>1, <2>2, OutcomeIs
  <2> QED
    BY <2>1, <2>3, Acts
<1>11. CASE PlainStore(t)
  <2>1. /\ Decided(t) = Pending /\ Decided(t)' = <<"yes", Narrow(call[t].arg)>>
        /\ mem' = Narrow(call[t].arg) /\ call[t].op = "store"
    BY <1>1, <1>11 DEF PlainStore, TypeOK, Decided
  <2>2. Apply(call[t], mem) = Outcome(mem', "yes", mem')
    BY <2>1 DEF Apply
  <2>3. mem' = Apply(call[t], mem).next /\ Decided(t)' = Apply(call[t], mem).result
    BY <2>1, <2>2, OutcomeIs
  <2> QED
    BY <2>1, <2>3, Acts
<1> QED
  BY <1>2, <1>3, <1>4, <1>5, <1>6, <1>7, <1>8, <1>9, <1>10, <1>11 DEF Thread

\* The code emitted for op=, compare-and-swap, exchange and store on an
\* `_Atomic int` is linearizable: it implements the atomic object, for any
\* number of threads, any width of the word and any interleaving.
THEOREM AtomicOpLinearizable ==
  ASSUME Kind = "int"
  PROVE  Spec => Linearizable
<1>1. Init => Object!Init
  BY InitRefines
<1>2. IInv /\ [Next]_vars => [Object!Next]_<<mem, call, Results>>
  <2> SUFFICES ASSUME IInv, [Next]_vars PROVE [Object!Next]_<<mem, call, Results>>
    OBVIOUS
  <2>1. CASE Next
    BY <2>1, ThreadRefines DEF Next
  <2>2. CASE UNCHANGED vars
    BY <2>2 DEF vars, Results, Decided, SubwIsZero
  <2> QED
    BY <2>1, <2>2
<1>3. Spec => []IInv
  BY AtomicOpInvariant
<1> QED
  BY <1>1, <1>2, <1>3, PTL DEF Spec, Linearizable, Object!Spec, Results
=============================================================================
