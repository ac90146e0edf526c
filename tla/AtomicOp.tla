------------------------------ MODULE AtomicOp ------------------------------
(***************************************************************************)
(* The RISC-V code toycc emits for an object of atomic type, run by        *)
(* several threads: the compare-and-swap loop to_assign() builds for op=   *)
(* (parser.c), and the instruction sequences codegen.c prints for ND_CAS   *)
(* (lr.w / bne / sc.w / subw / sw) and ND_EXCH (amoswap).  One step is one *)
(* access to the shared object with the register work around it.           *)
(***************************************************************************)
EXTENDS AtomicCalls

CONSTANTS Start,   \* values the object may start with
          Calls    \* calls a thread may make

ASSUME CallsAssumption == Calls \subseteq Call
ASSUME StartAssumption == \A v \in Start : v \in Int /\ Narrow(v) = v

VARIABLES mem,       \* the object
          call,      \* the call of each thread; never changes
          reserved,  \* threads whose lr.w reservation still stands
          pc,
          old,       \* the local `old` of the loop, *cas_old
          new,       \* the local `new` of the loop, cas_new
          t4,        \* what lr.w read
          ret        \* the value of the expression, once it is known

vars == <<mem, call, reserved, pc, old, new, t4, ret>>

-----------------------------------------------------------------------------
(* Words *)

\* lr.w, lb, lw: the low word of the object, sign-extended into a register.
LoadReserved(v) == Sext(Low(v))

\* sw, sc.w: the low word of an object replaced, its high word untouched.
Splice(v, w) == CASE Kind = "int"  -> Sext(Low(w))
                  [] Kind = "uint" -> Low(w)
                  [] Kind = "long" -> (v - Low(v)) + Low(w)

\* bne t4, t2 compares whole registers.
TakenBne(t) == LoadReserved(mem) # old[t]

\* subw t2, t4, t2 compares low words.
SubwIsZero(t) == Low(t4[t]) = Low(old[t])

-----------------------------------------------------------------------------
(* Steps of one thread *)

Init == /\ mem \in Start
        /\ call \in [Threads -> Calls]
        /\ reserved = {}
        /\ pc = [t \in Threads |-> "start"]
        /\ old = [t \in Threads |-> 0]
        /\ new = [t \in Threads |-> 0]
        /\ t4 = [t \in Threads |-> 0]
        /\ ret = [t \in Threads |-> Pending]

\* A op= B: addr = &A, val = B, old = *addr
ReadOld(t) ==
  /\ pc[t] = "start"
  /\ call[t].op = "add"
  /\ old' = [old EXCEPT ![t] = mem]
  /\ pc' = [pc EXCEPT ![t] = "body"]
  /\ UNCHANGED <<mem, call, reserved, new, t4, ret>>

\* The body of the loop: new = old op val
ComputeNew(t) ==
  /\ pc[t] = "body"
  /\ new' = [new EXCEPT ![t] = Narrow(old[t] + call[t].arg)]
  /\ pc' = [pc EXCEPT ![t] = "lr"]
  /\ UNCHANGED <<mem, call, reserved, old, t4, ret>>

\* __builtin_compare_and_swap(addr, &old, new) by itself.  t0-t2 hold the operands
\* evaluated before (codegen.c:1347-1357): the threads here evaluate the others
\* by code that leaves them alone, which a call, or a local variable more than
\* 2047 bytes from fp (li t0, codegen.c:249), does not.
EnterCas(t) ==
  /\ pc[t] = "start"
  /\ call[t].op = "cas"
  /\ old' = [old EXCEPT ![t] = Narrow(call[t].expected)]
  /\ new' = [new EXCEPT ![t] = Narrow(call[t].arg)]
  /\ pc' = [pc EXCEPT ![t] = "lr"]
  /\ UNCHANGED <<mem, call, reserved, t4, ret>>

\* lr.w.aq t4, (t0); bne t4, t2, cas_return
Reserve(t) ==
  /\ pc[t] = "lr"
  /\ t4' = [t4 EXCEPT ![t] = LoadReserved(mem)]
  /\ reserved' = reserved \cup {t}
  /\ pc' = [pc EXCEPT ![t] = IF TakenBne(t) THEN "return" ELSE "sc"]
  /\ UNCHANGED <<mem, call, old, new, ret>>

\* Faulty: sw in the place of sc.w.
StoreAnyway(t) ==
  /\ pc[t] = "sc"
  /\ mem' = Splice(mem, new[t])
  /\ reserved' = {}
  /\ pc' = [pc EXCEPT ![t] = "return"]
  /\ UNCHANGED <<call, old, new, t4, ret>>

\* sc.w.aq a0, t3, (t0) stores and ends every reservation of the word.
StoreConditional(t) ==
  /\ pc[t] = "sc"
  /\ t \in reserved
  /\ mem' = Splice(mem, new[t])
  /\ reserved' = {}
  /\ pc' = [pc EXCEPT ![t] = "return"]
  /\ UNCHANGED <<call, old, new, t4, ret>>

\* sc.w fails when the reservation is lost, and may fail anyway: cas_retry.
StoreFails(t) ==
  /\ pc[t] = "sc"
  /\ reserved' = reserved \ {t}
  /\ pc' = [pc EXCEPT ![t] = "lr"]
  /\ UNCHANGED <<mem, call, old, new, t4, ret>>

\* subw, seqz, beqz: a0 = true
CasTrue(t) ==
  /\ pc[t] = "return"
  /\ SubwIsZero(t)
  /\ ret' = [ret EXCEPT ![t] = <<"yes", IF call[t].op = "add" THEN new[t] ELSE old[t]>>]
  /\ pc' = [pc EXCEPT ![t] = "done"]
  /\ UNCHANGED <<mem, call, reserved, old, new, t4>>

\* Faulty: the loop goes round with the old it had.
CasFalseStale(t) ==
  /\ pc[t] = "return"
  /\ ~ SubwIsZero(t)
  /\ IF call[t].op = "add"
     THEN /\ pc' = [pc EXCEPT ![t] = "body"]
          /\ UNCHANGED ret
     ELSE /\ pc' = [pc EXCEPT ![t] = "done"]
          /\ ret' = [ret EXCEPT ![t] = <<"no", Splice(old[t], t4[t])>>]
  /\ UNCHANGED <<mem, call, reserved, old, new, t4>>

\* a0 = false, sw t4, (t1); a loop goes round with the old it was given.
CasFalse(t) ==
  /\ pc[t] = "return"
  /\ ~ SubwIsZero(t)
  /\ old' = [old EXCEPT ![t] = Splice(old[t], t4[t])]
  /\ IF call[t].op = "add"
     THEN /\ pc' = [pc EXCEPT ![t] = "body"]
          /\ UNCHANGED ret
     ELSE /\ pc' = [pc EXCEPT ![t] = "done"]
          /\ ret' = [ret EXCEPT ![t] = <<"no", Splice(old[t], t4[t])>>]
  /\ UNCHANGED <<mem, call, reserved, new, t4>>

\* ND_EXCH: amoswap.w / amoswap.d
Exchange(t) ==
  /\ pc[t] = "start"
  /\ call[t].op = "exchange"
  /\ mem' = Narrow(call[t].arg)
  /\ ret' = [ret EXCEPT ![t] = <<"yes", mem>>]
  /\ reserved' = {}
  /\ pc' = [pc EXCEPT ![t] = "done"]
  /\ UNCHANGED <<call, old, new, t4>>

\* atomic_store and a plain assignment: one sw or sd
PlainStore(t) ==
  /\ pc[t] = "start"
  /\ call[t].op = "store"
  /\ mem' = Narrow(call[t].arg)
  /\ ret' = [ret EXCEPT ![t] = <<"yes", Narrow(call[t].arg)>>]
  /\ reserved' = {}
  /\ pc' = [pc EXCEPT ![t] = "done"]
  /\ UNCHANGED <<call, old, new, t4>>

Thread(t) == \/ ReadOld(t) \/ ComputeNew(t) \/ EnterCas(t)
             \/ Reserve(t) \/ StoreConditional(t) \/ StoreFails(t)
             \/ CasTrue(t) \/ CasFalse(t)
             \/ Exchange(t) \/ PlainStore(t)

Next == \E t \in Threads : Thread(t)

Spec == Init /\ [][Next]_vars

\* Threads are scheduled, and the loop around sc.w is short enough for the
\* RISC-V guarantee that a store conditional does not fail for ever.
FairSpec == Spec /\ \A t \in Threads : /\ WF_vars(Thread(t))
                                       /\ SF_vars(StoreConditional(t))

-----------------------------------------------------------------------------
(* Properties *)

\* The variables keep their types.
TypeOK == /\ mem \in Int
          /\ call \in [Threads -> Calls]
          /\ reserved \subseteq Threads
          /\ pc \in [Threads -> {"start", "body", "lr", "sc", "return", "done"}]
          /\ old \in [Threads -> Int]
          /\ new \in [Threads -> Int]
          /\ t4 \in [Threads -> Int]
          /\ ret \in [Threads -> {Pending} \cup ({"yes", "no"} \X Int)]

\* The result of a call is decided where its effect happens: at the sc.w
\* that stores, or at the lr.w that reads something else.
Decided(t) ==
  CASE pc[t] = "done" -> ret[t]
    [] pc[t] = "return" /\ SubwIsZero(t) ->
         <<"yes", IF call[t].op = "add" THEN new[t] ELSE old[t]>>
    [] pc[t] = "return" /\ ~ SubwIsZero(t) /\ call[t].op = "cas" ->
         <<"no", Splice(old[t], t4[t])>>
    [] OTHER -> Pending

Object == INSTANCE AtomicObject WITH result <- [t \in Threads |-> Decided(t)]

\* Every op=, compare-and-swap, exchange and store takes effect once, in one
\* step, whatever the other threads do between its instructions: no update
\* is lost, none is applied twice and a reported success has stored.
Linearizable == Object!Spec

\* Every call returns: a loop is only sent round again by another thread's
\* success, so the threads cannot keep each other from finishing.
CallsReturn == \A t \in Threads : <>(pc[t] = "done")
=============================================================================
