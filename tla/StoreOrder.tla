----------------------------- MODULE StoreOrder -----------------------------
(***************************************************************************)
(* The memory-order experiments of atomic_barrier: release.c, and the two  *)
(* Go programs that look for a load that overtook a store                  *)
(* (gostoreloadreorder, goatomic).  They ran on x86: a store waits in its  *)
(* thread's buffer, in order, and its own thread reads it from there.      *)
(* Stores that are not atomic may be exchanged by the compiler, as in      *)
(* compiler_reorder.c, and a loop that only reads may be read once.        *)
(***************************************************************************)
EXTENDS Integers, Sequences, SequencesExt

CONSTANTS Progs,
          LOOPCNT

VARIABLES prog, th, buf, mem

vars == <<prog, th, buf, mem>>

Main == "main"
Racers == {"racer1", "racer2"}
Threads == {Main, "thread"} \union Racers

At(t, l) == th[t].pc = l
Go(t, l) == th' = [th EXCEPT ![t].pc = l]

\* a store enters the buffer, an atomic one leaves it empty (xchg)
Store(t, x, v) == buf' = [buf EXCEPT ![t] = Append(@, <<x, v>>)] /\ UNCHANGED mem

\* mutation: an atomic store that is an ordinary one
StoreInt64Plain(t, x, v) == Store(t, x, v)

StoreInt64(t, x, v) ==
  /\ mem' = [FoldLeft(LAMBDA m, s : [m EXCEPT ![s[1]] = s[2]], mem, buf[t]) EXCEPT ![x] = v]
  /\ buf' = [buf EXCEPT ![t] = <<>>]

\* the thread's own last store, or memory
Load(t, x) ==
  LET mine == SelectSeq(buf[t], LAMBDA s : s[1] = x) IN
  IF mine = <<>> THEN mem[x] ELSE Last(mine)[2]

\* the oldest store of a buffer reaches memory
Drain(t) ==
  /\ buf[t] # <<>>
  /\ mem' = [mem EXCEPT ![Head(buf[t])[1]] = Head(buf[t])[2]]
  /\ buf' = [buf EXCEPT ![t] = Tail(@)]
  /\ UNCHANGED <<prog, th>>

Same == UNCHANGED <<buf, mem>>
Fenced(t) == buf[t] = <<>>      \* creating and joining threads, channels: full barriers

-----------------------------------------------------------------------------
(* release.c *)

\* b = 12 and a = 11 in the order the compiler likes, then the release store
release_main ==
  \/ /\ At(Main, "stores")
     /\ \E x \in th[Main].left :
          /\ Store(Main, x, IF x = "b" THEN 12 ELSE 11)
          /\ th' = [th EXCEPT ![Main].left = @ \ {x}, ![Main].pc = IF @ = "stores" /\ th[Main].left = {x} THEN "release" ELSE @]
  \/ At(Main, "release") /\ Store(Main, "aint", 21) /\ Go(Main, "join")
  \/ At(Main, "join") /\ Fenced(Main) /\ At("thread", "end") /\ Go(Main, "end") /\ Same

\* while (b != 12): read each time or, with -O2, once and for all
thread_main ==
  /\ Same
  /\ \/ At("thread", "while") /\ Load("thread", "b") = 12 /\ Go("thread", "assert")
     \/ At("thread", "while") /\ Load("thread", "b") # 12 /\ Go("thread", IF th["thread"].once THEN "spin" ELSE "while")
     \/ At("thread", "assert") /\ Go("thread", IF Load("thread", "a") = 11 THEN "end" ELSE "abort")

-----------------------------------------------------------------------------
(* The Go programs *)

Mine(t) == IF t = "racer1" THEN "x" ELSE "y"
Result(t) == IF t = "racer1" THEN "b" ELSE "a"
Theirs(t) == IF t = "racer1" THEN "y" ELSE "x"

\* a racer: start, a store to its variable, a load of the other's, finish
Racer(t, store) ==
  \/ At(t, "store") /\ store /\ Go(t, "load")
  \/ At(t, "load") /\ Store(t, Result(t), Load(t, Theirs(t))) /\ Go(t, "finish")
  \/ At(t, "finish") /\ Fenced(t) /\ Go(t, "ready") /\ Same

storeloadreorder_racer(t) == Racer(t, Store(t, Mine(t), 1))
goatomic_racer(t) == Racer(t, StoreInt64(t, Mine(t), 1))

\* x, y = 0, 0; both started, one after the other; both waited for
checker ==
  \/ /\ At(Main, "loop") /\ th[Main].i < LOOPCNT
     /\ buf' = [buf EXCEPT ![Main] = <<<<"x", 0>>, <<"y", 0>>>>]
     /\ Go(Main, "racer1") /\ UNCHANGED mem
  \/ /\ \E t \in Racers : At(Main, t) /\ At(t, "ready") /\ Fenced(Main)
                          /\ th' = [th EXCEPT ![t].pc = "store", ![Main].pc = IF t = "racer1" THEN "racer2" ELSE "wait"]
     /\ Same
  \/ At(Main, "wait") /\ (\A t \in Racers : At(t, "ready")) /\ Go(Main, "check") /\ Same
  \/ At(Main, "check") /\ th' = [th EXCEPT ![Main].pc = "loop", ![Main].i = @ + 1] /\ Same

-----------------------------------------------------------------------------
Init ==
  /\ prog \in Progs
  /\ \E once \in BOOLEAN :
       th = [t \in Threads |-> [pc |-> CASE t = Main -> IF prog = "release" THEN "stores" ELSE "loop"
                                         [] t = "thread" -> "while"
                                         [] OTHER -> "ready",
                                left |-> {"a", "b"}, i |-> 0, once |-> once /\ prog = "release"]]
  /\ buf = [t \in Threads |-> <<>>]
  /\ mem = [x \in {"a", "b", "aint", "x", "y"} |-> 0]

Next ==
  \/ /\ UNCHANGED prog
     /\ \/ prog = "release" /\ (release_main \/ thread_main)
        \/ prog # "release" /\ checker
        \/ prog = "storeloadreorder" /\ \E t \in Racers : storeloadreorder_racer(t)
        \/ prog = "goatomic" /\ \E t \in Racers : goatomic_racer(t)
  \/ \E t \in Threads : Drain(t)

Spec == Init /\ [][Next]_vars

-----------------------------------------------------------------------------
(* Properties *)

\* Whoever sees the release store of release.c sees the two plain stores
\* before it, in whichever order the compiler put them (thread_main looks at b
\* instead); and in goatomic, whose stores are atomic and whose loads are not,
\* no round ends with both loads older than both stores.
StoresOrdered ==
  /\ mem["aint"] = 21 => mem["a"] = 11 /\ mem["b"] = 12
  /\ prog = "goatomic" /\ At(Main, "check") => ~(mem["a"] = 0 /\ mem["b"] = 0)
=============================================================================
