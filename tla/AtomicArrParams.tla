-------------------------- MODULE AtomicArrParams ---------------------------
(***************************************************************************)
(* The constants of AtomicArr and what is assumed of them.                 *)
(***************************************************************************)
EXTENDS Integers

CONSTANTS ARRLEN,       \* cells of the array
          TESTLOOPCNT,  \* rounds of each thread
          WaitLimit     \* waits before a thread gives up

ASSUME ArrLenAssumption == ARRLEN \in Nat \ {0}
ASSUME LoopAssumption == TESTLOOPCNT \in Nat \ {0}
ASSUME WaitAssumption == WaitLimit \in Nat
=============================================================================
