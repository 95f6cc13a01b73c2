------------------------- MODULE IoUringCopyParams --------------------------
(***************************************************************************)
(* The constants of IoUringCopy and what is assumed of them.               *)
(***************************************************************************)
EXTENDS Integers, FiniteSets

CONSTANTS QD,         \* queue depth, #define QD
          BS,         \* block size, #define BS
          Size,       \* size of the input file in bytes
          MaxFaults   \* bound on the failures of one behaviour

ASSUME QDAssumption == QD \in Nat \ {0}
ASSUME BSAssumption == BS \in Nat \ {0}
ASSUME SizeAssumption == Size \in Nat
ASSUME FaultsAssumption == MaxFaults \in Nat
=============================================================================
