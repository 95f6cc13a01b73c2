---------------------------- MODULE IotoolParams ----------------------------
(***************************************************************************)
(* The constants of IotoolWrite and IotoolAio and what is assumed of them. *)
(***************************************************************************)
EXTENDS Integers, FiniteSets

CONSTANTS Engines,      \* the engines asked for
          SECTOR_SIZE, MAX_BUF_LEN,
          Word,         \* size_t is 0 .. Word - 1
          DevSize,      \* bytes of the volume
          MaxOff, Counts, StrLens,  \* bounds on offset, size and strlen(str)
          MaxShort,     \* short or failed pwrite calls
          iocb_cnt      \* (offset, size) pairs given to aiowrbytesstr

ByteEngines == {"wrbytesstr", "wrbyteschar"}
SectEngines == {"wrsectsstr", "wrsectschar"}
CharEngines == {"wrbyteschar", "wrsectschar"}

ASSUME EnginesAssumption == Engines \subseteq ByteEngines \cup SectEngines

ASSUME SizesAssumption ==
  /\ SECTOR_SIZE \in Nat \ {0} /\ MAX_BUF_LEN \in Nat \ {0}
  /\ DevSize \in Nat /\ Word \in Nat /\ MaxOff \in Nat /\ MaxShort \in Nat
  /\ Counts \subseteq Nat /\ StrLens \subseteq Nat

\* no size comes near the end of size_t
ASSUME WordAssumption ==
  \A u \in {1, SECTOR_SIZE}, n \in Counts \cup {MaxOff, DevSize} : 4 * (u * n) < Word

ASSUME CntAssumption == iocb_cnt \in Nat \ {0}
=============================================================================
