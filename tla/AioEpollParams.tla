--------------------------- MODULE AioEpollParams ---------------------------
(***************************************************************************)
(* The constants of AioEpoll and what is assumed of them.                  *)
(***************************************************************************)
EXTENDS Integers

CONSTANTS NUM_EVENTS, Width

ASSUME NumEventsAssumption == NUM_EVENTS \in Nat \ {0}
ASSUME WidthAssumption == Width \in Nat /\ Width > NUM_EVENTS
=============================================================================
