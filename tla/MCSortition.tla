----------------------------- MODULE MCSortition -----------------------------
(***************************************************************************)
(* Sortition with small constants: targets at 2, 3 and 4 slots for the     *)
(* 75, 90 and 105 of the source, expiry 2 slots after the last one, and a  *)
(* sysvar of the smallest size that covers the window.                     *)
(***************************************************************************)
EXTENDS Sortition, TLC

MCTargetOffsets == <<2, 3, 4>>
MCFeeModes == SUBSET {"ENTRY", "CLOSE_SKIM"}

\* Nothing tells actors, tickets or secrets apart.
MCSymmetry == Permutations(Actors) \cup Permutations(Tickets)

=============================================================================
