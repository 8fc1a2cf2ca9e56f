------------------------------ MODULE MCRngV2 ------------------------------
(***************************************************************************)
(* RngV2 with small constants.  Slot distances are scaled down and keep    *)
(* the relations of the source: targets 8/16/24 become 1/2/3 (2/3/4 for    *)
(* the 75/90/105 of Unicorn-G, 1/2/3 for the 3/4/5 of spins), and          *)
(* MaxEntries = ExpiryAfter + (o3 - o1), the smallest value that still     *)
(* works, so that the boundary itself is exercised.                        *)
(***************************************************************************)
EXTENDS RngV2

MCDrawOffsets == <<1, 2, 3>>
MCUnicornOffsets == <<2, 3, 4>>
MCSpinOffsets == <<1, 2, 3>>

\* One artifact pays; the others only draw, as prepare_rng_v2 requires.
MCPayouts == [f \in Formats |-> IF f = "scale7" THEN {0, 2} ELSE {0}]

=============================================================================
