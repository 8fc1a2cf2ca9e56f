------------------------------ MODULE MCPages ------------------------------
(***************************************************************************)
(* Pages with two wallets, one of them without standard:disconnect, two    *)
(* addresses and two draws whose committed lists differ.                   *)
(***************************************************************************)
EXTENDS Pages, TLC

CONSTANTS s1, s2, p1, p2

MCSignatures == {s1, s2}
MCIds == {p1, p2}
MCMembers == s1 :> {p1} @@ s2 :> {p1, p2}
MCSymmetry == Permutations(Addresses)

=============================================================================
