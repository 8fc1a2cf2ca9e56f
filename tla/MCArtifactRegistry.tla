-------------------------- MODULE MCArtifactRegistry --------------------------
(***************************************************************************)
(* ArtifactRegistry with chunks of two bytes: the blob is one full and one *)
(* partial chunk, of a format the declared ones match, half match or miss. *)
(***************************************************************************)
EXTENDS ArtifactRegistry, TLC

MCBlobs == [h \in Hashes |-> <<0, 1, 0>>]
MCFormatOf == [h \in Hashes |-> "scale4"]
MCBandOf == [h \in Hashes |-> "band"]

=============================================================================
