--------------------------- MODULE ArtifactStatus ---------------------------
(***************************************************************************)
(* The review status of a compiled artifact, shared by the registry and by *)
(* the handlers that bind an artifact                                      *)
(* (programs/outcome/src/state/approved_outcome_artifact.rs).              *)
(***************************************************************************)

Statuses == {"PENDING", "APPROVED", "REJECTED", "DEPRECATED"}

\* status_allows_binding: PENDING counts only while the program allows
\* unreviewed artifacts.
StatusAllowsBinding(status, allowUnreviewed) ==
  \/ status \in {"APPROVED", "DEPRECATED"}
  \/ status = "PENDING" /\ allowUnreviewed

\* The transitions review_compiled_artifact accepts from the admin.
MayReview(status, finalized, new) ==
  /\ new \in {"APPROVED", "REJECTED", "DEPRECATED"}
  /\ new \in {"APPROVED", "DEPRECATED"} => finalized
  /\ new = "APPROVED" => status = "PENDING"

=============================================================================
