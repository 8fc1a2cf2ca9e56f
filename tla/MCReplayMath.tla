---------------------------- MODULE MCReplayMath ----------------------------
(***************************************************************************)
(* The replay mathematics of the SDK on small inputs.  Each behaviour is   *)
(* one job of one kind; the other kinds stay idle.                         *)
(***************************************************************************)
EXTENDS SnapshotClaim, Artifacts, CompositeRank, Conditions, SlotSpin

vars == <<snapVars, artVars, compVars, condVars, slotVars>>

Init ==
  \/ SnapshotInit /\ ArtifactIdle /\ CompositeIdle /\ ConditionsIdle /\ SlotIdle
  \/ SnapshotIdle /\ ArtifactInit /\ CompositeIdle /\ ConditionsIdle /\ SlotIdle
  \/ SnapshotIdle /\ ArtifactIdle /\ CompositeInit /\ ConditionsIdle /\ SlotIdle
  \/ SnapshotIdle /\ ArtifactIdle /\ CompositeIdle /\ ConditionsInit /\ SlotIdle
  \/ SnapshotIdle /\ ArtifactIdle /\ CompositeIdle /\ ConditionsIdle /\ SlotInit

Next ==
  \/ SnapshotNext   /\ UNCHANGED <<artVars, compVars, condVars, slotVars>>
  \/ ArtifactNext   /\ UNCHANGED <<snapVars, compVars, condVars, slotVars>>
  \/ CompositeNext  /\ UNCHANGED <<snapVars, artVars, condVars, slotVars>>
  \/ ConditionsNext /\ UNCHANGED <<snapVars, artVars, compVars, slotVars>>
  \/ SlotNext       /\ UNCHANGED <<snapVars, artVars, compVars, condVars>>

Spec == Init /\ [][Next]_vars

-----------------------------------------------------------------------------
(* Properties over the modules. *)


\* A draw ranks by the rules its publisher wrote: ties to the earlier entry, a
\* better field never ranks lower, the verifier ranks as the builder does, and
\* each winner's effects are paid once.
RankingSound ==
  EffectsPaidOnce /\ TiesGoToTheEarlier /\ RaisingNeverLoses /\ VerifierRanksAlike

\* A round that is scored rather than drawn: slips score and hash the same in
\* any order and never pay both sides of a line, and a spin pays the longest run
\* of each line of the grid its stops show.
RoundsSound ==
  /\ WinnersHaveScore /\ DigestIsOrderFree /\ SlipHashIsOrderFree /\ OverExcludesUnder
  /\ LinesPayLongestRun /\ GridFollowsStrips

-----------------------------------------------------------------------------
MCScores == {-1, 1}
MCTargets == {0, 1}
MCFieldValues == {-1, 0, 2}

Leg(kind, a, b, op, cmp, threshold, line, odds) ==
  [kind |-> kind, a |-> a, b |-> b, op |-> op, cmp |-> cmp, threshold |-> threshold,
   line |-> line, odds |-> odds]

\* Among them an over and an under of the same whole line, two legs that differ
\* in their odds only, odds whose product does not fit, and an invalid leg.
MCLegs ==
  {Leg("single", 1, 0, "none", "gt", 0, NoLine, 12), Leg("single", 1, 0, "none", "gt", 0, NoLine, 40),
   Leg("single", 1, 0, "none", "eq", 1, NoLine, 40),
   Leg("binary", 1, 2, "add", "gt", 0, 4, 15), Leg("binary", 1, 2, "add", "lt", 0, 4, 15),
   Leg("binary", 1, 2, "add", "lt", 0, 3, 15), Leg("binary", 1, 2, "subtract", "eq", 0, 2, 40),
   Leg("single", 2, 0, "none", "gt", 0, 2, 11), Leg("single", 1, 0, "add", "gt", 0, 2, 11)}
MCStats == {0, 1, 2}
MCStatistics == {<<0, 1>>, <<0, 2>>, <<1, 1>>}

\* Symbols: 0 the wild, 1 the scatter, 2 pays, 3 does not.
MCStrips == {<<0>>, <<1>>, <<2>>, <<2, 3>>, <<0, 2, 1>>, <<3, 2, 0>>}
MCLines == {<<0, 0, 0>>, <<1, 0, 1>>}
MCMultiplier == <<<<0, 0, 0, 40>>, <<0, 0, 0, 25>>, <<0, 0, 0, 17>>, <<0, 0, 0, 0>>>>
=============================================================================
