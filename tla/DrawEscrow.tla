----------------------------- MODULE DrawEscrow -----------------------------
(***************************************************************************)
(* What the draw lifecycle promises, without its handlers, slots, fees or  *)
(* administration: a draw is staked once, its entropy is fixed at most     *)
(* once and never changes, and it ends in exactly one of two ways, resolved *)
(* with an entropy or refunded in full.  RngV2 implements it.              *)
(***************************************************************************)
EXTENDS Naturals

CONSTANTS
  Ids,         \* the draws
  NoEntropy    \* the entropy of an undecided draw

VARIABLES
  phase,       \* "none", "staked", "decided", "resolved" or "refunded"
  entropy,     \* what the result is computed from
  stake,       \* lamports put in
  back         \* lamports given back to the draw's actor

escrowVars == <<phase, entropy, stake, back>>

\* The function new differs from old at most at i.
OnlyAt(i, old, new) == new = [old EXCEPT ![i] = new[i]]

Init ==
  /\ phase = [i \in Ids |-> "none"]
  /\ entropy = [i \in Ids |-> NoEntropy]
  /\ stake = [i \in Ids |-> 0]
  /\ back = [i \in Ids |-> 0]

Stake(i) ==
  /\ phase[i] = "none"
  /\ phase' = [phase EXCEPT ![i] = "staked"]
  /\ stake'[i] \in Nat /\ OnlyAt(i, stake, stake')
  /\ UNCHANGED <<entropy, back>>

Decide(i) ==
  /\ phase[i] = "staked"
  /\ phase' = [phase EXCEPT ![i] = "decided"]
  /\ entropy'[i] # NoEntropy /\ OnlyAt(i, entropy, entropy')
  /\ UNCHANGED <<stake, back>>

\* The result of a decided draw uses the entropy it was decided with; an
\* undecided draw may be decided and resolved at once.
Resolve(i) ==
  /\ phase[i] \in {"staked", "decided"}
  /\ phase' = [phase EXCEPT ![i] = "resolved"]
  /\ entropy'[i] # NoEntropy /\ OnlyAt(i, entropy, entropy')
  /\ phase[i] = "decided" => entropy'[i] = entropy[i]
  /\ back'[i] \in Nat /\ OnlyAt(i, back, back')
  /\ UNCHANGED stake

Refund(i) ==
  /\ phase[i] \in {"staked", "decided"}
  /\ phase' = [phase EXCEPT ![i] = "refunded"]
  /\ back' = [back EXCEPT ![i] = stake[i]]
  /\ UNCHANGED <<entropy, stake>>

Next == \E i \in Ids : Stake(i) \/ Decide(i) \/ Resolve(i) \/ Refund(i)

Spec == Init /\ [][Next]_escrowVars

=============================================================================
