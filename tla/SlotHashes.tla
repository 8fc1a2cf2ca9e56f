----------------------------- MODULE SlotHashes -----------------------------
(***************************************************************************)
(* The entropy every rng_v2 draw, slot spin and sortition draw reads: the  *)
(* SlotHashes sysvar, and the search resolve_slot_hashes runs over it      *)
(* (programs/outcome/src/math/rng_v2.rs).                                  *)
(*                                                                         *)
(* A slot is a natural number.  "blocks" is the set of slots in which a    *)
(* block was produced (a leader may skip its slot), all before the slot    *)
(* whose transaction is executing.  The hash of a slot is not modelled: a  *)
(* slot stands for its hash, which is fixed once the block exists.         *)
(***************************************************************************)
EXTENDS Integers, FiniteSets

CONSTANTS
  MaxEntries,    \* SlotHashes MAX_ENTRIES (512): how many blocks it remembers
  ExpiryAfter    \* RNG_V2_EXPIRY_AFTER_LAST_TARGET (480)

ASSUME MaxEntriesAssumption == MaxEntries \in Nat \ {0}
ASSUME ExpiryAfterAssumption == ExpiryAfter \in Nat

(***************************************************************************)
(* Offsets of the three target slots.  The last conjunct is one weaker     *)
(* than what the test draw_offsets_avoid_the_including_leader_and_spread_  *)
(* across_groups asserts of the source's offsets, 480 + (o3 - o1) < 512.   *)
(***************************************************************************)
IsOffsets(o) ==
  /\ o \in [1..3 -> Nat]
  /\ 0 < o[1] /\ o[1] < o[2] /\ o[2] < o[3]
  /\ ExpiryAfter + (o[3] - o[1]) <= MaxEntries

\* target_slots_from: the targets of a draw prepared in slot now.
TargetSlots(now, o) == [i \in 1..3 |-> now + o[i]]

ExpirySlot(targets) == targets[3] + ExpiryAfter

\* The sysvar: the MaxEntries most recent blocks.
Sysvar(blocks) ==
  {s \in blocks : Cardinality({b \in blocks : b > s}) < MaxEntries}

\* Mutant of FirstFrom: the previous resolved slot may be taken again.
FirstAtTarget(entries, target, previous) ==
  {s \in entries : s >= target /\ \A e \in entries : e >= target => s <= e}

\* The first entry at or after the target and after the previous resolved
\* slot: a set of at most one slot, empty for RngV2SlotHashNotFound.
FirstFrom(entries, target, previous) ==
  {s \in entries :
     /\ s >= target
     /\ s > previous
     /\ \A e \in entries : (e >= target /\ e > previous) => s <= e}

\* resolve_slot_hashes: the resolved slots, or {} when some target has none.
ResolveSlotHashes(entries, targets) ==
  UNION {UNION {{<<a, b, c>> : c \in FirstFrom(entries, targets[3], b)}
                  : b \in FirstFrom(entries, targets[2], a)}
           : a \in FirstFrom(entries, targets[1], 0)}

=============================================================================
