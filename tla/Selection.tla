------------------------------ MODULE Selection ------------------------------
(***************************************************************************)
(* The winner selection every replay shares: the formulas' comparators,    *)
(* the weighted choice of one round and the whole draw over a list of      *)
(* entries held in memory (sdk/verify.ts selectOutcomes and                *)
(* sdk/snapshot.ts buildCompactNamedEntryClaimFromArtifactV5).             *)
(* An entry is a record with at least id, order, weight and score.         *)
(***************************************************************************)
EXTENDS Integers, Sequences, SequencesExt

Formulas == {"weighted_random", "rank_desc", "rank_asc", "first_n", "closest_to"}

Distance(a, b) == IF a < b THEN b - a ELSE a - b

\* What a formula sorts by before the order; the smaller key comes first.
SortKey(e, formula, target) ==
  CASE formula = "rank_desc"  -> -e.score
    [] formula = "rank_asc"   -> e.score
    [] formula = "first_n"    -> 0
    [] formula = "closest_to" -> Distance(e.score, target)

\* The comparator returns a negative number: left is placed before right.
Before(left, right, formula, target) ==
  LET l == SortKey(left, formula, target)
      r == SortKey(right, formula, target)
  IN  l < r \/ (l = r /\ left.order < right.order)

\* Array.prototype.sort is stable: an element goes after its equals.
InsertSorted(sorted, e, formula, target) ==
  LET after == {i \in DOMAIN sorted : Before(e, sorted[i], formula, target)}
  IN  InsertAt(sorted, IF after = {} THEN Len(sorted) + 1 ELSE Min(after), e)

SortEntries(entries, formula, target) ==
  FoldLeft(LAMBDA sorted, e : InsertSorted(sorted, e, formula, target), <<>>, entries)

TotalWeight(entries) == FoldLeft(LAMBDA sum, e : sum + e.weight, 0, entries)

\* Mutant: an off-by-one at the cursor skips the entry at the boundary.
ChooseWeightedIndexLate(entries, rolled) ==
  LET bounded == rolled % TotalWeight(entries)
      Cursor(i) == TotalWeight(SubSeq(entries, 1, i))
      passed == {i \in DOMAIN entries : bounded + 1 < Cursor(i)}
  IN  IF passed = {} THEN Len(entries) ELSE Min(passed)

\* chooseWeightedIndex: the first position whose cumulated weight passes the
\* roll reduced modulo the total weight.
ChooseWeightedIndex(entries, rolled) ==
  LET bounded == rolled % TotalWeight(entries)
      Cursor(i) == TotalWeight(SubSeq(entries, 1, i))
  IN  Min({i \in DOMAIN entries : bounded < Cursor(i)})

\* One round: the winner leaves the remaining entries (splice).
DrawOne(draw, rolled) ==
  LET i == ChooseWeightedIndex(draw.remaining, rolled)
  IN  [remaining |-> RemoveAt(draw.remaining, i),
       selected  |-> Append(draw.selected, draw.remaining[i])]

\* The selection of winnersCount entries; rolls[r] is the roll of round r.
SelectEntries(entries, formula, target, winnersCount, rolls) ==
  IF formula = "weighted_random"
  THEN FoldLeft(DrawOne, [remaining |-> entries, selected |-> <<>>],
                SubSeq(rolls, 1, winnersCount)).selected
  ELSE SubSeq(SortEntries(entries, formula, target), 1, winnersCount)

\* Without weights left, or with fewer entries than winners, a claim throws.
Selectable(entries, winnersCount) == winnersCount <= Len(entries)

Ids(entries) == [i \in DOMAIN entries |-> entries[i].id]

\* buildSnapshotClaimFromWinnerIds: the record of a draw that pays a flat
\* amount to every winner; a zero payout has no effect at all.
ClaimOf(ids, payout) ==
  [outcomeIds   |-> ids,
   totalOutput  |-> payout * Len(ids),
   effects      |-> IF payout = 0 THEN <<>> ELSE [i \in DOMAIN ids |-> payout]]

\* buildCompactNamedEntryClaimFromArtifactV5: the claim of a compact artifact.
CompactClaim(entries, formula, target, winnersCount, rolls, payout) ==
  ClaimOf(Ids(SelectEntries(entries, formula, target, winnersCount, rolls)), payout)

=============================================================================
