------------------------------ MODULE Artifacts ------------------------------
(***************************************************************************)
(* Compiled artifacts: built from a draw's configuration (sdk/artifact.ts, *)
(* sdk/snapshot.ts), stored as bytes, parsed and replayed by whoever       *)
(* checks the draw (sdk/verify.ts, sdk/snapshot.ts).                       *)
(*                                                                         *)
(* A blob is the record of its header fields and tables.  Its tables may   *)
(* disagree with the counts in its header; `pad` is what the bytes that    *)
(* must be zero hold, `trailing` the bytes after the last table.  The      *)
(* formats are 1..3 (outcomes with effects), 5 (compact named entries) and *)
(* 4, 6, 7 (a snapshot commitment).                                        *)
(***************************************************************************)
EXTENDS Selection

CONSTANTS
  ArtIds,       \* outcome ids, in byte order
  ArtValues,    \* weights and scores
  Payouts,      \* payout_lamports
  MaxEntries,   \* bound on the entries of a configuration
  MaxOutcomes,  \* outcomes that fit the maximal artifact size (8192 bytes)
  MaxWinners    \* MAX_WINNERS

ASSUME ArtAssumption ==
  /\ ArtIds \subseteq Nat \ {0} /\ ArtValues \subseteq Nat \ {0} /\ Payouts \subseteq Nat
  /\ MaxEntries \in Nat \ {0} /\ MaxOutcomes \in Nat /\ MaxWinners \in Nat \ {0}

VARIABLES
  step,     \* where the artifact is: configured, built, served, replayed
  config,   \* what the organiser configured
  blob,     \* the artifact's bytes
  drawn     \* what the replay selected, or that it refused the blob

artVars == <<step, config, blob, drawn>>

Absent == -99
Input == 1     \* input_lamports of every configuration
SnapshotFormats == {4, 6, 7}
FormulaCode(formula) ==
  CASE formula = "weighted_random" -> 1 [] formula = "rank_desc" -> 2
    [] formula = "rank_asc" -> 3 [] formula = "first_n" -> 4 [] formula = "closest_to" -> 5
FormulaName(code) == CHOOSE formula \in Formulas : FormulaCode(formula) = code

-----------------------------------------------------------------------------
\* Building.

\* validateWinnersCount
WinnersFit(winnersCount, count) ==
  winnersCount > 0 /\ winnersCount <= count /\ winnersCount <= MaxWinners

DistinctIds(entries) ==
  \A i, j \in DOMAIN entries : entries[i].id = entries[j].id => i = j

\* A formula takes a weight, a score, or neither (buildFormulaDrawConfig,
\* ensureV5FormulaFields, which also takes an explicit weight of 1).
FieldsFit(raw, formula, format) ==
  /\ formula \in {"weighted_random", "first_n"} <=> raw.score = Absent
  /\ formula # "weighted_random" => raw.weight \in {Absent} \cup (IF format = 5 THEN {1} ELSE {})

\* Mutant: the order is the place of the entry once sorted by id.
OrderSorted(entries, i) == Quantify(DOMAIN entries, LAMBDA j : entries[j].id < entries[i].id)

\* The order an entry carries: its own if it has one, else the place at which it
\* was submitted, whatever its id sorts to.
OrderOf(entries, i) == IF entries[i].order = Absent THEN i - 1 ELSE entries[i].order

\* sortByAsciiId, after the defaults are filled in.
NormalizeEntries(entries) ==
  SortSeq([i \in DOMAIN entries |->
             [id     |-> entries[i].id,
              pad    |-> 0,
              weight |-> IF entries[i].weight = Absent THEN 1 ELSE entries[i].weight,
              score  |-> IF entries[i].score = Absent THEN 0 ELSE entries[i].score,
              order  |-> OrderOf(entries, i),
              payout |-> entries[i].payout]],
          LAMBDA a, b : a.id < b.id)

\* pushOutcomeWithTransferEffect: one transfer per outcome, in id order.
EffectsFor(sorted) ==
  [i \in DOMAIN sorted |-> [type |-> 1, pad |-> 0, amount |-> sorted[i].payout]]
OutcomesFor(sorted) ==
  [i \in DOMAIN sorted |->
     [id |-> sorted[i].id, pad |-> 0, weight |-> sorted[i].weight, score |-> sorted[i].score,
      order |-> sorted[i].order, first |-> i - 1, n |-> 1]]

\* serializeW3O1: formats 1 and 2 write neither score nor order nor formula.
SerializeW3O1(c) ==
  LET sorted == NormalizeEntries(c.entries)
  IN  [format |-> c.format, min |-> Input, max |-> Input, winners |-> c.winnersCount,
       code |-> IF c.format = 3 THEN FormulaCode(c.formula) ELSE 1,
       pad |-> 0, target |-> IF c.format = 3 THEN c.target ELSE 0,
       count |-> Len(sorted), effectCount |-> Len(sorted), payout |-> 0,
       outcomes |-> [i \in DOMAIN sorted |->
                       IF c.format = 3 THEN OutcomesFor(sorted)[i]
                       ELSE [OutcomesFor(sorted)[i] EXCEPT !.score = 0, !.order = i - 1]],
       effects |-> EffectsFor(sorted), trailing |-> 0]

\* normalizeEntries, normalizeFormulaEntries: what raffle, loot, airdrop and
\* formula_draw refuse.  Nothing bounds the size of what is built.
BuildsW3O1(c) ==
  /\ c.entries # <<>>
  /\ WinnersFit(c.winnersCount, Len(c.entries))
  /\ DistinctIds(c.entries)
  /\ \A i \in DOMAIN c.entries :
       IF c.format = 3 THEN FieldsFit(c.entries[i], c.formula, 3)
       ELSE c.entries[i].weight # Absent

\* Mutant: an order may be used twice.
OrdersFitLoose(entries) == \A i \in DOMAIN entries : OrderOf(entries, i) < Len(entries)

\* normalizeCompactNamedEntries: the orders are 0..count-1, each once.
OrdersFit(entries) ==
  /\ \A i \in DOMAIN entries : OrderOf(entries, i) < Len(entries)
  /\ \A i, j \in DOMAIN entries : OrderOf(entries, i) = OrderOf(entries, j) => i = j

\* buildArtifactV5, with its size limit.
BuildsV5(c) ==
  /\ c.entries # <<>> /\ Len(c.entries) <= MaxOutcomes
  /\ \A i \in DOMAIN c.entries : FieldsFit(c.entries[i], c.formula, 5)
  /\ OrdersFit(c.entries)
  /\ DistinctIds(c.entries)
  /\ WinnersFit(c.winnersCount, Len(c.entries))

BlobV5(c) ==
  LET sorted == NormalizeEntries(c.entries)
  IN  [format |-> 5, min |-> Input, max |-> Input, winners |-> c.winnersCount,
       code |-> FormulaCode(c.formula), pad |-> 0, target |-> c.target,
       count |-> Len(sorted), effectCount |-> 0, payout |-> c.payout,
       outcomes |-> [i \in DOMAIN sorted |-> [OutcomesFor(sorted)[i] EXCEPT !.first = 0, !.n = 0]],
       effects |-> <<>>, trailing |-> 0]

\* buildSnapshotArtifact: the snapshot itself is elsewhere; `outcomes` is empty
\* and `count` is snapshot_count.
BuildsSnapshot(c) == c.snapshotCount > 0 /\ WinnersFit(c.winnersCount, c.snapshotCount)

SnapshotBlob(c) ==
  [format |-> c.format, min |-> Input, max |-> Input, winners |-> c.winnersCount,
   code |-> FormulaCode(c.formula), pad |-> 0, target |-> c.target,
   count |-> c.snapshotCount, effectCount |-> 0, payout |-> c.payout,
   outcomes |-> <<>>, effects |-> <<>>, trailing |-> 0]

Refused == [format |-> 0]

\* buildArtifact
BuildArtifact(c) ==
  CASE c.format \in 1..3 /\ BuildsW3O1(c) -> SerializeW3O1(c)
    [] c.format = 5 /\ BuildsV5(c) -> BlobV5(c)
    [] c.format \in SnapshotFormats /\ BuildsSnapshot(c) -> SnapshotBlob(c)
    [] OTHER -> Refused

Compile ==
  /\ step = "configured"
  /\ blob' = BuildArtifact(config)
  /\ step' = IF blob' = Refused THEN "refused" ELSE "built"
  /\ UNCHANGED <<config, drawn>>

\* A blob that no builder wrote: one field that its format has is different.
\* Whoever submits an artifact chooses its bytes.
HeaderEdits(b) ==
  {[b EXCEPT !.min = 2], [b EXCEPT !.max = 2], [b EXCEPT !.pad = 1],
   [b EXCEPT !.count = b.count + 1], [b EXCEPT !.trailing = 1]}
   \cup (IF b.format = 1 THEN {} ELSE {[b EXCEPT !.winners = w] : w \in {0, b.winners + 1}})
   \cup (IF b.format \in 1..2 THEN {} ELSE {[b EXCEPT !.code = 0]})
   \cup (IF b.format \in 1..3 THEN {[b EXCEPT !.effectCount = b.effectCount + 1]} ELSE {})

EntryEdits(b, i) ==
  {[b EXCEPT !.outcomes[i].weight = 0], [b EXCEPT !.outcomes[i].pad = 1]}
   \cup {[b EXCEPT !.outcomes[i].id = id] : id \in ArtIds}
   \cup (IF b.format \in {1, 2} THEN {} ELSE {[b EXCEPT !.outcomes[i].order = o] : o \in 0..2})
   \cup (IF b.format \notin 1..3 THEN {}
         ELSE {[b EXCEPT !.outcomes[i].first = f] : f \in 0..1}
                \cup {[b EXCEPT !.outcomes[i].n = n] : n \in 0..2})

EffectEdits(b, i) == {[b EXCEPT !.effects[i].type = 2], [b EXCEPT !.effects[i].pad = 1]}

Edits(b) ==
  HeaderEdits(b) \cup UNION {EntryEdits(b, i) : i \in DOMAIN b.outcomes}
    \cup UNION {EffectEdits(b, i) : i \in DOMAIN b.effects}

Submit ==
  /\ step = "built"
  /\ blob' \in Edits(blob) \cup {blob}
  /\ step' = "served"
  /\ UNCHANGED <<config, drawn>>

-----------------------------------------------------------------------------
\* Parsing.

WinnersInRange(b) == b.winners >= 1 /\ b.winners <= b.count /\ b.winners <= MaxWinners
KnownFormula(b) == \E formula \in Formulas : FormulaCode(formula) = b.code

\* The id and weight of every entry; ids strictly sorted.
TableInOrder(b) ==
  /\ \A i \in DOMAIN b.outcomes : b.outcomes[i].pad = 0 /\ b.outcomes[i].weight > 0
  /\ \A i \in 2..Len(b.outcomes) : b.outcomes[i - 1].id < b.outcomes[i].id

OrdersInRange(b) ==
  /\ \A i \in DOMAIN b.outcomes : b.outcomes[i].order < b.count
  /\ \A i, j \in DOMAIN b.outcomes : b.outcomes[i].order = b.outcomes[j].order => i = j

\* The counts of the header and the length of the bytes fix each other; no two
\* counts this small give the same length.
LengthFits(b) ==
  /\ b.count = Len(b.outcomes) /\ b.effectCount = Len(b.effects)
  /\ b.trailing = 0 /\ Len(b.outcomes) <= MaxOutcomes

\* The effects of an outcome, as indexes into the effect table.
Slice(o) == (o.first + 1)..(o.first + o.n)

\* Mutant: a slice may reach into another outcome's effects in every format.
SlicesFitOverlapping(b) ==
  /\ \A i \in DOMAIN b.outcomes : b.outcomes[i].first + b.outcomes[i].n <= b.effectCount
  /\ 1..b.effectCount \subseteq UNION {Slice(b.outcomes[i]) : i \in DOMAIN b.outcomes}

\* Effect slices stay in the table, are disjoint from format 2 on, and leave no
\* effect without an outcome.
SlicesFit(b) ==
  /\ \A i \in DOMAIN b.outcomes : b.outcomes[i].first + b.outcomes[i].n <= b.effectCount
  /\ b.format # 1 =>
       \A i, j \in DOMAIN b.outcomes :
         i # j => Slice(b.outcomes[i]) \cap Slice(b.outcomes[j]) = {}
  /\ 1..b.effectCount \subseteq UNION {Slice(b.outcomes[i]) : i \in DOMAIN b.outcomes}

\* parseCompiledArtifact, formats 1 to 3.
ParsesW3O1(b) ==
  /\ b.min <= b.max /\ b.count > 0
  /\ b.format = 3 => KnownFormula(b)
  /\ b.pad = 0
  /\ b.format # 1 => WinnersInRange(b)
  /\ TableInOrder(b)
  /\ b.format = 3 => OrdersInRange(b)
  /\ LengthFits(b)
  /\ SlicesFit(b)
  /\ \A i \in DOMAIN b.effects : b.effects[i].type = 1 /\ b.effects[i].pad = 0

\* parseCompiledArtifact, format 5: the orders seen must also cover 0..count-1.
ParsesV5(b) ==
  /\ b.min <= b.max /\ KnownFormula(b) /\ b.pad = 0
  /\ b.count >= 1 /\ LengthFits(b)
  /\ WinnersInRange(b)
  /\ TableInOrder(b) /\ OrdersInRange(b)
  /\ 0..(b.count - 1) \subseteq {b.outcomes[i].order : i \in DOMAIN b.outcomes}

\* Mutant: an order may be used twice.
ParsesV5SnapshotAnyOrder(b) ==
  /\ b.min <= b.max /\ KnownFormula(b) /\ b.pad = 0
  /\ b.count >= 1 /\ LengthFits(b)
  /\ WinnersInRange(b)
  /\ TableInOrder(b)

\* parseArtifactV5 of sdk/snapshot.ts, used to build the claim before the draw;
\* it does not ask that the orders cover the range.
ParsesV5Snapshot(b) ==
  /\ b.min <= b.max /\ KnownFormula(b) /\ b.pad = 0
  /\ b.count >= 1 /\ LengthFits(b)
  /\ WinnersInRange(b)
  /\ TableInOrder(b) /\ OrdersInRange(b)

\* parseSnapshotArtifact
ParsesSnapshot(b) ==
  /\ b.min <= b.max /\ KnownFormula(b) /\ b.pad = 0 /\ b.trailing = 0
  /\ WinnersInRange(b)

Parses(b) ==
  CASE b.format \in 1..3 -> ParsesW3O1(b)
    [] b.format = 5 -> ParsesV5(b)
    [] OTHER -> ParsesSnapshot(b)

\* Format 1 reads no winners_count; formats 1 and 2 no formula and no target.
Winners(b) == IF b.format = 1 THEN 1 ELSE b.winners
Formula(b) == IF b.format \in {1, 2} THEN "weighted_random" ELSE FormulaName(b.code)

\* The effects a selected outcome pays: its slice, or one synthetic transfer.
PaidBy(b, o) ==
  IF b.format = 5 THEN (IF b.payout = 0 THEN <<>> ELSE <<b.payout>>)
  ELSE [i \in 1..o.n |-> b.effects[o.first + i].amount]

\* selectOutcomes for an input in the artifact's band.
SelectOutcomes(b, rolled) ==
  LET selected == SelectEntries(b.outcomes, Formula(b), b.target, Winners(b), rolled)
      effects == FlattenSeq([i \in DOMAIN selected |-> PaidBy(b, selected[i])])
  IN  [outcomeIds  |-> Ids(selected),
       totalOutput |-> FoldLeft(LAMBDA sum, amount : sum + amount, 0, effects),
       effects     |-> effects]

\* Two rounds are rolled; the artifact's winners use what they need.
Replay ==
  /\ step = "served"
  /\ IF ~Parses(blob) THEN step' = "rejected" /\ UNCHANGED drawn
     ELSE IF blob.format \in SnapshotFormats THEN step' = "committed" /\ UNCHANGED drawn
     ELSE /\ step' = "replayed"
          /\ \E rolled \in [1..MaxWinners -> 0..3] :
               /\ Formula(blob) # "weighted_random" => \A r \in DOMAIN rolled : rolled[r] = 0
               /\ drawn' = [rolls |-> rolled] @@ SelectOutcomes(blob, rolled)
  /\ UNCHANGED <<config, blob>>

ArtifactNext == Compile \/ Submit \/ Replay

-----------------------------------------------------------------------------
Raw(weights, scores, orders, payouts) ==
  BoundedSeq([id : ArtIds, weight : weights, score : scores, order : orders, payout : payouts],
             MaxEntries)

\* raffle and airdrop (one payout, one or more winners) and loot (a payout per
\* outcome, one winner); formula_draw; formula_draw_v5; the snapshot formats.
WeightedConfigs ==
  {[format |-> IF k > 1 THEN 2 ELSE 1, entries |-> es, winnersCount |-> k] :
     es \in Raw(ArtValues, {Absent}, {Absent}, Payouts), k \in 1..(MaxWinners + 1)}

FormulaConfigs ==
  UNION {{[format |-> format, formula |-> formula, target |-> 1, winnersCount |-> k,
           payout |-> 1, entries |-> es] :
            k \in 1..MaxWinners,
            es \in Raw(IF formula = "weighted_random" THEN ArtValues ELSE {Absent},
                       IF formula \in {"weighted_random", "first_n"} THEN {Absent} ELSE ArtValues,
                       IF format = 5 THEN {Absent, 0} ELSE {Absent}, {1})}
         : format \in {3, 5}, formula \in Formulas}

SnapshotConfigs ==
  {[format |-> format, formula |-> formula, target |-> 1, winnersCount |-> k, payout |-> p,
    snapshotCount |-> n] :
     format \in SnapshotFormats, formula \in Formulas, k \in 1..MaxWinners, p \in Payouts, n \in 0..2}

ArtifactInit ==
  /\ step = "configured"
  /\ config \in WeightedConfigs \cup FormulaConfigs \cup SnapshotConfigs
  /\ blob = Refused /\ drawn = <<>>

\* No artifact is being built.
ArtifactIdle == step = "idle" /\ config = Refused /\ blob = Refused /\ drawn = <<>>

-----------------------------------------------------------------------------
\* Whatever is built is accepted by the parsers, except an artifact of format 1
\* to 3 with more outcomes than fit (buildArtifact, parseCompiledArtifact,
\* parseSnapshotArtifact).
BuiltParses ==
  step = "built" =>
    Parses(blob) \/ (blob.format \in 1..3 /\ Len(blob.outcomes) > MaxOutcomes)

\* The compact artifact is parsed twice in the life of a draw, by sdk/snapshot.ts
\* for the claim and by sdk/verify.ts for the replay: both accept the same
\* bytes and select the same winners (parseArtifactV5, parseCompiledArtifact).
ParsersAgree ==
  /\ step = "served" /\ blob.format = 5 => (ParsesV5(blob) <=> ParsesV5Snapshot(blob))
  /\ step = "replayed" /\ blob.format = 5 =>
       LET claim == CompactClaim(blob.outcomes, Formula(blob), blob.target, blob.winners,
                                 drawn.rolls, blob.payout)
       IN  \A field \in DOMAIN claim : claim[field] = drawn[field]

\* Bytes that parse can be drawn: the replay names winners_count distinct
\* outcomes, and it pays no effect of the table twice, so a draw never pays
\* more than the table holds (selectOutcomes with the slice checks of
\* parseCompiledArtifact).
EffectsPaidOnce ==
  step = "replayed" =>
    /\ Len(drawn.outcomeIds) = Winners(blob) /\ IsInjective(drawn.outcomeIds)
    /\ blob.format # 5 =>
         drawn.totalOutput <= FoldLeft(LAMBDA sum, e : sum + e.amount, 0, blob.effects)

\* A participant without an order is ranked at the place it was submitted.
Place(i) == IF config.entries[i].order = Absent THEN i - 1 ELSE config.entries[i].order
Score(i) == [score |-> IF config.entries[i].score = Absent THEN 0 ELSE config.entries[i].score]

\* Sorting the table by id does not decide a draw: in the replay of a built
\* artifact a winner beats every loser by the formula or, when they tie, by
\* the order or place it was submitted with (OrderOf through
\* compareFormulaOutcomes).
TiesGoToTheEarlier ==
  (/\ step = "replayed" /\ config.format \in {3, 5}
   /\ config.formula # "weighted_random" /\ blob = BuildArtifact(config)) =>
      \A i, j \in DOMAIN config.entries :
        LET Key(n) == SortKey(Score(n), config.formula, config.target)
            Won(n) == config.entries[n].id \in ToSet(drawn.outcomeIds)
        IN  Won(i) /\ ~Won(j) => Key(i) < Key(j) \/ (Key(i) = Key(j) /\ Place(i) < Place(j))
=============================================================================
