---------------------------- MODULE CompositeRank ----------------------------
(***************************************************************************)
(* composite_rank_desc (sdk/composite_rank_desc.ts): participants carry    *)
(* several fields, each is normalised over all participants and weighted,  *)
(* and the sums are ranked.  A field value is an integer; the weights add  *)
(* up to WeightScale.                                                      *)
(***************************************************************************)
EXTENDS Selection

CONSTANTS
  FieldValues,    \* field values participants may have
  WeightScale,    \* COMPOSITE_WEIGHT_SCALE
  NormScale,      \* COMPOSITE_NORMALIZATION_SCALE
  CompIds,        \* participant ids
  CompMax         \* MAX_WINNERS

ASSUME CompAssumption ==
  /\ FieldValues \subseteq Int /\ WeightScale \in Nat \ {0} /\ NormScale \in Nat \ {0}
  /\ CompIds \subseteq Nat \ {0} /\ CompMax \in Nat \ {0}

VARIABLES
  stage,      \* where the artifact is
  comp,       \* its content: input bounds, mode, fields, participants, winners
  ranking,    \* ordered_ids of the replay
  raise       \* a participant raised one of its fields: who, and its old place

compVars == <<stage, comp, ranking, raise>>

Modes == {"none", "min_max"}
SumOver(s) == FoldLeft(LAMBDA sum, n : sum + n, 0, s)

\* validateFieldSpecs: distinct keys, positive weights that add up to the scale.
ValidFields(fields) ==
  /\ fields # <<>>
  /\ \A i \in DOMAIN fields : fields[i].weight > 0
  /\ \A i, j \in DOMAIN fields : fields[i].key = fields[j].key => i = j
  /\ SumOver([i \in DOMAIN fields |-> fields[i].weight]) = WeightScale

\* normalizeParticipants: ids and orders are unique, each has every field.
ValidParticipants(ps, fields) ==
  /\ ps # <<>>
  /\ \A i, j \in DOMAIN ps : ps[i].id = ps[j].id \/ ps[i].order = ps[j].order => i = j
  /\ \A i \in DOMAIN ps : Len(ps[i].values) = Len(fields)

SortedById(ps) == SortSeq(ps, LAMBDA a, b : a.id < b.id)

\* buildCompositeRankDescArtifact: what the configuration must be; the input of a
\* draw is one positive amount.
CompositeBuilds(c) ==
  /\ c.input > 0
  /\ ValidFields(c.fields)
  /\ ValidParticipants(c.participants, c.fields)
  /\ c.winners >= 1 /\ c.winners <= Len(c.participants) /\ c.winners <= CompMax

BuildComposite ==
  /\ stage = "configured"
  /\ IF CompositeBuilds(comp)
     THEN /\ comp' = [comp EXCEPT !.participants = SortedById(@), !.min = comp.input, !.max = comp.input]
          /\ stage' = "built"
     ELSE stage' = "refused" /\ UNCHANGED comp
  /\ UNCHANGED <<ranking, raise>>

\* Whoever submits an artifact chooses its bytes.
CompositeEdits(c) ==
  {[c EXCEPT !.winners = w] : w \in 0..(c.winners + 1)}
    \cup {[c EXCEPT !.min = b[1], !.max = b[2]] : b \in {<<0, 0>>, <<0, 1>>, <<2, 1>>}}
    \cup {[c EXCEPT !.fields[i].weight = w] : i \in DOMAIN c.fields, w \in 0..WeightScale}
    \cup {[c EXCEPT !.fields[i].key = 1] : i \in DOMAIN c.fields}
    \cup {[c EXCEPT !.participants[i].order = o] : i \in DOMAIN c.participants, o \in 0..1}
    \cup {[c EXCEPT !.participants[i].id = id] : i \in DOMAIN c.participants, id \in CompIds}

SubmitComposite ==
  /\ stage = "built"
  /\ comp' \in CompositeEdits(comp) \cup {comp}
  /\ stage' = "served"
  /\ UNCHANGED <<ranking, raise>>

\* Mutant: the parser does not add the weights up.
CompositeParsesUnsummed(c) ==
  /\ c.min <= c.max
  /\ c.winners >= 1 /\ c.winners <= Len(c.participants) /\ c.winners <= CompMax
  /\ \A i \in DOMAIN c.fields : c.fields[i].weight > 0
  /\ \A i \in 2..Len(c.participants) : c.participants[i - 1].id < c.participants[i].id

\* parseCompositeRankDescArtifact
CompositeParses(c) ==
  /\ c.min <= c.max
  /\ c.participants # <<>>
  /\ c.winners >= 1 /\ c.winners <= Len(c.participants) /\ c.winners <= CompMax
  /\ ValidFields(c.fields)
  /\ \A i \in 2..Len(c.participants) : c.participants[i - 1].id < c.participants[i].id
  /\ \A i, j \in DOMAIN c.participants :
       c.participants[i].order = c.participants[j].order => i = j

\* rangeForField
RangeForField(ps, f) ==
  LET values == {ps[i].values[f] : i \in DOMAIN ps}
  IN  [min |-> Min(values), max |-> Max(values)]

\* effectiveValue: BigInt division truncates; a field on which all agree has
\* no ordering power.
EffectiveValue(mode, raw, range) ==
  CASE mode = "none" -> raw
    [] mode = "min_max" /\ range.max = range.min -> 0
    [] OTHER -> ((raw - range.min) * NormScale) \div (range.max - range.min)

\* Mutant: the sum is kept in a signed integer too narrow for it.
CompositeScoreNarrow(c, i) ==
  LET exact == SumOver([f \in DOMAIN c.fields |->
                  c.fields[f].weight * EffectiveValue(c.mode, c.participants[i].values[f],
                                                      RangeForField(c.participants, f))])
  IN  ((exact + 8) % 16) - 8

\* compositeScore of participant i.
CompositeScore(c, i) ==
  SumOver([f \in DOMAIN c.fields |->
             c.fields[f].weight * EffectiveValue(c.mode, c.participants[i].values[f],
                                                 RangeForField(c.participants, f))])

Scored(c) ==
  [i \in DOMAIN c.participants |->
     [id |-> c.participants[i].id, order |-> c.participants[i].order, weight |-> 1,
      score |-> CompositeScore(c, i)]]

\* Mutant: equal scores stay in id order.
RanksBeforeUnordered(a, b) == a.score > b.score

\* The comparator of replayCompositeRankDescArtifact.
RanksBefore(a, b) == a.score > b.score \/ (a.score = b.score /\ a.order < b.order)

OrderedIds(c) ==
  LET insert(sorted, e) ==
        LET after == {i \in DOMAIN sorted : RanksBefore(e, sorted[i])}
        IN  InsertAt(sorted, IF after = {} THEN Len(sorted) + 1 ELSE Min(after), e)
  IN  Ids(FoldLeft(insert, <<>>, Scored(c)))

\* replayCompositeRankDescArtifact
ReplayComposite ==
  /\ stage = "served"
  /\ IF CompositeParses(comp)
     THEN stage' = "replayed" /\ ranking' = OrderedIds(comp)
     ELSE stage' = "rejected" /\ UNCHANGED ranking
  /\ UNCHANGED <<comp, raise>>

PlaceOf(id) == CHOOSE n \in DOMAIN ranking : ranking[n] = id

\* The same draw, had participant i a larger value in field f.
RaiseField ==
  /\ stage = "replayed"
  /\ \E i \in DOMAIN comp.participants, f \in DOMAIN comp.fields, v \in FieldValues :
       /\ v > comp.participants[i].values[f]
       /\ comp' = [comp EXCEPT !.participants[i].values[f] = v]
       /\ raise' = [id |-> comp.participants[i].id, place |-> PlaceOf(comp.participants[i].id)]
       /\ ranking' = OrderedIds(comp')
  /\ stage' = "raised"

CompositeNext == BuildComposite \/ SubmitComposite \/ ReplayComposite \/ RaiseField

CompositeInit ==
  /\ stage = "configured"
  /\ \E mode \in Modes, w \in 1..2, n \in 1..2, input \in {0, 1} :
     \E ids \in [1..2 -> CompIds], values \in [1..2 -> [1..2 -> FieldValues]] :
     \E third \in BoundedSeq([1..2 -> FieldValues], 1) :
       comp = [mode |-> mode, winners |-> w, input |-> input, min |-> 0, max |-> 0,
               fields |-> <<[key |-> 1, weight |-> WeightScale - n], [key |-> 2, weight |-> n]>>,
               participants |-> [i \in 1..2 |-> [id |-> ids[i], order |-> 2 - i, values |-> values[i]]]
                                \o [i \in DOMAIN third |-> [id |-> 2, order |-> 2, values |-> third[i]]]]
  /\ ranking = <<>> /\ raise = [id |-> 0]

CompositeIdle == stage = "idle" /\ comp = [winners |-> 0] /\ ranking = <<>> /\ raise = [id |-> 0]

-----------------------------------------------------------------------------
\* The parser accepts what the builder writes and, of fields, weights, winners
\* and participants, nothing else; of the bounds of the input, which the builder
\* writes as the same positive amount twice, it takes any two in order
\* (parseCompositeRankDescArtifact against buildCompositeRankDescArtifact).
ParserIsTheBuilder ==
  stage = "served" =>
    (CompositeParses(comp)
       <=> /\ comp.min <= comp.max
           /\ CompositeBuilds([comp EXCEPT !.input = 1])
           /\ SortedById(comp.participants) = comp.participants)

\* A participant who raises one of its fields never falls behind anybody it was
\* ahead of, though normalisation moves everybody's value and truncates
\* (rangeForField, effectiveValue).
RaisingNeverLoses == stage = "raised" => PlaceOf(raise.id) <= raise.place

\* The verifier's selection over composite scores names the winners the replay
\* of the artifact names, equal scores included (selectOutcomes against
\* replayCompositeRankDescArtifact).
VerifierRanksAlike ==
  stage \in {"replayed", "raised"} =>
    Ids(SelectEntries(Scored(comp), "rank_desc", 0, comp.winners, <<>>))
      = SubSeq(ranking, 1, comp.winners)
=============================================================================
