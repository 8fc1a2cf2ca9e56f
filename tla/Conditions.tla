----------------------------- MODULE Conditions -----------------------------
(***************************************************************************)
(* Conditions rounds (sdk/conditions.ts): entrants commit to slips, a slip *)
(* is a list of legs about match statistics with odds, and the round pays  *)
(* the slips whose legs all hit in proportion to the product of the odds.  *)
(* Odds and scores are fixed-point integers; OddsScale, FixedScale and the *)
(* two limits stand for 1000, 10000, u128::MAX and u64::MAX.               *)
(***************************************************************************)
EXTENDS Integers, Sequences, SequencesExt

CONSTANTS
  LegChoices,    \* legs entrants may pick
  StatValues,    \* values of a statistic
  Fixtures,      \* the round's fixtures, 0 to their number less one
  Statistics,    \* what is known of them: pairs of a fixture and a statistic
  OddsScale, FixedScale,
  MinOdds, MaxOdds,
  MaxLegs,       \* MAX_LEGS
  ProductMax,    \* u128::MAX
  ScoreMax,      \* u64::MAX
  Entrants       \* wallets, as numbers in byte order

ASSUME OddsAssumption ==
  /\ OddsScale \in Nat \ {0} /\ FixedScale \in Nat \ {0}
  /\ MinOdds \in Nat /\ MinOdds > OddsScale /\ MaxOdds \in Nat
  /\ MaxLegs \in Nat /\ ProductMax \in Nat /\ ScoreMax \in Nat
  /\ Entrants \subseteq Nat /\ StatValues \subseteq Int
  /\ Fixtures \subseteq Nat /\ Statistics \subseteq Fixtures \X Nat

VARIABLES
  phase,     \* where the round is
  slips,     \* entrants with their legs and fixtureIndex, as the artifact lists them
  facts,     \* the statistics known, a function on pairs of a fixture and a key
  ranked     \* the replay's ranking

condVars == <<phase, slips, facts, ranked>>

NoLine == -1000   \* NO_LINE
Null == -1        \* coefficientFixed returned null

-----------------------------------------------------------------------------
\* validateLeg
ValidLeg(l) ==
  /\ l.kind \in {"single", "binary"} /\ l.op \in {"none", "add", "subtract"}
  /\ l.cmp \in {"gt", "lt", "eq"}
  /\ l.kind = "single" => l.op = "none" /\ l.b = 0
  /\ l.kind = "binary" => l.op # "none"
  /\ l.odds \in MinOdds..MaxOdds

\* The value a leg is about, in its fixture; a statistic may be unknown.
Known(l, f) ==
  <<f, l.a>> \in DOMAIN facts /\ (l.kind = "binary" => <<f, l.b>> \in DOMAIN facts)
ValueOf(l, f) ==
  IF l.kind = "single" THEN facts[<<f, l.a>>]
  ELSE IF l.op = "add" THEN facts[<<f, l.a>>] + facts[<<f, l.b>>]
  ELSE facts[<<f, l.a>>] - facts[<<f, l.b>>]

Compares(cmp, value, bound) ==
  CASE cmp = "gt" -> value > bound
    [] cmp = "lt" -> value < bound
    [] OTHER -> value = bound

\* Mutant: a total on the line counts for the under.
EvalLegNoPush(l, f) ==
  IF ~Known(l, f) THEN "pending"
  ELSE IF l.line = NoLine THEN (IF Compares(l.cmp, ValueOf(l, f), l.threshold) THEN "hit" ELSE "miss")
  ELSE IF l.cmp = "gt" /\ 2 * ValueOf(l, f) >= l.line THEN "hit"
  ELSE IF l.cmp = "lt" /\ 2 * ValueOf(l, f) <= l.line THEN "hit" ELSE "miss"

\* evalLeg: lines are doubled, a total on a whole line is void, and an equality
\* has no meaning against a line.
EvalLeg(l, f) ==
  CASE ~Known(l, f) -> "pending"
    [] Known(l, f) /\ l.line = NoLine ->
         (IF Compares(l.cmp, ValueOf(l, f), l.threshold) THEN "hit" ELSE "miss")
    [] OTHER ->
         (IF l.line % 2 = 0 /\ 2 * ValueOf(l, f) = l.line THEN "void"
          ELSE IF l.cmp # "eq" /\ Compares(l.cmp, 2 * ValueOf(l, f), l.line) THEN "hit" ELSE "miss")

\* coefficientFixed: round half up, with every rejection of the fixed-point
\* arithmetic.
CoefficientFixed(odds) ==
  LET product == FoldLeft(LAMBDA p, o : p * o, 1, odds)
      denom == OddsScale ^ Len(odds)
      numerator == product * FixedScale + denom \div 2
  IN  IF \/ Len(odds) > MaxLegs
         \/ \E i \in DOMAIN odds : odds[i] \notin MinOdds..MaxOdds
         \/ product > ProductMax \/ numerator > ProductMax
         \/ numerator \div denom > ScoreMax
      THEN Null ELSE numerator \div denom

OddsOf(legs) == [i \in DOMAIN legs |-> legs[i].odds]

\* Mutant: the worst case is not computed.
ValidSlipLoose(s) ==
  /\ Len(s.legs) = Len(s.fixtureIndex) /\ Len(s.legs) <= MaxLegs
  /\ \A i \in DOMAIN s.legs : s.fixtureIndex[i] \in Fixtures /\ ValidLeg(s.legs[i])

\* validateConditionsArtifact, for one entrant.
ValidSlip(s) ==
  /\ Len(s.legs) = Len(s.fixtureIndex) /\ Len(s.legs) <= MaxLegs
  /\ \A i \in DOMAIN s.fixtureIndex : s.fixtureIndex[i] \in Fixtures
  /\ \A i \in DOMAIN s.legs : ValidLeg(s.legs[i])
  /\ CoefficientFixed(OddsOf(s.legs)) # Null

\* scoreSlip: each leg is judged by the statistics of its fixture, void legs
\* leave the product, a null coefficient counts as 0.
ScoreSlip(s) ==
  LET results == [i \in DOMAIN s.legs |-> EvalLeg(s.legs[i], s.fixtureIndex[i])]
      settled == \A i \in DOMAIN s.legs : results[i] # "pending"
      allHit  == settled /\ \A i \in DOMAIN s.legs : results[i] # "miss"
      effective == SelectSeq([i \in DOMAIN s.legs |-> <<results[i], s.legs[i].odds>>],
                             LAMBDA r : r[1] # "void")
      coefficient == CoefficientFixed([i \in DOMAIN effective |-> effective[i][2]])
  IN  [settled |-> settled, allHit |-> allHit,
       score |-> IF ~allHit \/ coefficient = Null THEN 0 ELSE coefficient]

\* Mutant: the wallet does not break ties.
OutranksNoWallet(x, y) ==
  \/ x.allHit /\ ~y.allHit
  \/ x.allHit = y.allHit /\ x.score > y.score
  \/ x.allHit = y.allHit /\ x.score = y.score /\ x.enteredAt < y.enteredAt

\* The comparator of rankRound.
Outranks(x, y) ==
  \/ x.allHit /\ ~y.allHit
  \/ x.allHit = y.allHit /\ x.score > y.score
  \/ x.allHit = y.allHit /\ x.score = y.score /\ x.enteredAt < y.enteredAt
  \/ x.allHit = y.allHit /\ x.score = y.score /\ x.enteredAt = y.enteredAt /\ x.wallet < y.wallet

InsertRanked(sorted, e) ==
  LET after == {i \in DOMAIN sorted : Outranks(e, sorted[i])}
  IN  InsertAt(sorted, IF after = {} THEN Len(sorted) + 1 ELSE Min(after), e)

\* rankRound
RankRound(entrants) == FoldLeft(InsertRanked, <<>>, entrants)

\* resolveConditionsArtifact
Resolved(entrants) ==
  RankRound([i \in DOMAIN entrants |->
               [wallet |-> entrants[i].wallet, enteredAt |-> entrants[i].enteredAt]
                 @@ ScoreSlip(entrants[i])])

\* winnersDigest, as the sequence that is hashed; winningScoreSum.
WinnersDigest(rs) ==
  LET winners == SelectSeq(rs, LAMBDA r : r.allHit)
  IN  [i \in DOMAIN winners |-> <<winners[i].wallet, winners[i].score>>]
WinningScoreSum(rs) ==
  FoldLeft(LAMBDA sum, r : sum + r.score, 0, SelectSeq(rs, LAMBDA r : r.allHit))

OpCode == [none |-> 0, add |-> 1, subtract |-> 2]
CmpCode == [gt |-> 0, lt |-> 1, eq |-> 2]
LegKey(l) == <<l.a, l.b, OpCode[l.op], CmpCode[l.cmp], l.threshold, l.line, l.odds>>

\* Mutant: the odds are not compared.
LegBeforeNoOdds(x, y) ==
  \E n \in 1..6 : LegKey(x)[n] < LegKey(y)[n] /\ \A m \in 1..(n - 1) : LegKey(x)[m] = LegKey(y)[m]

\* The comparator of sortLegs, which leaves the kind of the term out.
LegBefore(x, y) ==
  \E n \in 1..7 : LegKey(x)[n] < LegKey(y)[n] /\ \A m \in 1..(n - 1) : LegKey(x)[m] = LegKey(y)[m]

InsertLeg(sorted, l) ==
  LET after == {i \in DOMAIN sorted : LegBefore(l, sorted[i])}
  IN  InsertAt(sorted, IF after = {} THEN Len(sorted) + 1 ELSE Min(after), l)

\* sortLegs, and slipHash as what it hashes.
SortLegs(legs) == FoldLeft(InsertLeg, <<>>, legs)
SlipHash(s) == <<s.wallet, SortLegs(s.legs)>>

-----------------------------------------------------------------------------
\* resolve_conditions validates the artifact before it replays it.
Validate ==
  /\ phase = "committed"
  /\ phase' = IF \A i \in DOMAIN slips : ValidSlip(slips[i]) THEN "open" ELSE "invalid"
  /\ UNCHANGED <<slips, facts, ranked>>

\* The statistics come in.
Report ==
  /\ phase = "open"
  /\ \E key \in Statistics \ DOMAIN facts, v \in StatValues : facts' = facts @@ (key :> v)
  /\ UNCHANGED <<phase, slips, ranked>>

Resolve ==
  /\ phase = "open"
  /\ ranked' = Resolved(slips)
  /\ phase' = "resolved"
  /\ UNCHANGED <<slips, facts>>

ConditionsNext == Validate \/ Report \/ Resolve

\* Indexes an artifact may give legs: one fixture for all, one each, one too
\* many or too few.
IndexChoices(legs) == {[i \in DOMAIN legs |-> (i - 1) * n] : n \in 0..2} \cup {<<0>>}

ConditionsInit ==
  /\ phase = "committed"
  /\ \E legs \in BoundedSeq(LegChoices, 2), others \in BoundedSeq(LegChoices, 1),
       wallets \in [1..2 -> Entrants], late \in {0, 1} :
     \E index \in IndexChoices(legs) :
       slips = <<[wallet |-> wallets[1], enteredAt |-> late, legs |-> legs, fixtureIndex |-> index],
                 [wallet |-> wallets[2], enteredAt |-> 0, legs |-> others,
                  fixtureIndex |-> [i \in DOMAIN others |-> 0]]>>
  /\ facts = [k \in {} |-> 0] /\ ranked = <<>>

ConditionsIdle == phase = "idle" /\ slips = <<>> /\ facts = [k \in {} |-> 0] /\ ranked = <<>>

-----------------------------------------------------------------------------
\* A validated slip that hit has a score, at least that of a void slip: the
\* fall-back to 0 for a coefficient that does not fit is never taken, whatever
\* legs turn out void (validateConditionsArtifact, scoreSlip).
WinnersHaveScore ==
  phase = "resolved" =>
    \A i \in DOMAIN ranked : ranked[i].allHit => ranked[i].score >= FixedScale

\* The digest on chain does not depend on the order in which the entrants are
\* listed, except that of two identical entries (rankRound, winnersDigest).
DigestIsOrderFree ==
  phase = "resolved" => WinnersDigest(Resolved(Reverse(slips))) = WinnersDigest(ranked)

\* The slip hash an entrant signed does not depend on the order of its legs
\* (sortLegs leaves the kind of a term out, which a valid leg's operation fixes).
SlipHashIsOrderFree ==
  phase = "open" =>
    \A i \in DOMAIN slips : SlipHash([slips[i] EXCEPT !.legs = Reverse(@)]) = SlipHash(slips[i])

\* The over and the under of the same line of a fixture never both pay, and if either is
\* void so is the other (evalLeg).
OverExcludesUnder ==
  \A i, j \in DOMAIN slips :
    \A m \in DOMAIN slips[i].legs, n \in DOMAIN slips[j].legs, f \in Fixtures :
      LET over == slips[i].legs[m]
          under == slips[j].legs[n]
      IN  (over.line # NoLine /\ over.cmp = "gt" /\ under = [over EXCEPT !.cmp = "lt", !.odds = under.odds]) =>
            /\ ~(EvalLeg(over, f) = "hit" /\ EvalLeg(under, f) = "hit")
            /\ EvalLeg(over, f) = "void" <=> EvalLeg(under, f) = "void"
=============================================================================
