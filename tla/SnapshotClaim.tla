---------------------------- MODULE SnapshotClaim ----------------------------
(***************************************************************************)
(* Scale draws over a snapshot file (sdk/snapshot.ts): the organiser       *)
(* normalises the participants into canonical JSONL and commits to the     *)
(* file's hash, count and Merkle root; whoever replays the draw reads some *)
(* file line by line, inspects it against the commitment and streams it    *)
(* again to compute the claim, once per weighted round.                    *)
(*                                                                         *)
(* Hashes are symbolic: a file's hash is the sequence of its canonical     *)
(* lines, a leaf and a node of the tree are terms.  An id is a number, in  *)
(* the byte order of the ids.                                              *)
(***************************************************************************)
EXTENDS Selection

CONSTANTS
  SnapIds,      \* participant ids
  Orders,       \* order values participants may carry
  Weights,      \* weight values, 0 being invalid
  Scores,       \* score values
  Targets,      \* target scores of closest_to
  MaxSnapshot,  \* bound on the participants of a snapshot
  MaxWinnersSnap \* bound on winners_count

ASSUME SnapAssumption ==
  /\ SnapIds \subseteq Nat \ {0} /\ Orders \subseteq Nat /\ Weights \subseteq Nat
  /\ Scores \subseteq Int /\ Targets \subseteq Int
  /\ MaxSnapshot \in Nat \ {0} /\ MaxWinnersSnap \in Nat \ {0}

VARIABLES
  pc,          \* where the job is
  job,         \* the draw: participants as submitted, formula, winners, target
  commitment,  \* snapshot_hash, snapshot_count and merkle_root on chain
  file,        \* the lines of the file that is read
  pos,         \* lines read in the current pass
  lines,       \* inspection: canonical lines hashed so far
  best,        \* rank formulas: the best entries so far
  winners,     \* weighted_random: entries selected so far
  total,       \* weighted_random: weight summed in the first pass of a round
  cursor,      \* weighted_random: weight passed in the second pass
  rolls        \* the rolls used so far

snapVars == <<pc, job, commitment, file, pos, lines, best, winners, total, cursor, rolls>>

\* An absent optional field, and the id of a line that does not parse.
None == -99
BadId == 0

-----------------------------------------------------------------------------
\* Canonical lines, the snapshot hash and the Merkle tree.

\* canonicalSnapshotLine: only the fields the formula uses are written.
CanonicalSnapshotLine(e, formula) ==
  CASE formula = "weighted_random" -> <<e.id, e.order, e.weight>>
    [] formula = "first_n"         -> <<e.id, e.order>>
    [] OTHER                       -> <<e.id, e.order, e.score>>

Leaf(line) == [leaf |-> line]
Node(l, r) == [left |-> l, right |-> r]

\* buildNextMerkleLevel: the last node of an odd level is paired with itself.
NextMerkleLevel(level) ==
  [i \in 1..((Len(level) + 1) \div 2) |->
     Node(level[2 * i - 1], IF 2 * i <= Len(level) THEN level[2 * i] ELSE level[2 * i - 1])]

\* buildMerkleLevels, leaves first; [n] is the n-th level above the leaves.
MerkleLevels(ls) ==
  LET level[n \in 0..Len(ls)] ==
        IF n = 0 THEN [i \in DOMAIN ls |-> Leaf(ls[i])]
        ELSE IF Len(level[n - 1]) = 1 THEN level[n - 1] ELSE NextMerkleLevel(level[n - 1])
  IN  level

Height(ls) == Min({n \in 0..Len(ls) : Len(MerkleLevels(ls)[n]) = 1})
MerkleRoot(ls) == MerkleLevels(ls)[Height(ls)][1]

\* Mutant: the side of the sibling is the parity of the one-based index.
SiblingSideSwapped(index) == IF index % 2 = 0 THEN "left" ELSE "right"

SiblingSide(index) == IF index % 2 = 1 THEN "left" ELSE "right"

\* buildMerkleProof for the leaf with zero-based index leafIndex.
MerkleProof(ls, leafIndex) ==
  [n \in 1..Height(ls) |->
     LET level == MerkleLevels(ls)[n - 1]
         index == leafIndex \div 2^(n - 1)
         sibling == IF index % 2 = 1 THEN index - 1 ELSE index + 1
     IN  [position |-> SiblingSide(index),
          sibling  |-> level[(IF sibling < Len(level) THEN sibling ELSE index) + 1]]]

\* computeSnapshotMerkleRootFromProof
RootFromProof(line, proof) ==
  FoldLeft(LAMBDA node, step : IF step.position = "left" THEN Node(step.sibling, node)
                                                         ELSE Node(node, step.sibling),
           Leaf(line), proof)

\* verifySnapshotMerkleProof
VerifyMerkleProof(line, proof, root) == RootFromProof(line, proof) = root

-----------------------------------------------------------------------------
\* Building a snapshot from the participants.

\* normalizeSnapshotParticipant: the default order is the position submitted,
\* the default weight is 1, and a field the formula does not use is refused.
Usable(raw, formula) ==
  IF formula = "weighted_random" THEN raw.score = None /\ raw.weight # 0
  ELSE /\ raw.weight = None
       /\ (formula = "first_n") <=> (raw.score = None)

NormalizeParticipant(raw, index, formula) ==
  [id     |-> raw.id,
   order  |-> IF raw.order = None THEN index - 1 ELSE raw.order,
   weight |-> IF formula # "weighted_random" \/ raw.weight = None THEN 1 ELSE raw.weight,
   score  |-> IF raw.score = None THEN 0 ELSE raw.score]

\* normalizeSnapshotParticipants: by id, a duplicate id is refused.
Normalizable(participants, formula) ==
  /\ participants # <<>>
  /\ \A i \in DOMAIN participants : Usable(participants[i], formula)
  /\ \A i, j \in DOMAIN participants : participants[i].id = participants[j].id => i = j

NormalizeParticipants(participants, formula) ==
  SortSeq([i \in DOMAIN participants |-> NormalizeParticipant(participants[i], i, formula)],
          LAMBDA a, b : a.id < b.id)

CanonicalLines(entries, formula) ==
  [i \in DOMAIN entries |-> CanonicalSnapshotLine(entries[i], formula)]

\* buildSnapshotHash: what the organiser commits to.
CommitmentOf(entries, formula) ==
  LET ls == CanonicalLines(entries, formula)
  IN  [hash |-> ls, count |-> Len(ls), root |-> MerkleRoot(ls)]

\* buildSnapshotHash refuses, or the organiser publishes the file it built.
Build ==
  /\ pc = "build"
  /\ IF Normalizable(job.participants, job.formula)
     THEN /\ file' = NormalizeParticipants(job.participants, job.formula)
          /\ commitment' = CommitmentOf(file', job.formula)
          /\ pc' = "serve"
     ELSE pc' = "refused" /\ UNCHANGED <<file, commitment>>
  /\ UNCHANGED <<job, pos, lines, best, winners, total, cursor, rolls>>

\* A file that is not the one published: lines swapped, dropped, repeated or
\* changed, a line that does not parse, no line at all.
OtherFiles(f) ==
  {Append(f, f[Len(f)]), Tail(f), Reverse(f)}
    \cup {[f EXCEPT ![i].score = s] : i \in DOMAIN f, s \in Scores}
    \cup {[f EXCEPT ![i].weight = w] : i \in DOMAIN f, w \in Weights}
    \cup {[f EXCEPT ![i].id = BadId] : i \in DOMAIN f}

\* The storage hands some file to whoever replays the draw.
Serve ==
  /\ pc = "serve"
  /\ file' \in OtherFiles(file) \cup {file}
  /\ pc' = "inspect"
  /\ UNCHANGED <<job, commitment, pos, lines, best, winners, total, cursor, rolls>>

-----------------------------------------------------------------------------
\* Reading the file.

\* readCanonicalSnapshotEntries: a line is validated for the formula, and the
\* fields the formula does not use are replaced by their defaults.
Valid(line, formula) ==
  line.id # BadId /\ (formula = "weighted_random" => line.weight > 0)
EntryOf(line, formula) ==
  [line EXCEPT !.weight = IF formula = "weighted_random" THEN line.weight ELSE 1,
               !.score  = IF formula \in {"weighted_random", "first_n"} THEN 0 ELSE line.score]

EntryAt(n) == EntryOf(file[n + 1], job.formula)

\* Mutant: an id equal to the previous one is let through.
SortedAfterLoose(previous, e) == previous = <<>> \/ previous[Len(previous)][1] <= e.id

\* Entries must be strictly sorted by id.
SortedAfter(previous, e) == previous = <<>> \/ previous[Len(previous)][1] < e.id

\* inspectSnapshotFile, one line.
InspectLine ==
  /\ pc = "inspect" /\ pos < Len(file)
  /\ IF Valid(file[pos + 1], job.formula) /\ SortedAfter(lines, EntryAt(pos))
     THEN /\ lines' = Append(lines, CanonicalSnapshotLine(EntryAt(pos), job.formula))
          /\ pos' = pos + 1
          /\ UNCHANGED pc
     ELSE pc' = "refused" /\ UNCHANGED <<lines, pos>>
  /\ UNCHANGED <<job, commitment, file, best, winners, total, cursor, rolls>>

\* Mutant: only the number of lines is compared with the commitment.
MatchesCount(ls) == ls # <<>> /\ Len(ls) = commitment.count

MatchesCommitment(ls) ==
  /\ ls # <<>>
  /\ ls = commitment.hash
  /\ Len(ls) = commitment.count
  /\ MerkleRoot(ls) = commitment.root

\* inspectSnapshotFile at the end of the file.
InspectEnd ==
  /\ pc = "inspect" /\ pos = Len(file)
  /\ pc' = IF ~MatchesCommitment(lines) THEN "refused"
           ELSE IF job.formula = "weighted_random" THEN "sum" ELSE "rank"
  /\ pos' = 0
  /\ UNCHANGED <<job, commitment, file, lines, best, winners, total, cursor, rolls>>

-----------------------------------------------------------------------------
\* buildSnapshotClaimFromFile.

\* Mutant: the list is cut before the new entry finds its place.
KeepBestCutFirst(sorted, e) ==
  IF Len(sorted) = job.winnersCount THEN sorted
  ELSE InsertSorted(sorted, e, job.formula, job.target)

\* push, sort, truncate to winnersCount.
KeepBest(sorted, e) ==
  LET all == InsertSorted(sorted, e, job.formula, job.target)
  IN  SubSeq(all, 1, IF Len(all) > job.winnersCount THEN job.winnersCount ELSE Len(all))

RankLine ==
  /\ pc = "rank" /\ pos < Len(file)
  /\ best' = KeepBest(best, EntryAt(pos))
  /\ pos' = pos + 1
  /\ UNCHANGED <<pc, job, commitment, file, lines, winners, total, cursor, rolls>>

RankEnd ==
  /\ pc = "rank" /\ pos = Len(file)
  /\ pc' = IF Len(best) = job.winnersCount THEN "done" ELSE "failed"
  /\ UNCHANGED <<job, commitment, file, pos, lines, best, winners, total, cursor, rolls>>

\* Mutant: the winners of earlier rounds stay in the weighted passes.
SelectedNever(e) == FALSE

\* selected.has(entry.id)
Selected(e) == \E i \in DOMAIN winners : winners[i].id = e.id

\* First pass of a round: the remaining weight.
SumLine ==
  /\ pc = "sum" /\ pos < Len(file)
  /\ total' = total + (IF Selected(EntryAt(pos)) THEN 0 ELSE EntryAt(pos).weight)
  /\ pos' = pos + 1
  /\ UNCHANGED <<pc, job, commitment, file, lines, best, winners, cursor, rolls>>

\* The roll of the round is any u64; its residue modulo the total decides.
SumEnd ==
  /\ pc = "sum" /\ pos = Len(file)
  /\ IF total = 0
     THEN pc' = "failed" /\ UNCHANGED rolls
     ELSE pc' = "scan" /\ \E rolled \in 0..(total - 1) : rolls' = Append(rolls, rolled)
  /\ pos' = 0 /\ cursor' = 0
  /\ UNCHANGED <<job, commitment, file, lines, best, winners, total>>

\* Second pass: the entry whose weight takes the cursor past the roll wins,
\* and the next round starts; at the end of the file the selection failed.
ScanLine ==
  /\ pc = "scan" /\ pos < Len(file)
  /\ LET e == EntryAt(pos)
         reached == cursor + e.weight
     IN  IF ~Selected(e) /\ rolls[Len(rolls)] < reached
         THEN /\ winners' = Append(winners, e)
              /\ pc' = IF Len(winners') = job.winnersCount THEN "done" ELSE "sum"
              /\ pos' = 0 /\ cursor' = 0 /\ total' = 0
         ELSE /\ cursor' = IF Selected(e) THEN cursor ELSE reached
              /\ pos' = pos + 1
              /\ pc' = IF pos' = Len(file) THEN "failed" ELSE pc
              /\ UNCHANGED <<winners, total>>
  /\ UNCHANGED <<job, commitment, file, lines, best, rolls>>

-----------------------------------------------------------------------------
SnapshotNext ==
  \/ Build \/ Serve
  \/ InspectLine \/ InspectEnd
  \/ RankLine \/ RankEnd
  \/ SumLine \/ SumEnd \/ ScanLine

\* The participants an organiser submits for a formula, among them one that
\* carries a field the formula does not use.
Submitted(formula) ==
  LET weights == IF formula = "weighted_random" THEN Weights \cup {None} ELSE {None}
      scores  == IF formula \in {"weighted_random", "first_n"} THEN {None} ELSE Scores
  IN  [id : SnapIds, order : Orders \cup {None}, weight : weights, score : scores]
        \cup {[id |-> 1, order |-> None, weight |-> 1, score |-> 1]}

SnapshotInit ==
  /\ pc = "build"
  /\ \E formula \in Formulas, k \in 1..MaxWinnersSnap, t \in Targets :
       /\ formula # "closest_to" => \A u \in Targets : t <= u
       /\ \E ps \in BoundedSeq(Submitted(formula), MaxSnapshot) :
            job = [participants |-> ps, formula |-> formula, winnersCount |-> k, target |-> t]
  /\ commitment = [count |-> 0]
  /\ file = <<>> /\ pos = 0 /\ lines = <<>> /\ best = <<>> /\ winners = <<>>
  /\ total = 0 /\ cursor = 0 /\ rolls = <<>>

\* No snapshot draw is under way.
SnapshotIdle ==
  /\ pc = "idle" /\ job = [formula |-> "none"] /\ commitment = [count |-> 0]
  /\ file = <<>> /\ pos = 0 /\ lines = <<>> /\ best = <<>> /\ winners = <<>>
  /\ total = 0 /\ cursor = 0 /\ rolls = <<>>

-----------------------------------------------------------------------------
Entries == [i \in DOMAIN file |-> EntryOf(file[i], job.formula)]
Claiming == pc \in {"rank", "sum", "scan", "done", "failed"}

\* The claim is computed over the snapshot that was committed and no other, and
\* a file is refused only when its lines are not the committed ones: swapped,
\* dropped, repeated or changed lines are told from the published file, a
\* change of a field the formula does not use is not (inspectSnapshotFile).
InspectionIsExact ==
  /\ Claiming => CanonicalLines(Entries, job.formula) = commitment.hash
  /\ pc = "refused" /\ commitment.count > 0 =>
       \/ \E i \in DOMAIN file : ~Valid(file[i], job.formula)
       \/ CanonicalLines(Entries, job.formula) # commitment.hash

Inspectable(ls) == \A i \in DOMAIN ls : SortedAfter(SubSeq(ls, 1, i - 1), [id |-> ls[i][1]])

\* The committed Merkle root alone fixes the snapshot: no other list of its
\* lines that inspection would let through has the same root, although an odd
\* node is paired with itself (buildNextMerkleLevel).
RootBindsSnapshot ==
  pc \in {"rank", "sum"} /\ pos = 0 /\ winners = <<>> =>
    \A other \in BoundedSeq(ToSet(lines), Len(lines) + 1) :
      other # <<>> /\ other # lines /\ Inspectable(other) => MerkleRoot(other) # commitment.root

\* Every participant's proof verifies against the committed root, and neither
\* another line nor another participant's does (buildMerkleProof,
\* verifySnapshotMerkleProof).
ProofsVerify ==
  pc \in {"rank", "sum"} /\ pos = 0 /\ winners = <<>> =>
    \A i, j \in DOMAIN lines :
      VerifyMerkleProof(lines[j], MerkleProof(lines, i - 1), commitment.root) <=> i = j

\* What a snapshot is worth as evidence: the inspection accepts exactly the
\* committed file, no other list has its root, and inclusion proofs verify for
\* the line they were built for and for no other.
SnapshotSound == InspectionIsExact /\ RootBindsSnapshot /\ ProofsVerify

\* The stream keeps exactly what sorting everything read so far would keep,
\* ties included (the push-sort-truncate loop of buildSnapshotClaimFromFile).
BestIsTopOfPrefix ==
  pc = "rank" =>
    LET sorted == SortEntries(SubSeq(Entries, 1, pos), job.formula, job.target)
    IN  best = SubSeq(sorted, 1, IF pos < job.winnersCount THEN pos ELSE job.winnersCount)

\* The streamed claim is the one the in-memory replay computes from the same
\* rolls, and it fails only for want of participants (buildSnapshotClaimFromFile
\* against selectOutcomes and buildCompactNamedEntryClaimFromArtifactV5).
ClaimIsTheReplay ==
  /\ pc = "done" =>
       /\ Selectable(Entries, job.winnersCount)
       /\ ClaimOf(Ids(IF job.formula = "weighted_random" THEN winners ELSE best), 1)
           = CompactClaim(Entries, job.formula, job.target, job.winnersCount, rolls, 1)
  /\ pc = "failed" => ~Selectable(Entries, job.winnersCount)

\* In every weighted round each remaining participant wins for as many of the
\* possible rolls as its weight (chooseWeightedIndex).
RoundsAreProportional ==
  pc = "sum" /\ pos = Len(file) /\ total > 0 =>
    LET remaining == SelectSeq(Entries, LAMBDA e : ~Selected(e))
    IN  \A i \in DOMAIN remaining :
          remaining[i].weight
            = Quantify(0..(total - 1), LAMBDA r : ChooseWeightedIndex(remaining, r) = i)

\* The claim of a draw over a file, computed line by line and round by round, is
\* the claim of the in-memory replay, with the odds the weights say.
ClaimsAreReplays == BestIsTopOfPrefix /\ ClaimIsTheReplay /\ RoundsAreProportional

=============================================================================
