------------------------------ MODULE Verifier ------------------------------
(***************************************************************************)
(* verifyOutcome (sdk/verify.ts): one verification of one transaction.     *)
(* The verifier finds the resolution event in the transaction's logs, asks *)
(* a node for the accounts behind it, rebuilds the artifact from its       *)
(* chunks, replays the draw, for a scale draw over a snapshot fetched from *)
(* the first source that serves it (sdk/snapshot_source.ts), and reports   *)
(* MATCH or the code of the first check that fails.                        *)
(*                                                                         *)
(* What the node answers is compared, never trusted: a field of a record   *)
(* holds 0 (what the program wrote), 1 (something else) or 2 (what follows *)
(* from something else).  The replay itself is in Selection, SnapshotClaim,*)
(* CompositeRank, Conditions and SlotSpin: here it is a function of its    *)
(* inputs, 0 when all of them are, 2 otherwise.  Fields no check reads     *)
(* (the actor, status and bounty of a resolution, the target slots of a    *)
(* state) are left out.                                                    *)
(***************************************************************************)
EXTENDS Integers, Sequences, SequencesExt, ArtifactStatus

CONSTANTS
  Us, Other,     \* the program verified for, and another one
  Worlds         \* draws, and what node, storage, caller and admin do to them

VARIABLES
  draw,      \* the draw: what is asked, the kind of its event, its features
  world,     \* lies, missing, logs, serves, uri, localFile, artifactFile, parses, inspects, flaky
  pc,        \* where the verification is
  kind,      \* the kind of the event that was found
  status,    \* the artifact's review status, now
  allow,     \* allow_unreviewed_binding, now
  reviews,   \* changes the admin still makes meanwhile
  seen,      \* whether the artifact could be bound, at every moment so far
  header,    \* the review status the verifier read
  attempts,  \* snapshot sources tried
  verdict    \* the reason reported, or "NONE"

verifierVars == <<draw, world, pc, kind, status, allow, reviews, seen, header, attempts, verdict>>

-----------------------------------------------------------------------------
\* The records and their fields, as the decoders read them.

Bound == {"hash", "runtime", "resolve"}
Result == {"input", "output", "randomness", "format", "winnerCount", "id", "effects"}
Evidence == {"snapshotHash", "slots", "commit", "reveal"}

\* decodeOutcomeResolvedV1 to V5
EventV1 == Bound \cup {"actor", "seed"} \cup Result
EventV2 == EventV1 \cup {"ids"}
EventV3 == EventV1 \cup {"claim"}
EventV4 == Bound \cup {"actor", "claim"} \cup Result \cup Evidence
EventV5 == EventV4 \cup {"ids"}
\* decodeConditionsResolvedV1, decodeSlotSpinResolvedV1
ConditionsEvent == {"hash", "runtime", "entrants", "winnerCount", "scoreSum", "digest", "facts"}
SlotEvent == Bound \cup {"actor", "input", "slots", "randomness", "stops", "rawWin", "payout"}

\* decodeOutcomeResolutionV4Account; a lie about the layout is an account that
\* decodes as an older version with the same fields.
ResolutionV4 == Bound \cup {"claim", "layout"} \cup Result \cup Evidence
\* decodeRngV2StateAccount
RngV2State == Bound \cup {"status", "actor", "input", "format"} \cup Evidence

OutcomeKinds == {"single", "list", "scaleList", "scaleClaim", "rngScale", "rngCompact"}
Kinds == OutcomeKinds \cup {"conditions", "slot"}
Scale(k) == k \in {"scaleList", "scaleClaim", "rngScale"}
RngV2(k) == k \in {"rngScale", "rngCompact"}

EventFields(k) ==
  CASE k = "single" -> EventV1
    [] k \in {"list", "scaleList"} -> EventV2
    [] k = "scaleClaim" -> EventV3
    [] k = "rngScale" -> EventV4
    [] k = "rngCompact" -> EventV5
    [] k = "conditions" -> ConditionsEvent
    [] k = "slot" -> SlotEvent

Records == {"event", "config", "resolution", "state", "header", "chunk", "blob"}
Has(k, r) ==
  CASE r = "event" -> EventFields(k)
    [] r = "resolution" -> IF k \notin OutcomeKinds THEN {}
                           ELSE IF RngV2(k) THEN ResolutionV4 ELSE EventFields(k) \ {"seed", "actor"}
    [] r = "state" -> IF RngV2(k) THEN RngV2State ELSE {}
    [] r \in {"config", "blob"} -> {"hash"}
    [] r = "header" -> {"hash", "finalized"}
    [] r = "chunk" -> {"binding"}

Claims(k) == UNION {{r} \X Has(k, r) : r \in Records}
V(r, f) == IF <<r, f>> \in DOMAIN world.lies THEN world.lies[<<r, f>>] ELSE 0
Equal(r, s, fields) == \A f \in fields : V(r, f) = V(s, f)

-----------------------------------------------------------------------------
\* The event in the transaction's logs.

Invoke(p) == [op |-> "invoke", program |-> p]
Finish(p) == [op |-> "finish", program |-> p]
Data(e)   == [op |-> "data", event |-> e]
Lines == {Invoke(p) : p \in {Us, Other}} \cup {Finish(p) : p \in {Us, Other}}
           \cup {Data(e) : e \in {"outcome", "slot", "conditions", "junk"}}

\* Mutant: the call that ends is not taken off the stack.
PopNothing(stack, p) == stack

\* The innermost call of a program that ends leaves the stack.
Pop(stack, p) ==
  LET calls == {i \in DOMAIN stack : stack[i] = p}
  IN  IF calls = {} THEN stack ELSE RemoveAt(stack, Max(calls))

\* One line of findOutcomeResolvedEvent and of its two siblings.
ScanLine(logs, wanted, s, i) ==
  LET line == logs[i] IN
  CASE line.op = "invoke" -> [s EXCEPT !.stack = Append(@, line.program),
                                       !.invoked = @ \/ line.program = Us]
    [] line.op = "finish" -> [s EXCEPT !.stack = Pop(@, line.program)]
    [] line.op = "data" /\ s.stack = <<>> -> s
    [] line.op = "data" /\ s.stack # <<>> /\ Last(s.stack) = Us ->
         [s EXCEPT !.data = TRUE, !.at = IF @ = 0 /\ line.event = wanted THEN i ELSE @]
    [] OTHER -> [s EXCEPT !.foreign = @ \/ line.event = wanted]

NothingScanned == [stack |-> <<>>, invoked |-> FALSE, data |-> FALSE, foreign |-> FALSE, at |-> 0]
Scan(logs, wanted) ==
  LET scan[i \in 0..Len(logs)] ==
        IF i = 0 THEN NothingScanned ELSE ScanLine(logs, wanted, scan[i - 1], i)
  IN  scan[Len(logs)]

FindConditionsResolvedEvent(logs) == Scan(logs, "conditions").at
FindSlotSpinResolvedEvent(logs) == Scan(logs, "slot").at
FindOutcomeResolvedEvent(logs) == Scan(logs, "outcome").at

\* The code findOutcomeResolvedEvent throws when it finds no event.
NoEvent(logs) ==
  LET s == Scan(logs, "outcome") IN
  CASE s.foreign \/ ~s.invoked -> "ERR_PROGRAM_ID_MISMATCH"
    [] ~s.foreign /\ s.invoked /\ s.data -> "ERR_EVENT_DISCRIMINATOR_MISMATCH"
    [] OTHER -> "ERR_EVENT_NOT_FOUND_FOR_PROGRAM"

\* The call that is innermost after line i, by the depth of the calls.
Depth(logs, i) ==
  Cardinality({j \in 1..i : logs[j].op = "invoke"}) - Cardinality({j \in 1..i : logs[j].op = "finish"})
EmittedBy(logs, i) ==
  LET open == {j \in 1..i : logs[j].op = "invoke" /\ \A m \in j..i : Depth(logs, m) >= Depth(logs, j)}
  IN  IF open = {} THEN "none" ELSE logs[Max(open)].program

\* The runtime's log, which may be cut: the call that ends is the innermost.
Nested(logs) ==
  /\ logs \in Seq(Lines)
  /\ \A i \in DOMAIN logs : logs[i].op = "finish" => EmittedBy(logs, i - 1) = logs[i].program

-----------------------------------------------------------------------------
\* Checks are made in order and the first that fails is the verdict.

Check(code, ok) == [code |-> code, ok |-> ok]
FirstFailure(checks) ==
  LET failing == {i \in DOMAIN checks : ~checks[i].ok}
  IN  IF failing = {} THEN "OK" ELSE checks[Min(failing)].code

\* What follows from the recorded inputs.
Follows(inputs) == IF inputs \subseteq {0} THEN 0 ELSE 2
FromEvent(fields) == {V("event", f) : f \in fields}

\* deriveRngV2Seed and deriveRngV2Randomness; the legacy master seed;
\* deriveSlotSpinRandomness.
SeedFields(k) ==
  CASE RngV2(k) -> Bound \cup {"actor", "slots"} \cup (IF draw.commit THEN {"commit"} ELSE {})
    [] k = "slot" -> Bound \cup {"actor", "slots"}
    [] OTHER -> {"seed", "runtime", "resolve", "actor"}
Randomness == Follows(FromEvent(SeedFields(kind)))

Blob == V("blob", "hash")
Replayed == Follows({Randomness, Blob})
FromArtifact == Follows({Blob})

\* A spin that wins nothing pays nothing, whatever was put in.
SpinReplayed == Follows({Randomness, Blob} \cup (IF draw.wins THEN FromEvent({"input"}) ELSE {}))

\* The hashes, the ids and the finalisation, before the artifact is rebuilt.
BindingChecks ==
  <<Check("ERR_CONFIG_HASH_MISMATCH", Equal("config", "event", {"hash"})),
    Check("ERR_RESOLUTION_HASH_MISMATCH", Equal("resolution", "event", {"hash"})),
    Check("ERR_RESOLUTION_HASH_MISMATCH", Equal("resolution", "event", {"runtime", "resolve"})),
    Check("ERR_ARTIFACT_HASH_MISMATCH", Equal("header", "event", {"hash"})),
    Check("ERR_ARTIFACT_NOT_FINALIZED", V("header", "finalized") = 0)>>

\* What verifyConditions and verifySlot check of the artifact's header; they
\* read no resolution and no review status.
ConditionsBindingChecks ==
  <<Check("ERR_ARTIFACT_HASH_MISMATCH", Equal("header", "event", {"hash"})),
    Check("ERR_ARTIFACT_NOT_FINALIZED", V("header", "finalized") = 0)>>
SlotBindingChecks ==
  <<Check("ERR_ARTIFACT_HASH_MISMATCH", Equal("header", "event", {"hash"})),
    Check("ERR_ARTIFACT_NOT_FINALIZED", V("header", "finalized") = 0)>>

\* Mutant: what was rebuilt is not hashed again.
BlobChecksUnhashed ==
  <<Check("ERR_ARTIFACT_CHUNK_MISSING", "chunk" \notin world.missing /\ V("chunk", "binding") = 0)>>

\* reconstructArtifactBlob and the hash of what it returns.
BlobChecks ==
  <<Check("ERR_ARTIFACT_CHUNK_MISSING", "chunk" \notin world.missing /\ V("chunk", "binding") = 0),
    Check("ERR_ARTIFACT_HASH_MISMATCH", Blob = V("event", "hash"))>>

\* The artifact file the caller may supply, and the parser's verdict.
ArtifactChecks ==
  <<Check("ERR_ARTIFACT_HASH_MISMATCH", world.artifactFile \in {"none", "same"}),
    Check("ERR_REPLAY_UNHANDLED", world.parses)>>

\* Mutant: the state may be any state of the draw, settled or not.
StateBindingAnyStatus == Equal("state", "event", RngV2State \ {"status"})

\* verifyRngV2StateBinding
StateBinding == Equal("state", "event", RngV2State \ {"status"}) /\ V("state", "status") = 0

\* The recomputation of the randomness.
RandomnessChecks ==
  (IF RngV2(kind)
   THEN <<Check("ERR_RNG_V2_SNAPSHOT_HASH_MISMATCH", V("event", "snapshotHash") = FromArtifact),
          Check("ERR_RNG_V2_OPERATOR_REVEAL_MISMATCH",
                draw.commit => V("event", "reveal") = V("event", "commit")),
          Check("ERR_RNG_V2_STATE_MISMATCH", StateBinding)>>
   ELSE <<>>)
  \o <<Check("ERR_RANDOMNESS_MISMATCH",
             V("event", "randomness") = Randomness /\ V("resolution", "randomness") = Randomness)>>

\* Input, and the format of event, resolution and artifact.
InputChecks ==
  <<Check("ERR_INPUT_MISMATCH", Equal("event", "resolution", {"input"})),
    Check("ERR_ARTIFACT_FORMAT_VERSION_MISMATCH",
          Equal("event", "resolution", {"format"}) /\ V("event", "format") = FromArtifact)>>

\* verifyRngV2ResolutionEvidence
ResolutionEvidence ==
  IF ~RngV2(kind) THEN <<>>
  ELSE <<Check("ERR_RNG_V2_RESOLUTION_MISMATCH", V("resolution", "layout") = 0),
         Check("ERR_RNG_V2_RESOLUTION_MISMATCH", Equal("resolution", "event", {"snapshotHash", "slots"})),
         Check("ERR_RNG_V2_OPERATOR_REVEAL_MISMATCH", Equal("resolution", "event", {"commit", "reveal"}))>>

\* A field of event and resolution against the replay.
AsReplayed(f, value) ==
  \A r \in {"event", "resolution"} : f \in Has(kind, r) => V(r, f) = value

\* winnerClaimDigest and the lists of a draw that records them.
ClaimCheck == Check("ERR_WINNER_CLAIM_HASH_MISMATCH", AsReplayed("claim", Replayed))
IdsCheck == Check("ERR_OUTCOME_ID_MISMATCH", AsReplayed("ids", Replayed))
IdCheck == Check("ERR_OUTCOME_ID_MISMATCH", AsReplayed("id", Replayed))
EffectsCheck == Check("ERR_EFFECTS_DIGEST_MISMATCH", AsReplayed("effects", Replayed))
OutputCheck == Check("ERR_OUTPUT_MISMATCH", AsReplayed("output", Replayed))
WinnerCountCheck == Check("ERR_WINNER_COUNT_MISMATCH", AsReplayed("winnerCount", FromArtifact))

\* signedBigIntToSafeNumber: a target or a score the result cannot carry as a
\* JavaScript number throws once every check has passed.
ResultCheck == Check("ERR_REPLAY_UNHANDLED", ~draw.beyondSafe)

\* Mutant: the claim of a compact draw is compared with the event's only.
CompactChecksEventOnly ==
  <<OutputCheck, IdCheck, WinnerCountCheck>> \o ResolutionEvidence
    \o <<Check("ERR_WINNER_CLAIM_HASH_MISMATCH", V("event", "claim") = Replayed),
         IdsCheck, EffectsCheck, ResultCheck>>

\* The compact path, up to the result.
CompactChecks ==
  <<OutputCheck, IdCheck, WinnerCountCheck>> \o ResolutionEvidence
    \o <<ClaimCheck, IdsCheck, EffectsCheck, ResultCheck>>

\* The scale path once the snapshot is there: formats 4 and 6 record the list,
\* format 7 its claim hash.
ScaleListChecks == <<WinnerCountCheck, OutputCheck, IdsCheck, IdCheck, EffectsCheck, ResultCheck>>
ScaleClaimChecks == <<WinnerCountCheck, OutputCheck, ClaimCheck, IdCheck, EffectsCheck, ResultCheck>>

\* verifyConditions after the blob.
ConditionsChecks ==
  <<Check("ERR_REPLAY_UNHANDLED", world.parses),
    Check("ERR_CONDITIONS_ENTRANT_COUNT_MISMATCH", V("event", "entrants") = FromArtifact),
    Check("ERR_WINNER_COUNT_MISMATCH", V("event", "winnerCount") = FromArtifact),
    Check("ERR_CONDITIONS_SCORE_SUM_MISMATCH", V("event", "scoreSum") = FromArtifact),
    Check("ERR_CONDITIONS_WINNERS_DIGEST_MISMATCH", V("event", "digest") = FromArtifact),
    Check("ERR_CONDITIONS_FACTS_ROOT_MISMATCH", V("event", "facts") = FromArtifact)>>

\* verifySlot after the blob.
SlotChecks ==
  <<Check("ERR_REPLAY_UNHANDLED", world.parses),
    Check("ERR_SLOT_RANDOMNESS_MISMATCH", V("event", "randomness") = Randomness),
    Check("ERR_SLOT_REEL_STOPS_MISMATCH", V("event", "stops") = Replayed),
    Check("ERR_SLOT_WIN_MISMATCH", V("event", "rawWin") = SpinReplayed),
    Check("ERR_SLOT_PAYOUT_MISMATCH", V("event", "payout") = SpinReplayed)>>

-----------------------------------------------------------------------------
\* Snapshot sources.

\* snapshotSourceCandidates, after the local copy of fetchCommittedSnapshot:
\* the committed URI, through the gateways of a scheme without a host, then the
\* mirror.  Every source is tried once.
Sources == {"local", "host", "gateway1", "gateway2", "unknown", "mirror"}
UriSources(uri) ==
  CASE uri = "hostless" -> <<"gateway1", "gateway2">>
    [] uri = "none" -> <<>>
    [] uri \in {"host", "unknown", "mirror"} -> <<uri>>

\* Mutant: a source listed twice is read twice.
SourceCandidatesRepeated ==
  (IF world.localFile THEN <<"local">> ELSE <<>>) \o UriSources(world.uri) \o <<"mirror">>

SourceCandidates ==
  LET listed == (IF world.localFile THEN <<"local">> ELSE <<>>) \o UriSources(world.uri)
  IN  IF "mirror" \in ToSet(listed) THEN listed ELSE Append(listed, "mirror")

\* Mutant: what a source serves is not hashed.
CountsAnyBytes(s) == s # "unknown" /\ world.serves[s] # "error"

\* readHttp, readLocal and the hash of what they return; an unknown scheme is
\* never read.
Counts(s) == s # "unknown" /\ world.serves[s] = "committed"

-----------------------------------------------------------------------------
\* The draws a verification may meet: their kind is the layout of the outcome
\* event, where there is one.
ASSUME ProgramsAssumption == "none" \notin {Us, Other}
ASSUME WorldsAssumption ==
  \A w \in Worlds :
    /\ w.draw.op \in {"verify", "commitment"} /\ w.draw.kind \in Kinds
    /\ {w.draw.commit, w.draw.wins, w.draw.beyondSafe} \subseteq BOOLEAN
    /\ {w.world.parses, w.world.inspects, w.world.localFile} \subseteq BOOLEAN
    /\ w.world.uri \in {"host", "hostless", "unknown", "mirror", "none"}
    /\ Nested(w.world.logs)
    /\ \A i \in DOMAIN w.world.logs :
         w.world.logs[i] = Data("outcome") => w.draw.kind \in OutcomeKinds
    /\ w.status \in Statuses /\ w.allow \in BOOLEAN /\ w.reviews \in Nat

-----------------------------------------------------------------------------
Report(reason) == pc' = "done" /\ verdict' = reason

\* Go on to a step, unless a check fails.
Proceed(checks, next) ==
  LET failure == FirstFailure(checks)
  IN  IF failure = "OK" THEN pc' = next /\ UNCHANGED verdict ELSE Report(failure)

Environment == <<draw, world, status, allow, reviews, seen>>

\* fetchTransactionLogs and the three searches; fetchSnapshotCommitment looks
\* for an outcome event only and goes straight to the artifact.
FetchTransactionLogs ==
  /\ pc = "logs"
  /\ LET logs == world.logs IN
     IF "tx" \in world.missing
     THEN Report("ERR_TX_NOT_FOUND_OR_NO_LOGS") /\ UNCHANGED kind
     ELSE IF draw.op = "verify" /\ FindConditionsResolvedEvent(logs) # 0
     THEN kind' = "conditions" /\ pc' = "config" /\ UNCHANGED verdict
     ELSE IF draw.op = "verify" /\ FindSlotSpinResolvedEvent(logs) # 0
     THEN kind' = "slot" /\ pc' = "config" /\ UNCHANGED verdict
     ELSE IF FindOutcomeResolvedEvent(logs) # 0
     THEN kind' = draw.kind /\ pc' = (IF draw.op = "verify" THEN "config" ELSE "header") /\ UNCHANGED verdict
     ELSE Report(NoEvent(logs)) /\ UNCHANGED kind
  /\ UNCHANGED <<Environment, header, attempts>>

\* An account that is missing, or does not decode, is the verdict.
Fetch(record, code, checks, next) ==
  IF record \in world.missing THEN Report(code) ELSE Proceed(checks, next)

\* Attestations compare the config's hash before they read on.
FetchOutcomeConfig ==
  /\ pc = "config"
  /\ IF kind \in OutcomeKinds
     THEN Fetch("config", "ERR_OUTCOME_CONFIG_NOT_FOUND", <<>>, "resolution")
     ELSE Fetch("config", "ERR_OUTCOME_CONFIG_NOT_FOUND",
                <<Check("ERR_CONFIG_HASH_MISMATCH", Equal("config", "event", {"hash"}))>>, "header")
  /\ UNCHANGED <<Environment, kind, header, attempts>>

FetchDecodedOutcomeResolution ==
  /\ pc = "resolution"
  /\ Fetch("resolution", "ERR_RESOLUTION_ACCOUNT_NOT_FOUND", <<>>,
           IF RngV2(kind) THEN "state" ELSE "header")
  /\ UNCHANGED <<Environment, kind, header, attempts>>

FetchDecodedRngV2State ==
  /\ pc = "state"
  /\ Fetch("state", "ERR_RNG_V2_STATE_MISMATCH", <<>>, "header")
  /\ UNCHANGED <<Environment, kind, header, attempts>>

\* The artifact's header, its status, and every check of them but the status.
FetchArtifactHeader ==
  /\ pc = "header"
  /\ header' = status
  /\ Fetch("header", "ERR_ARTIFACT_HEADER_NOT_FOUND",
           CASE draw.op = "commitment" -> <<>>
             [] draw.op = "verify" /\ kind \in OutcomeKinds -> BindingChecks
             [] draw.op = "verify" /\ kind = "conditions" -> ConditionsBindingChecks
             [] draw.op = "verify" /\ kind = "slot" -> SlotBindingChecks,
           IF draw.op = "verify" /\ kind \in OutcomeKinds THEN "allow" ELSE "chunks")
  /\ UNCHANGED <<Environment, kind, attempts>>

\* Mutant: a pending artifact is taken for reviewed.
StatusAllowedPending == header \in {"APPROVED", "DEPRECATED", "PENDING"}

\* Mutant: the draws of a deprecated artifact stop verifying.
StatusAllowedCurrent == header = "APPROVED" \/ (header = "PENDING" /\ allow)

\* The flag is read after the status, and only for a PENDING artifact.
StatusAllowed == StatusAllowsBinding(header, header = "PENDING" /\ allow)

ReadAllowUnreviewed ==
  /\ pc = "allow"
  /\ Proceed(<<Check("ERR_ARTIFACT_STATUS_INVALID", StatusAllowed)>>, "chunks")
  /\ UNCHANGED <<Environment, kind, header, attempts>>

\* The artifact is rebuilt and parsed, and everything up to the winners is
\* checked; what needs no snapshot is replayed.
ReplayDraw ==
  /\ pc = "chunks" /\ draw.op = "verify"
  /\ CASE kind = "conditions" -> Proceed(BlobChecks \o ConditionsChecks, "match")
       [] kind = "slot" -> Proceed(BlobChecks \o SlotChecks, "match")
       [] kind \in OutcomeKinds /\ ~Scale(kind) ->
            Proceed(BlobChecks \o ArtifactChecks \o RandomnessChecks \o InputChecks \o CompactChecks, "match")
       [] Scale(kind) ->
            Proceed(BlobChecks \o ArtifactChecks \o RandomnessChecks \o InputChecks \o ResolutionEvidence,
                    "sources")
  /\ UNCHANGED <<Environment, kind, header, attempts>>

\* fetchCommittedSnapshot: the next source.
TrySource ==
  /\ pc = "sources" /\ Len(attempts) < Len(SourceCandidates)
  /\ LET source == SourceCandidates[Len(attempts) + 1]
     IN  /\ attempts' = Append(attempts, source)
         /\ pc' = IF Counts(source) THEN "compare" ELSE "sources"
  /\ UNCHANGED <<Environment, kind, header, verdict>>

SnapshotUnavailable ==
  /\ pc = "sources" /\ Len(attempts) = Len(SourceCandidates)
  /\ Report("ERR_SNAPSHOT_UNAVAILABLE")
  /\ UNCHANGED <<Environment, kind, header, attempts>>

\* Mutant: the snapshot is replayed without being inspected.
CompareUninspected ==
  /\ pc = "compare"
  /\ Proceed(IF kind = "scaleList" THEN ScaleListChecks ELSE ScaleClaimChecks, "match")
  /\ UNCHANGED <<Environment, kind, header, attempts>>

\* inspectSnapshotFile and buildSnapshotClaimFromFile throw when the file that
\* hashes to the committed hash does not have the committed number of rows, the
\* committed Merkle root or rows the formula can rank: the artifact disagrees
\* with itself.
InspectThrows ==
  /\ pc = "compare" /\ ~world.inspects
  /\ Report("ERR_REPLAY_UNHANDLED")
  /\ UNCHANGED <<Environment, kind, header, attempts>>

\* The snapshot passed its inspection; the claim is computed and compared.
CompareClaim ==
  /\ pc = "compare" /\ world.inspects
  /\ Proceed(IF kind = "scaleList" THEN ScaleListChecks ELSE ScaleClaimChecks, "match")
  /\ UNCHANGED <<Environment, kind, header, attempts>>

\* fetchSnapshotCommitment returns what the artifact commits to.
ReadCommitment ==
  /\ pc = "chunks" /\ draw.op = "commitment"
  /\ LET failure == FirstFailure(BlobChecks)
     IN  Report(CASE failure # "OK" -> failure
                  [] failure = "OK" /\ Scale(kind) /\ world.parses -> "COMMITMENT"
                  [] OTHER -> "THROWS")
  /\ UNCHANGED <<Environment, kind, header, attempts>>

Match ==
  /\ pc = "match"
  /\ Report("OK")
  /\ UNCHANGED <<Environment, kind, header, attempts>>

\* Any request to the node may throw, and so may the temporary copy of the
\* snapshot: verifyOutcome reports it as unhandled.
RpcThrows ==
  /\ world.flaky
  /\ pc \in {"logs", "config", "resolution", "state", "header", "allow", "chunks", "compare"}
  /\ Report("ERR_REPLAY_UNHANDLED")
  /\ UNCHANGED <<Environment, kind, header, attempts>>

\* The admin reviews the artifact or toggles the flag meanwhile.
Review ==
  /\ pc # "done" /\ reviews > 0
  /\ reviews' = reviews - 1
  /\ \/ \E new \in Statuses : MayReview(status, TRUE, new) /\ status' = new /\ UNCHANGED allow
     \/ allow' = ~allow /\ UNCHANGED status
  /\ seen' = seen \cup {StatusAllowsBinding(status', allow')}
  /\ UNCHANGED <<draw, world, pc, kind, header, attempts, verdict>>

VerifierInit ==
  /\ \E w \in Worlds : /\ draw = w.draw /\ world = w.world
                       /\ status = w.status /\ allow = w.allow /\ reviews = w.reviews
  /\ seen = {StatusAllowsBinding(status, allow)}
  /\ pc = "logs" /\ kind = "none" /\ header = "none" /\ attempts = <<>> /\ verdict = "NONE"

VerifierNext ==
  \/ FetchTransactionLogs \/ FetchOutcomeConfig \/ FetchDecodedOutcomeResolution
  \/ FetchDecodedRngV2State \/ FetchArtifactHeader \/ ReadAllowUnreviewed
  \/ ReplayDraw \/ TrySource \/ SnapshotUnavailable \/ InspectThrows \/ CompareClaim
  \/ ReadCommitment \/ Match \/ RpcThrows \/ Review

VerifierSpec == VerifierInit /\ [][VerifierNext]_verifierVars

-----------------------------------------------------------------------------
\* What the node answered hangs together: the records agree on every field they
\* share, and what is derived is what follows.
Consistent(k) ==
  /\ \A f \in UNION {Has(k, r) : r \in Records} :
       \A r, s \in {x \in Records : f \in Has(k, x)} : V(r, f) = V(s, f)
  /\ V("header", "finalized") = 0 /\ V("chunk", "binding") = 0
  /\ RngV2(k) => /\ V("state", "status") = 0 /\ V("resolution", "layout") = 0
                 /\ V("event", "snapshotHash") = FromArtifact
                 /\ draw.commit => V("event", "reveal") = V("event", "commit")
  /\ k # "conditions" => V("event", "randomness") = Randomness
  /\ \A f \in EventFields(k) \cap {"format", "entrants", "scoreSum", "digest", "facts"} :
       V("event", f) = FromArtifact
  /\ \A f \in EventFields(k) \cap {"output", "id", "ids", "claim", "effects", "stops"} :
       V("event", f) = Replayed
  /\ "winnerCount" \in EventFields(k) => V("event", "winnerCount") = FromArtifact
  /\ k = "slot" => V("event", "rawWin") = SpinReplayed /\ V("event", "payout") = SpinReplayed

\* verifyOutcome reports one reason, at the end, and a MATCH is never a
\* commitment (the type of the verification's state).
VerifierTypeOK ==
  /\ pc \in {"logs", "config", "resolution", "state", "header", "allow", "chunks",
             "sources", "compare", "match", "done"}
  /\ (pc = "done") <=> (verdict # "NONE")
  /\ kind \in Kinds \cup {"none"} /\ status \in Statuses /\ header \in Statuses \cup {"none"}
  /\ ToSet(attempts) \subseteq Sources /\ Len(attempts) = Cardinality(ToSet(attempts))

\* A MATCH proves what the specification says it proves: event, config,
\* resolution, state, header and artifact agree on everything they share, and
\* the recorded result is the one the recorded inputs give (all comparisons of
\* verifyOutcomeStrict, verifyConditions and verifySlot); for a scale draw also,
\* that the committed count and root are those of the snapshot.
MatchIsConsistent == verdict = "OK" => Consistent(kind) /\ (Scale(kind) => world.inspects)

\* Nothing but a wrong record, a missing one, an artifact that may not be bound,
\* an unreachable snapshot or one the artifact's own count and root disagree
\* with, a node or disk that throws or a number too large for the result keeps an
\* honest draw from its MATCH: no check refuses what the program writes, and no
\* order of the checks does.
ConsistentMatches ==
  /\ pc = "done" /\ draw.op = "verify" /\ kind # "none"
  /\ Consistent(kind) /\ world.missing = {} /\ world.parses
  /\ world.artifactFile \in {"none", "same"} /\ ~draw.beyondSafe
  => \/ verdict = "OK"
     \/ verdict = "ERR_REPLAY_UNHANDLED" /\ (world.flaky \/ (Scale(kind) /\ ~world.inspects))
     \/ verdict = "ERR_ARTIFACT_STATUS_INVALID" /\ FALSE \in seen
     \/ verdict = "ERR_SNAPSHOT_UNAVAILABLE"

\* A status read before one review and a flag read after it still give a verdict
\* that was true at some moment of the verification (header, then ProgramConfig).
StatusTrueAtSomeMoment ==
  /\ verdict = "OK" /\ kind \in OutcomeKinds => TRUE \in seen
  /\ verdict = "ERR_ARTIFACT_STATUS_INVALID" => FALSE \in seen

\* The draw is replayed over the committed snapshot whichever source answers
\* with something else first, and it is called unavailable only when no source
\* of the list serves it (fetchCommittedSnapshot).
AnySourceSuffices ==
  /\ pc \in {"compare", "match"} /\ Scale(kind) => world.serves[Last(attempts)] = "committed"
  /\ verdict = "ERR_SNAPSHOT_UNAVAILABLE" =>
       \A s \in ToSet(SourceCandidates) : s = "unknown" \/ world.serves[s] # "committed"

\* The event that is verified was emitted by the program itself, not by a
\* program it called or that called it, and one it emitted is never overlooked
\* (findOutcomeResolvedEvent and its siblings).
EventIsOurs ==
  LET Emits(e) == \E i \in DOMAIN world.logs :
                    world.logs[i] = Data(e) /\ EmittedBy(world.logs, i) = Us
  IN  /\ kind \in OutcomeKinds => Emits("outcome")
      /\ kind \in {"conditions", "slot"} => Emits(kind)
      /\ verdict \in {"ERR_PROGRAM_ID_MISMATCH", "ERR_EVENT_NOT_FOUND_FOR_PROGRAM",
                      "ERR_EVENT_DISCRIMINATOR_MISMATCH"} => ~Emits("outcome")
      /\ verdict = "ERR_EVENT_NOT_FOUND_FOR_PROGRAM" => ~Emits("junk")

\* The commitment read without the snapshot is the artifact the event names
\* (fetchSnapshotCommitment).
CommitmentIsTheArtifact ==
  verdict = "COMMITMENT" => Equal("blob", "event", {"hash"}) /\ V("chunk", "binding") = 0

\* Every verdict is about this draw and this program: the event is its own, the
\* commitment the artifact's, and a MATCH means that all records agree.
VerdictSound == VerifierTypeOK /\ MatchIsConsistent /\ EventIsOurs /\ CommitmentIsTheArtifact

=============================================================================
