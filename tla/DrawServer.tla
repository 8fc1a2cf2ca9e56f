----------------------------- MODULE DrawServer -----------------------------
(***************************************************************************)
(* The requests of web/server.mjs that act on the chain or start a         *)
(* process: live raffles with a World ID proof, partner draws, demo draws, *)
(* conditions rounds and replays, served concurrently by one event loop.   *)
(* A step is what a handler does between two awaits.  Rate limits and      *)
(* World ID nullifiers are kept in memory, the rules of conditions rounds  *)
(* in a JSON file; a restart loses the first and may tear the second.      *)
(*                                                                         *)
(* A draw is the promise of resolveInlineRngV2: it goes on after the       *)
(* request that made it was answered 504, and its transaction may land     *)
(* long before the promise settles.                                        *)
(***************************************************************************)
EXTENDS Integers, FiniteSets, Sequences

CONSTANTS
  Requests,   \* requests made, each once
  Cases,      \* what the requests are: the cases considered
  Windows,    \* per limited route, the time between two accepted requests
  ApiMax,     \* REPLAY_RATE_LIMIT_MAX, per Windows["replay"]
  MaxTime,    \* bound on time
  MaxCrashes  \* per case, bound on restarts of the process

ASSUME WindowsAssumption ==
  Windows \in [{"raffle", "partner", "example", "replay"} -> Nat \ {0}]
ASSUME ServerBoundsAssumption == ApiMax \in Nat \ {0} /\ MaxTime \in Nat /\ MaxCrashes \in [Cases -> Nat]

NoHuman == "no proof"
NoRules == "no rules"

\* A request: its route ("none" if it is not made), who is limited (an address or a partner's key), the
\* human of its World ID proof or the rules of its round, and its body.
Inputs == [route : {"raffle", "partner", "example", "commit", "resolve", "replay", "none"},
           client : STRING, what : STRING, body : {"valid", "invalid", "scale", "large"}]

\* Finitely many requests; a partner's or a demo draw carries no World ID proof.
ASSUME CasesAssumption ==
  /\ IsFiniteSet(Requests) /\ Cases \subseteq [Requests -> Inputs]
  /\ \A c \in Cases : \A r \in Requests :
       c[r].route \in {"partner", "example"} => c[r].what = NoHuman

VARIABLES
  input,      \* the request each member of Requests is
  pc,         \* where its handler is
  draw,       \* its draw: "none", "running", "landed", "orphan" (given up, may still
              \* land) or "over"
  landed,     \* the requests whose draw landed, in the order of the chain
  now,
  blocked,    \* liveRaffleRateLimit, partnerDrawRateLimit, examplesDrawRateLimit
  quota,      \* apiRateLimit, of the replay route: [client -> count and resetAt]
  nullifiers, \* worldIdNullifiers
  active,     \* activeDraws
  rules,      \* per conditions request: the rules it read from the store
  store,      \* the conditions file: [round -> rules], or Torn
  anchored,   \* the rules whose artifact is on chain
  crashes,
  accepted    \* history: when a limited request was let through, -1 if it was not

serverVars == <<input, pc, draw, landed, now, blocked, quota, nullifiers, active,
                rules, store, anchored, crashes, accepted>>

Limited == {"raffle", "partner", "example"}
Clients == {input[r].client : r \in Requests}
Rounds == {"round"}
Torn == <<>>
Answered == {"ok", "rejected", "limited", "failed", "timeout", "dropped"}

ServerInit ==
  /\ input \in Cases
  /\ pc = [r \in Requests |-> "idle"]
  /\ draw = [r \in Requests |-> "none"] /\ landed = <<>>
  /\ now = 0
  /\ blocked = [l \in Limited \X {input[r].client : r \in Requests} |-> 0]
  /\ quota = [c \in {input[r].client : r \in Requests} |-> [count |-> 0, resetAt |-> 0]]
  /\ nullifiers = {} /\ active = 0
  /\ rules = [r \in Requests |-> NoRules]
  /\ store = [r \in Rounds |-> NoRules] /\ anchored = {}
  /\ crashes = 0
  /\ accepted = [r \in Requests |-> -1]

Answer(r, how) == pc' = [pc EXCEPT ![r] = how]

conditionsVars == <<rules, store, anchored>>

-----------------------------------------------------------------------------
(* Limits. *)

\* checkLiveRaffleRateLimit, checkPartnerDrawRateLimit and
\* checkExamplesDrawRateLimit: entries that have ended are removed, then the
\* client is looked up.
\* Mutant: the entry is removed one tick early.
EndedEarly(until) == until <= now + 1
HasEnded(until) == until <= now
Blocked(r) == ~HasEnded(blocked[<<input[r].route, input[r].client>>])
Block(r) ==
  blocked' = [l \in DOMAIN blocked |->
    IF l = <<input[r].route, input[r].client>> THEN now + Windows[l[1]]
    ELSE IF l[1] = input[r].route /\ HasEnded(blocked[l]) THEN 0
    ELSE blocked[l]]
LetThrough(r) == Block(r) /\ accepted' = [accepted EXCEPT ![r] = now]

\* checkRateLimit: a window opens with the first request and counts to ApiMax.
\* Mutant: the request that finds the limit reached is let through.
QuotaReachedLate(q) == q.resetAt > now /\ q.count > ApiMax
QuotaReached(q) == q.resetAt > now /\ q.count >= ApiMax
CountOne(q) ==
  IF q.resetAt <= now THEN [count |-> 1, resetAt |-> now + Windows["replay"]]
                      ELSE [q EXCEPT !.count = @ + 1]

-----------------------------------------------------------------------------
(* Draws. *)

\* loadResolveInlineRngV2 and trackDraw: the draw is counted while it runs.
StartDraw(r) ==
  /\ draw' = [draw EXCEPT ![r] = "running"]
  /\ active' = active + 1
  /\ Answer(r, "drawing")

\* handleLiveRaffle reads the body and asks the World ID verifier.
Raffle(r) ==
  /\ pc[r] = "idle" /\ input[r].route = "raffle"
  /\ Answer(r, IF input[r].body = "valid" THEN "proof" ELSE "rejected")
  /\ UNCHANGED <<input, draw, landed, now, blocked, quota, nullifiers, active, conditionsVars,
                 crashes, accepted>>

\* verifyWorldIdOrThrow: the proof is not accepted, or the verifier not reached.
ProofFails(r) ==
  /\ pc[r] = "proof" /\ input[r].what # NoHuman
  /\ Answer(r, "rejected")
  /\ UNCHANGED <<input, draw, landed, now, blocked, quota, nullifiers, active, conditionsVars,
                 crashes, accepted>>

\* The rest of handleLiveRaffle up to the draw: what it awaits before the draw
\* (loadResolveInlineRngV2) comes after its last check and its last reservation.
Reserve(r) == nullifiers' = nullifiers \cup ({input[r].what} \ {NoHuman})
ProofAccepted(r) ==
  /\ pc[r] = "proof"
  /\ \/ input[r].what \in nullifiers /\ Answer(r, "rejected")
          /\ UNCHANGED <<draw, active, blocked, nullifiers, accepted>>
     \/ input[r].what \notin nullifiers /\ Blocked(r) /\ Answer(r, "limited")
          /\ UNCHANGED <<draw, active, blocked, nullifiers, accepted>>
     \/ input[r].what \notin nullifiers /\ ~Blocked(r)
          /\ LetThrough(r) /\ Reserve(r) /\ StartDraw(r)
  /\ UNCHANGED <<input, landed, now, quota, conditionsVars, crashes>>

\* handlePartnerDraw: the checks of the body before the partner's limit; a draw
\* that asks for the snapshot flow is sent there.
BodyRefused(r) == input[r].body \in {"invalid", "scale"}

\* Its limit and the compact artifact, which may turn out too large.  The demo
\* route is limited by address before the body is read, and not by the key.
PartnerDraw(r) ==
  /\ pc[r] = "idle" /\ input[r].route \in {"partner", "example"}
  /\ \/ input[r].route = "partner" /\ BodyRefused(r)
          /\ Answer(r, "rejected")
          /\ UNCHANGED <<draw, active, blocked, accepted>>
     \/ (input[r].route = "example" \/ ~BodyRefused(r))
          /\ Blocked(r) /\ Answer(r, "limited")
          /\ UNCHANGED <<draw, active, blocked, accepted>>
     \/ (input[r].route = "example" \/ ~BodyRefused(r))
          /\ ~Blocked(r) /\ LetThrough(r)
          /\ IF input[r].body = "valid"
               THEN StartDraw(r)
               ELSE Answer(r, "rejected") /\ UNCHANGED <<draw, active>>
  /\ UNCHANGED <<input, landed, now, quota, nullifiers, conditionsVars, crashes>>

\* The settle of the draw lands.
Land(r) ==
  /\ draw[r] \in {"running", "orphan"}
  /\ draw' = [draw EXCEPT ![r] = IF @ = "running" THEN "landed" ELSE "over"]
  /\ landed' = Append(landed, r)
  /\ UNCHANGED <<input, pc, now, blocked, quota, nullifiers, active, conditionsVars, crashes, accepted>>

\* The promise of the draw settles: trackDraw's finally, and the answer of the
\* handler if it still waits.  A raffle that failed gives its nullifier back.
\* Mutant: only a draw that succeeds is counted down.
UncountSuccess(r) == active' = IF draw[r] = "landed" THEN active - 1 ELSE active
Uncount(r) == active' = active - 1
\* Mutant: the nullifier is given back whatever became of the draw.
ReleaseAlways(r, failed) == nullifiers' = nullifiers \ {input[r].what}
Release(r, failed) ==
  nullifiers' = IF failed THEN nullifiers \ {input[r].what} ELSE nullifiers
DrawReturns(r) ==
  /\ draw[r] = "landed" /\ draw' = [draw EXCEPT ![r] = "over"]
  /\ Uncount(r)
  /\ IF pc[r] = "drawing"
       THEN Answer(r, "ok") /\ Release(r, FALSE)
       ELSE UNCHANGED <<pc, nullifiers>>
  /\ UNCHANGED <<input, landed, now, blocked, quota, conditionsVars, crashes, accepted>>

\* It throws: before the settle landed, or after (the replay failed).
DrawThrows(r) ==
  /\ draw[r] \in {"running", "landed"}
  /\ draw' = [draw EXCEPT ![r] = IF @ = "running" THEN "orphan" ELSE "over"]
  /\ Uncount(r)
  /\ IF pc[r] = "drawing"
       THEN Answer(r, "failed") /\ Release(r, TRUE)
       ELSE UNCHANGED <<pc, nullifiers>>
  /\ UNCHANGED <<input, landed, now, blocked, quota, conditionsVars, crashes, accepted>>

\* withTimeout: LIVE_RAFFLE_TIMEOUT_MS passes first.
DrawTimesOut(r) ==
  /\ pc[r] = "drawing" /\ draw[r] \in {"running", "landed"}
  /\ Answer(r, "timeout") /\ Release(r, TRUE)
  /\ UNCHANGED <<input, draw, landed, now, blocked, quota, active, conditionsVars, crashes, accepted>>

-----------------------------------------------------------------------------
(* Conditions rounds. *)

\* loadConditionsCommits: an unreadable file is an empty store.
Load == IF store = Torn THEN [r \in Rounds |-> NoRules] ELSE store

\* handlePartnerConditionsCommit, up to the end of commitConditions.
\* Mutant: a commit that failed is saved like one that succeeded.
CommittedAnyway(r) ==
  Answer(r, "committed") /\ anchored' \in {anchored, anchored \cup {input[r].what}}
Committed(r) ==
  \/ Answer(r, "failed") /\ UNCHANGED anchored
  \/ Answer(r, "committed") /\ anchored' = anchored \cup {input[r].what}
Commit(r) ==
  /\ pc[r] = "idle" /\ input[r].route = "commit"
  /\ IF input[r].body = "valid" THEN Committed(r) ELSE Answer(r, "rejected") /\ UNCHANGED anchored
  /\ UNCHANGED <<input, draw, landed, now, blocked, quota, nullifiers, active, rules, store,
                 crashes, accepted>>

\* saveConditionsCommit, and the answer.
SaveCommit(r) ==
  /\ pc[r] = "committed"
  /\ store' = [Load EXCEPT !["round"] = input[r].what]
  /\ Answer(r, "ok")
  /\ UNCHANGED <<input, draw, landed, now, blocked, quota, nullifiers, active, rules, anchored,
                 crashes, accepted>>

\* handlePartnerConditionsResolve reads the rules and resolves with them.
ResolveRound(r) ==
  /\ pc[r] = "idle" /\ input[r].route = "resolve"
  /\ rules' = [rules EXCEPT ![r] = Load["round"]]
  /\ Answer(r, IF Load["round"] = NoRules THEN "rejected" ELSE "resolving")
  /\ UNCHANGED <<input, draw, landed, now, blocked, quota, nullifiers, active, store, anchored,
                 crashes, accepted>>

RoundResolved(r) ==
  /\ pc[r] = "resolving"
  /\ \E how \in {"ok", "failed"} : Answer(r, how)
  /\ UNCHANGED <<input, draw, landed, now, blocked, quota, nullifiers, active, conditionsVars,
                 crashes, accepted>>

-----------------------------------------------------------------------------
(* Replays. *)

\* The /api/replay route spawns scripts/replay_verify.ts.
Replay(r) ==
  LET c == input[r].client IN
  /\ pc[r] = "idle" /\ input[r].route = "replay"
  /\ \/ QuotaReached(quota[c]) /\ Answer(r, "limited") /\ UNCHANGED <<quota, accepted>>
     \/ /\ ~QuotaReached(quota[c])
        /\ quota' = [quota EXCEPT ![c] = CountOne(@)]
        /\ accepted' = [accepted EXCEPT ![r] = now]
        /\ Answer(r, IF input[r].body = "valid" THEN "replaying" ELSE "rejected")
  /\ UNCHANGED <<input, draw, landed, now, blocked, nullifiers, active, conditionsVars, crashes>>

\* The child closes with JSON on its output, or with none, or it is killed
\* after REPLAY_TIMEOUT_MS.
ReplayCloses(r) ==
  /\ pc[r] = "replaying"
  /\ \E how \in {"ok", "failed", "timeout"} : Answer(r, how)
  /\ UNCHANGED <<input, draw, landed, now, blocked, quota, nullifiers, active, conditionsVars,
                 crashes, accepted>>

-----------------------------------------------------------------------------
(* The process and time. *)

\* A restart.  A save that was being written may leave the file torn; draws
\* that run are given up with the process.
Crash ==
  /\ crashes < MaxCrashes[input] /\ crashes' = crashes + 1
  /\ pc' = [r \in Requests |-> IF pc[r] \in Answered \cup {"idle"} THEN pc[r] ELSE "dropped"]
  /\ draw' = [r \in Requests |-> CASE draw[r] = "running" -> "orphan" [] draw[r] = "landed" -> "over" [] OTHER -> draw[r]]
  /\ store' \in {store} \cup {Torn : r \in {q \in Requests : pc[q] = "committed"}}
  /\ nullifiers' = {} /\ active' = 0
  /\ blocked' = [l \in DOMAIN blocked |-> 0]
  /\ quota' = [c \in DOMAIN quota |-> [count |-> 0, resetAt |-> 0]]
  /\ UNCHANGED <<input, landed, now, rules, anchored, accepted>>

Tick ==
  /\ now < MaxTime /\ now' = now + 1
  /\ UNCHANGED <<input, pc, draw, landed, blocked, quota, nullifiers, active, conditionsVars,
                 crashes, accepted>>

Handle(r) ==
  \/ Raffle(r) \/ ProofAccepted(r) \/ ProofFails(r) \/ PartnerDraw(r)
  \/ Commit(r) \/ SaveCommit(r) \/ ResolveRound(r) \/ RoundResolved(r)
  \/ Replay(r) \/ ReplayCloses(r)
DrawStep(r) == Land(r) \/ DrawReturns(r) \/ DrawThrows(r)

-----------------------------------------------------------------------------
(* Properties. *)

\* activeDraws is the number of draws that run, so that it is zero again once
\* they are over, whatever they ended with.
ActiveCounted == active = Cardinality({r \in Requests : draw[r] \in {"running", "landed"}})

\* While the process lives, one human has at most one raffle that is being drawn
\* for an open request or was answered with success.
OneRafflePerProof ==
  crashes = 0 =>
    \A r, q \in Requests :
      (r # q /\ input[r].route = "raffle" /\ input[q].route = "raffle"
        /\ input[r].what = input[q].what /\ input[r].what # NoHuman)
      => ~(pc[r] \in {"drawing", "ok"} /\ pc[q] \in {"drawing", "ok"})

\* Two draws of one partner key, or of one address, are let through at least a
\* window apart, whether the first succeeded or not.
DrawsSpaced ==
  crashes = 0 =>
    \A r, q \in Requests :
      (r # q /\ input[r].route \in Limited /\ input[r].route = input[q].route
        /\ input[r].client = input[q].client /\ accepted[r] >= 0 /\ accepted[q] >= accepted[r])
      => accepted[q] - accepted[r] >= Windows[input[r].route]

\* No address has more replays accepted in the length of a window than the end
\* of one window and the start of the next allow.
ReplaysLimited ==
  crashes = 0 =>
    \A r \in Requests : accepted[r] >= 0 =>
      Cardinality({q \in Requests : /\ input[q].route = "replay" /\ input[q].client = input[r].client
                                    /\ accepted[q] \in accepted[r]..(accepted[r] + Windows["replay"] - 1)})
        <= 2 * ApiMax - 1

\* The server lets in what it may: the draws it counts are the draws that run,
\* one human has one raffle, and windows and quotas hold in every interleaving.
AdmissionSound == ActiveCounted /\ OneRafflePerProof /\ DrawsSpaced /\ ReplaysLimited

\* A round is resolved with rules that were on chain before it was resolved.
RoundsResolveCommittedRules ==
  \A r \in Requests : pc[r] = "resolving" => rules[r] \in anchored

\* spec.html says of the nullifier: "so one human enters once".
OneHumanEntersOnce ==
  \A r, q \in Requests :
    (r # q /\ input[r].route = "raffle" /\ input[q].route = "raffle"
      /\ input[r].what = input[q].what /\ input[r].what # NoHuman)
    => ~(r \in {landed[i] : i \in DOMAIN landed} /\ q \in {landed[i] : i \in DOMAIN landed})

=============================================================================
