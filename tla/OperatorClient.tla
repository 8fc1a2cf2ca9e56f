---------------------------- MODULE OperatorClient ----------------------------
(***************************************************************************)
(* The calls that put a draw on chain: sdk/operator.ts, sdk/confirm.ts,    *)
(* sdk/sortition.ts, sdk/conditions_operator.ts, resolve_operator.ts. Each *)
(* reads accounts, signs a transaction, sends it, polls, signs it again    *)
(* when its blockhash expired, and goes on with the next one.  Calls run   *)
(* concurrently with one wallet and submit one artifact; each draw has a   *)
(* runtime of its own.  The calls are                                      *)
(*   rngv2       resolveInlineRngV2: prepare_rng_v2, wait, settle_rng_v2   *)
(*   inline      resolveInline: refresh_master_seed, resolve_outcome       *)
(*   script      the same from scripts/resolve_operator.ts                 *)
(*   commit      commitConditions: the artifact only                       *)
(*   conditions  resolveConditionsRound                                    *)
(*   createDraw, registerTicket, sealDraw, claimTicket                     *)
(*               the sortition routes of the server (sdk/sortition.ts),    *)
(*               one transaction each, on one draw and one ticket          *)
(*   none        no call is made                                           *)
(*                                                                         *)
(* A transaction that was sent may land after the client gave it up, until *)
(* the block height passes its last valid one.  The program is external    *)
(* here: what it accepts is modelled in RngV2 and ArtifactRegistry.        *)
(***************************************************************************)
EXTENDS Integers, FiniteSets, ArtifactStatus

CONSTANTS
  Calls,         \* calls made, each once
  Kinds,         \* which call is of which kind: the cases considered
  Chunks,        \* chunks of the artifact (CHUNK_SIZE)
  Writes,        \* writes per chunk (CHUNK_WRITE_BYTES)
  SendAttempts,  \* SEND_ATTEMPTS (3)
  SettleAttempts,\* settle attempts of resolveInlineRngV2 (4)
  MaxFaults      \* bound on lost transactions, errors, timeouts and crashes

ASSUME KindsAssumption ==
  Kinds \subseteq [Calls -> {"rngv2", "inline", "script", "commit", "conditions", "none",
                              "createDraw", "registerTicket", "sealDraw", "claimTicket"}]
ASSUME CountsAssumption ==
  /\ Chunks \in Nat \ {0} /\ Writes \in Nat \ {0} /\ SendAttempts \in Nat \ {0}
  /\ SettleAttempts \in Nat \ {0} /\ MaxFaults \in Nat

VARIABLES
  kind,      \* the kind of each call
  call,      \* per call: pc, phase and locals
  config,    \* ProgramConfig: "none", "open" (unreviewed binding) or "closed"
  artifact,  \* "none", "submitted", or a status once it is finalized
  chunk,     \* written parts per chunk, NoAccount before its account exists
  runtime,   \* per call: its runtime's next_resolve_id, NoAccount before it is bound
  draw,      \* per call: "none", "prepared", "settled" or "expired"
  sortition, \* the sortition draw and its ticket, which is the operator's
  window,    \* per call: "early", "open" or "closed" for a settle
  txs,       \* transactions that may still land, or are polled for
  faults,
  landed,    \* history: transactions that took effect
  twice,     \* history: instructions that took effect more than once
  settledBy  \* history, per call: the attempt that settled its draw

chain == <<config, artifact, chunk, runtime, draw, sortition>>
hist == <<landed, twice, settledBy>>
vars == <<kind, call, chain, window, txs, faults, hist>>

NoAccount == -1
Indices == 0..(Chunks - 1)
Idle == [pc |-> "idle", phase |-> "ready", attempt |-> 1, tries |-> 1,
         i |-> 0, off |-> 0, rid |-> 0, sig |-> <<>>]
Ended == {"idle", "ok", "failed"}
\* Instructions that may take effect twice: they set what is already set,
\* or emit the same event again.
Idempotent == {"setConfig", "refresh", "resolveConditions"}

\* The calls of the sortition routes, and the states of a draw they may meet:
\* not created, registering, awaiting its seal, sealed, past its last deadline.
SortitionCalls == {"createDraw", "registerTicket", "sealDraw", "claimTicket"}
NoSortition == [draw |-> "none", ticket |-> "none"]
Sortitions == {NoSortition}
  \cup [draw : {"registering", "closed", "sealed", "over"}, ticket : {"none", "open"}]

Init ==
  /\ kind \in Kinds
  /\ call = [c \in Calls |-> Idle]
  /\ config \in {"none", "open", "closed"}
  /\ artifact = "none" /\ chunk = [i \in Indices |-> NoAccount]
  /\ runtime = [c \in Calls |-> NoAccount]
  /\ sortition \in IF \E c \in Calls : kind[c] \in SortitionCalls THEN Sortitions ELSE {NoSortition}
  /\ draw = [c \in Calls |-> "none"] /\ window = [c \in Calls |-> "early"]
  /\ txs = {} /\ faults = 0 /\ landed = {} /\ twice = {}
  /\ settledBy = [c \in Calls |-> <<>>]

Goto(c, pc) ==
  call' = [call EXCEPT ![c].pc = pc, ![c].phase = "ready", ![c].attempt = 1]

-----------------------------------------------------------------------------
(* The program, as the client uses it. *)

IsFinalized == artifact \notin {"none", "submitted"}

\* Whether the program executes a transaction in the current state.
Accepts(t) ==
  CASE t.op = "initConfig" -> config = "none"
    [] t.op = "setConfig" -> config # "none"
    [] t.op = "submit" -> artifact = "none"
    [] t.op = "initChunk" -> artifact = "submitted" /\ chunk[t.i] = NoAccount
    [] t.op = "write" -> artifact = "submitted" /\ chunk[t.i] = t.off /\ t.off < Writes
    [] t.op = "finalize" -> artifact = "submitted" /\ \A i \in Indices : chunk[i] = Writes
    [] t.op = "review" -> MayReview(artifact, IsFinalized, "APPROVED")
    [] t.op = "bind" -> runtime[t.c] = NoAccount /\ IsFinalized
                          /\ StatusAllowsBinding(artifact, config = "open")
    [] t.op \in {"prepare", "resolve"} -> runtime[t.c] = t.rid
    [] t.op \in {"refresh", "resolveConditions"} -> runtime[t.c] # NoAccount
    [] t.op = "settle" -> draw[t.c] = "prepared" /\ window[t.c] = "open"
    [] t.op = "expire" -> draw[t.c] = "prepared" /\ window[t.c] = "closed"
    [] t.op = "createDraw" -> sortition.draw = "none"
    [] t.op = "registerTicket" -> sortition.draw = "registering" /\ sortition.ticket = "none"
    [] t.op = "sealDraw" -> sortition.draw = "closed"
    [] t.op = "claimTicket" -> sortition.draw = "sealed" /\ sortition.ticket = "open"

Execute(t) ==
  /\ config' = IF t.op \in {"initConfig", "setConfig"} THEN "closed" ELSE config
  /\ artifact' = CASE t.op = "submit" -> "submitted"
                   [] t.op = "finalize" -> "PENDING"
                   [] t.op = "review" -> "APPROVED"
                   [] OTHER -> artifact
  /\ chunk' = CASE t.op = "initChunk" -> [chunk EXCEPT ![t.i] = 0]
                [] t.op = "write" -> [chunk EXCEPT ![t.i] = t.off + 1]
                [] OTHER -> chunk
  /\ runtime' = CASE t.op = "bind" -> [runtime EXCEPT ![t.c] = 0]
                  [] t.op \in {"prepare", "resolve"} -> [runtime EXCEPT ![t.c] = t.rid + 1]
                  [] OTHER -> runtime
  /\ draw' = CASE t.op = "prepare" -> [draw EXCEPT ![t.c] = "prepared"]
               [] t.op \in {"settle", "resolve"} -> [draw EXCEPT ![t.c] = "settled"]
               [] t.op = "expire" -> [draw EXCEPT ![t.c] = "expired"]
               [] OTHER -> draw
  /\ sortition' = CASE t.op = "createDraw" -> [sortition EXCEPT !.draw = "registering"]
                    [] t.op = "registerTicket" -> [sortition EXCEPT !.ticket = "open"]
                    [] t.op = "sealDraw" -> [sortition EXCEPT !.draw = "sealed"]
                    [] t.op = "claimTicket" -> [sortition EXCEPT !.ticket = "claimed"]
                    [] OTHER -> sortition

-----------------------------------------------------------------------------
(* sdk/confirm.ts. *)

Sends == {"initConfig", "setConfig", "submit", "initChunk", "write", "finalize",
          "review", "bind", "prepare", "settle", "refresh", "resolve", "resolveConditions"}
         \cup SortitionCalls

\* What the pending transaction of call c is; the resolve id was read once.
\* Mutant: the resolve id is read again for every attempt.
TxFreshId(c) ==
  [c |-> c, op |-> call[c].pc, i |-> call[c].i, off |-> call[c].off,
   rid |-> runtime[c], n |-> call[c].attempt, k |-> call[c].tries, status |-> "sent", past |-> FALSE]
Tx(c) ==
  [c |-> c, op |-> call[c].pc, i |-> call[c].i, off |-> call[c].off,
   rid |-> call[c].rid, n |-> call[c].attempt, k |-> call[c].tries, status |-> "sent", past |-> FALSE]

\* The transaction call c is polling for.
Mine(c, t) == t.c = c /\ t.op = call[c].pc /\ t.n = call[c].attempt /\ t.k = call[c].tries

\* The transactions that may still land and, of the others, those that a call
\* polls for once its state is cs.
Keep(T, cs) ==
  {t \in T : \/ t.status = "sent" /\ ~t.past
            \/ /\ cs[t.c].phase \in {"poll", "unseen"} /\ t.op = cs[t.c].pc
               /\ t.n = cs[t.c].attempt /\ t.k = cs[t.c].tries}

\* resolveInlineRngV2 waits and settles again after an error that
\* SETTLE_RETRYABLE matches, four times in all.
SettleAgain(l, retryable) == l.pc = "settle" /\ retryable /\ l.tries < SettleAttempts

\* Any other error ends the call.
Thrown(l, retryable) ==
  IF SettleAgain(l, retryable)
    THEN [l EXCEPT !.pc = "wait", !.phase = "ready", !.attempt = 1, !.tries = @ + 1]
    ELSE [l EXCEPT !.pc = "failed"]
Throw(c, retryable) == call' = [call EXCEPT ![c] = Thrown(@, retryable)]

\* sendRawTransaction: the node simulates the transaction before it forwards it.
Send(c) ==
  /\ call[c].pc \in Sends /\ call[c].phase = "ready"
  /\ IF Accepts(Tx(c))
       THEN /\ txs' = txs \cup {Tx(c)}
            /\ call' = [call EXCEPT ![c].phase = "poll"]
       ELSE /\ Throw(c, FALSE)
            /\ UNCHANGED txs
  /\ UNCHANGED <<kind, chain, window, faults, hist>>

\* The request fails (429, a dropped connection), forwarded or not.
SendError(c) ==
  /\ call[c].pc \in Sends /\ call[c].phase = "ready"
  /\ faults < MaxFaults /\ faults' = faults + 1
  /\ \E retryable \in BOOLEAN : Throw(c, retryable)
  /\ txs' \in {txs, txs \cup {t \in {Tx(c)} : Accepts(t)}}
  /\ UNCHANGED <<kind, chain, window, hist>>

\* A transaction is executed before the height passes its last valid one.
Land(t) ==
  /\ t.status = "sent" /\ ~t.past
  /\ txs' = Keep((txs \ {t}) \cup {[t EXCEPT !.status = IF Accepts(t) THEN "ok" ELSE "err"]}, call)
  /\ IF Accepts(t)
       THEN /\ Execute(t)
            /\ landed' = landed \cup {<<t.c, t.op, t.i, t.off>>}
            /\ twice' = IF <<t.c, t.op, t.i, t.off>> \in landed THEN twice \cup {t.op} ELSE twice
            /\ settledBy' = IF t.op \in {"settle", "resolve"}
                              THEN [settledBy EXCEPT ![t.c] = <<t.n, t.k>>] ELSE settledBy
       ELSE UNCHANGED <<chain, hist>>
  /\ UNCHANGED <<kind, call, window, faults>>

\* The block height passes the last valid one of a transaction.
BlockhashExpires(t) ==
  /\ ~t.past /\ faults < MaxFaults /\ faults' = faults + 1
  /\ txs' = Keep((txs \ {t}) \cup {[t EXCEPT !.past = TRUE]}, call)
  /\ UNCHANGED <<kind, call, chain, window, hist>>

\* What follows each transaction or read, per caller: createApprovedRuntime
\* under both draws of the SDK,
CreateApprovedRuntime == [finalize |-> "review", review |-> "bind"]
\* resolveConfig and resolveInline, which replays what resolveConfig resolved,
ResolveConfig == [bind |-> "refresh", refresh |-> "resolveId", resolveId |-> "resolve"]
ResolveInline == [resolve |-> "replay"]
\* prepareInlineRngV2 and settleInlineRngV2,
PrepareInlineRngV2 == [bind |-> "resolveId", resolveId |-> "prepare", prepare |-> "wait"]
SettleInlineRngV2 == [settle |-> "replay"]
\* resolveConditionsRound and commitConditions,
ResolveConditionsRound ==
  [finalize |-> "status", review |-> "bind", bind |-> "resolveConditions",
   resolveConditions |-> "ok"]
CommitConditions == [finalize |-> "ok"]
\* runResolveOperator, which replays nothing.
RunResolveOperator ==
  [finalize |-> "review", review |-> "bind", bind |-> "refresh", refresh |-> "resolveId",
   resolveId |-> "resolve", resolve |-> "ok"]

\* sortitionCreateDrawInline, sortitionRegisterTicketInline, sortitionSealDrawInline
\* and sortitionClaimTicketInline return what sendInstruction confirmed.
SendInstruction == [k \in SortitionCalls |-> "ok"]

\* One caller goes on where the other ends.
Joined(f, g) == [x \in DOMAIN f \cup DOMAIN g |-> IF x \in DOMAIN f THEN f[x] ELSE g[x]]

Follow(k) ==
  CASE k = "inline" -> Joined(CreateApprovedRuntime, Joined(ResolveConfig, ResolveInline))
    [] k = "rngv2" -> Joined(CreateApprovedRuntime, Joined(PrepareInlineRngV2, SettleInlineRngV2))
    [] k = "conditions" -> ResolveConditionsRound
    [] k = "commit" -> CommitConditions
    [] k = "script" -> RunResolveOperator
    [] k \in SortitionCalls -> SendInstruction

Chunked(c, i) == [call[c] EXCEPT !.pc = "chunk", !.phase = "ready", !.attempt = 1, !.i = i]
Step(c, pc) == [call[c] EXCEPT !.pc = pc, !.phase = "ready", !.attempt = 1]

\* The loop over the parts of a chunk.
\* Mutant: the loop runs once more.
MoreToWriteOnce(l) == l.off < Writes
MoreToWrite(l) == l.off + 1 < Writes

Continue(c) ==
  LET l == call[c] IN
  CASE l.pc \in {"initConfig", "setConfig"} -> Step(c, "lookup")
    [] l.pc = "submit" -> Chunked(c, 0)
    [] l.pc = "initChunk" -> [Step(c, "write") EXCEPT !.off = 0]
    [] l.pc = "write" -> IF MoreToWrite(l)
                           THEN [Step(c, "write") EXCEPT !.off = @ + 1]
                           ELSE Chunked(c, l.i + 1)
    [] OTHER -> Step(c, Follow(kind[c])[l.pc])

\* pollSignature, its status lookup or notification.
PollStatus(c) ==
  /\ call[c].phase = "poll"
  /\ \E t \in txs : Mine(c, t) /\
       \/ t.status = "ok" /\ txs' = txs \ {t}
            /\ call' = [call EXCEPT ![c] = [Continue(c) EXCEPT !.sig = <<t.n, t.k>>]]
       \/ t.status = "err" /\ Throw(c, FALSE) /\ txs' = txs \ {t}
       \/ t.status = "sent" /\ call' = [call EXCEPT ![c].phase = "unseen"] /\ UNCHANGED txs
  /\ UNCHANGED <<kind, chain, window, faults, hist>>

\* What sendAndConfirmSigned does about an expired blockhash.  The script
\* sends with Anchor's rpc(), which signs nothing again.
\* Mutant: an expired transaction is taken for a confirmed one.
OnExpiryGoOn(c) == call' = [call EXCEPT ![c] = Continue(c)]
OnExpiry(c) ==
  IF kind[c] # "script" /\ call[c].attempt < SendAttempts
    THEN call' = [call EXCEPT ![c].attempt = @ + 1, ![c].phase = "ready"]
    ELSE Throw(c, TRUE)

\* Its height lookup, after a status lookup that saw nothing.
CheckHeight(c) ==
  /\ call[c].phase = "unseen"
  /\ \E t \in txs : Mine(c, t) /\
       \/ ~t.past /\ call' = [call EXCEPT ![c].phase = "poll"] /\ UNCHANGED txs
       \/ t.past /\ OnExpiry(c) /\ txs' = txs \ {t}
  /\ UNCHANGED <<kind, chain, window, faults, hist>>

\* POLL_DEADLINE_MS passes.
PollDeadline(c) ==
  /\ call[c].phase \in {"poll", "unseen"}
  /\ faults < MaxFaults /\ faults' = faults + 1
  /\ Throw(c, FALSE)
  /\ txs' = Keep(txs, call')
  /\ UNCHANGED <<kind, chain, window, hist>>

-----------------------------------------------------------------------------
(* sdk/operator.ts. *)

\* A call starts with loadOutcomeClient and ensureWalletFunds, or with the client
\* of its own, without a look at the chain.
FirstStep(k) ==
  CASE k \in {"commit", "conditions"} -> "lookup"
    [] k \in SortitionCalls -> k
    [] OTHER -> "config"

Start(c) ==
  /\ call[c].pc = "idle" /\ kind[c] # "none"
  /\ Goto(c, FirstStep(kind[c]))
  /\ UNCHANGED <<kind, chain, window, txs, faults, hist>>

\* ensureProgramConfig reads the account.
ReadConfig(c) ==
  /\ call[c].pc = "config"
  /\ Goto(c, CASE config = "none" -> "initConfig"
               [] config = "open" -> "setConfig"
               [] config = "closed" -> "lookup")
  /\ UNCHANGED <<kind, chain, window, txs, faults, hist>>

\* submitApprovedArtifact, submitArtifact and the script's submitApprovedArtifact
\* read the artifact account and go on from what they read; the script
\* finalizes an unfinished artifact as it is.
\* Mutant: the SDK does so too.
SubmitApprovedUnresumed ==
  CASE artifact = "none" -> "submit"
    [] artifact = "submitted" -> "finalize"
    [] OTHER -> IF artifact = "APPROVED" THEN "bind" ELSE "review"
SubmitApprovedArtifact ==
  CASE artifact = "none" -> "submit"
    [] artifact = "submitted" -> "chunk"
    [] OTHER -> IF artifact = "APPROVED" THEN "bind" ELSE "review"

SubmitArtifact(review) ==
  CASE artifact = "none" -> "submit"
    [] artifact = "submitted" -> "chunk"
    [] OTHER -> IF review THEN "status" ELSE "ok"

ScriptSubmitArtifact ==
  CASE artifact = "none" -> "submit"
    [] artifact = "submitted" -> "finalize"
    [] OTHER -> IF artifact = "APPROVED" THEN "bind" ELSE "review"

AfterLookup(k) ==
  CASE k \in {"rngv2", "inline"} -> SubmitApprovedArtifact
    [] k \in {"conditions", "commit"} -> SubmitArtifact(k = "conditions")
    [] k = "script" -> ScriptSubmitArtifact

ReadArtifact(c) ==
  /\ call[c].pc = "lookup"
  /\ call' = [call EXCEPT ![c] = [Step(c, AfterLookup(kind[c])) EXCEPT !.i = 0]]
  /\ UNCHANGED <<kind, chain, window, txs, faults, hist>>

\* The conditions operator reads the status again before it reviews.
ReadStatus(c) ==
  /\ call[c].pc = "status"
  /\ Goto(c, IF artifact = "APPROVED" THEN "bind" ELSE "review")
  /\ UNCHANGED <<kind, chain, window, txs, faults, hist>>

\* writeArtifactChunks reads the chunk account and appends from written_len;
\* the script creates the account without a look.
ReadChunk(c) ==
  LET i == call[c].i IN
  /\ call[c].pc = "chunk"
  /\ call' = [call EXCEPT ![c] =
       CASE i = Chunks -> Step(c, "finalize")
         [] i < Chunks /\ (chunk[i] = NoAccount \/ kind[c] = "script") -> Step(c, "initChunk")
         [] i < Chunks /\ chunk[i] \in 0..(Writes - 1) /\ kind[c] # "script" ->
              [Step(c, "write") EXCEPT !.off = chunk[i]]
         [] OTHER -> Chunked(c, i + 1)]
  /\ UNCHANGED <<kind, chain, window, txs, faults, hist>>

\* fetchOutcomeConfigState reads next_resolve_id once, before the prepare or
\* the resolve is built.
ReadResolveId(c) ==
  /\ call[c].pc = "resolveId"
  /\ call' = [call EXCEPT ![c] =
       [Step(c, Follow(kind[c]).resolveId) EXCEPT !.rid = runtime[c]]]
  /\ UNCHANGED <<kind, chain, window, txs, faults, hist>>

\* waitForSlotAfter.
\* Mutant: it waits for the slots whatever the expiry slot is.
WaitForSlotOnly(c) ==
  /\ call[c].pc = "wait" /\ window[c] = "open"
  /\ Goto(c, "settle")
  /\ UNCHANGED <<kind, chain, window, txs, faults, hist>>
WaitForSlotAfter(c) ==
  /\ call[c].pc = "wait" /\ window[c] # "early"
  /\ Goto(c, IF window[c] = "open" THEN "settle" ELSE "failed")
  /\ UNCHANGED <<kind, chain, window, txs, faults, hist>>

\* verifyOutcome replays the confirmed transaction before it is reported.
Replay(c) ==
  /\ call[c].pc = "replay"
  /\ Goto(c, "ok")
  /\ UNCHANGED <<kind, chain, window, txs, faults, hist>>

\* The replay cannot read the transaction, or the process is killed.
Crash(c) ==
  /\ call[c].pc \notin Ended
  /\ faults < MaxFaults /\ faults' = faults + 1
  /\ Goto(c, "failed")
  /\ txs' = Keep(txs, call')
  /\ UNCHANGED <<kind, chain, window, hist>>

\* expireInlineRngV2, called by anyone after the window.
ExpireInlineRngV2(c) ==
  LET t == [c |-> c, op |-> "expire", i |-> 0, off |-> 0] IN
  /\ Accepts(t) /\ Execute(t)
  /\ UNCHANGED <<kind, call, window, txs, faults, hist>>

-----------------------------------------------------------------------------
(* Slots and the specification. *)

SlotsMature(c) ==
  /\ draw[c] = "prepared" /\ window[c] = "early"
  /\ window' = [window EXCEPT ![c] = "open"]
  /\ UNCHANGED <<kind, call, chain, txs, faults, hist>>

WindowCloses(c) ==
  /\ window[c] = "open" /\ faults < MaxFaults /\ faults' = faults + 1
  /\ window' = [window EXCEPT ![c] = "closed"]
  /\ UNCHANGED <<kind, call, chain, txs, hist>>

\* A deadline of the sortition draw passes: of the registrations, of the seal,
\* or of the claims.
SortitionDeadline ==
  /\ sortition.draw \in {"registering", "closed", "sealed"}
  /\ \E c \in Calls : kind[c] \in SortitionCalls /\ call[c].pc \notin Ended
  /\ sortition' = [sortition EXCEPT !.draw = IF @ = "registering" THEN "closed" ELSE "over"]
  /\ UNCHANGED <<kind, call, config, artifact, chunk, runtime, draw, window, txs, faults, hist>>

Proceed(c) ==
  \/ Start(c) \/ ReadConfig(c) \/ ReadArtifact(c) \/ ReadStatus(c) \/ ReadChunk(c) \/ ReadResolveId(c)
  \/ Send(c) \/ PollStatus(c) \/ CheckHeight(c) \/ WaitForSlotAfter(c) \/ Replay(c)

Next ==
  \/ \E c \in Calls :
       \/ Proceed(c) \/ SendError(c) \/ PollDeadline(c) \/ Crash(c)
       \/ ExpireInlineRngV2(c) \/ SlotsMature(c) \/ WindowCloses(c)
  \/ SortitionDeadline
  \/ \E t \in txs : Land(t) \/ BlockhashExpires(t)

Spec == Init /\ [][Next]_vars

\* A call goes on when its RPC answers, the cluster executes what it was sent
\* and produces slots.
FairSpec ==
  /\ Spec
  /\ \A c \in Calls : WF_vars(Proceed(c)) /\ WF_vars(SlotsMature(c))
  /\ WF_vars(\E t \in txs : Land(t))

-----------------------------------------------------------------------------
(* Properties. *)

\* The chain has its type, the retries stay within SEND_ATTEMPTS and the four
\* settle attempts, and the upload within the artifact.
OperatorTypeOK ==
  /\ config \in {"none", "open", "closed"}
  /\ artifact \in {"none", "submitted"} \cup Statuses
  /\ chunk \in [Indices -> NoAccount..Writes]
  /\ runtime \in [Calls -> Int]
  /\ draw \in [Calls -> {"none", "prepared", "settled", "expired"}]
  /\ sortition \in [draw : {"none", "registering", "closed", "sealed", "over"},
                    ticket : {"none", "open", "claimed"}]
  /\ window \in [Calls -> {"early", "open", "closed"}]
  /\ faults \in 0..MaxFaults
  /\ \A c \in Calls : /\ call[c].attempt \in 1..SendAttempts /\ call[c].tries \in 1..SettleAttempts
                     /\ call[c].i \in 0..Chunks /\ call[c].off \in 0..(Writes - 1)

\* Signing a transaction again when the first may have landed never doubles its
\* effect: one prepare or resolve per call, one settle, one write per part,
\* although the client cannot tell a dropped transaction from one it missed.
\* Nor does repeating a request to a sortition route after an error: of all calls
\* one creates the draw, one registers the ticket, one seals and one claims.
EffectsOnce ==
  /\ twice \subseteq Idempotent
  /\ \A x, y \in landed : x[2] = y[2] /\ x[2] \in SortitionCalls => x[1] = y[1]

\* A call that returns success reports the transaction that settled its draw,
\* not an earlier or a later attempt.
SuccessIsTheSettlement ==
  \A c \in Calls : (call[c].pc = "ok" /\ kind[c] \in {"rngv2", "inline", "script"}) =>
    draw[c] = "settled" /\ call[c].sig = settledBy[c]

\* A sortition route that answers ok names a transaction of its own that took
\* effect: nobody is told of a ticket or a claim that only another request made,
\* or that never landed.
SuccessIsTheEffect ==
  \A c \in Calls : (call[c].pc = "ok" /\ kind[c] \in SortitionCalls) =>
    \E x \in landed : x[1] = c /\ x[2] = kind[c]

\* What a caller is told and what happened on chain agree, after any number of
\* lost, late or repeated transactions.
CallsSound == OperatorTypeOK /\ EffectsOnce /\ SuccessIsTheSettlement /\ SuccessIsTheEffect

\* Every call ends, whatever is lost: none waits for a window that has closed.
CallsEnd == \A c \in Calls : (call[c].pc # "idle") ~> (call[c].pc \in Ended)

\* The call is about to look at the chain, alone, with nothing in flight and
\* nothing that will go wrong any more.
Undisturbed(c) ==
  /\ call[c].pc = "lookup" /\ txs = {} /\ faults = MaxFaults
  /\ \A d \in Calls \ {c} : kind[d] = "none" \/ call[d].pc \in {"ok", "failed"}

\* Whatever an earlier call left on chain when it failed or was killed, an
\* undisturbed call of the SDK completes the upload from there and draws.
LaterCallCompletes ==
  \A c \in Calls : (kind[c] # "script" /\ Undisturbed(c)) ~> (call[c].pc = "ok")

=============================================================================
