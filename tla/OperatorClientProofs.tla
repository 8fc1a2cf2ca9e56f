------------------------ MODULE OperatorClientProofs ------------------------
(***************************************************************************)
(* Proofs about the calls that put a draw on chain, for any number of      *)
(* calls, chunks, attempts and faults: what a caller is told is what       *)
(* happened, and nothing that was signed again takes effect twice.         *)
(***************************************************************************)
EXTENDS OperatorClient, TLAPS

Attempts == (1..SendAttempts) \X (1..SettleAttempts)
Ids == {NoAccount} \cup Nat

\* The steps of a call, per kind.
Uploading == {"lookup", "submit", "chunk", "initChunk", "write", "finalize"}
Reviewing == {"review", "bind"}
Configuring == {"config", "initConfig", "setConfig"}
StepsOf(k) ==
  {"idle", "failed"} \cup
  (CASE k \in SortitionCalls -> {k, "ok"}
     [] k = "commit" -> Uploading \cup {"ok"}
     [] k = "conditions" -> Uploading \cup Reviewing \cup {"status", "resolveConditions", "ok"}
     [] k = "script" ->
          Configuring \cup Uploading \cup Reviewing \cup {"refresh", "resolveId", "resolve", "ok"}
     [] k = "inline" ->
          Configuring \cup Uploading \cup Reviewing
            \cup {"refresh", "resolveId", "resolve", "replay", "ok"}
     [] k = "rngv2" ->
          Configuring \cup Uploading \cup Reviewing
            \cup {"resolveId", "prepare", "wait", "settle", "replay", "ok"}
     [] k = "none" -> {})

\* The steps after the resolve id was read: none leads back to reading it.
Late == {"prepare", "wait", "settle", "resolve", "replay", "ok", "failed"}

Steps == Sends \cup Ended \cup {"config", "lookup", "chunk", "status", "resolveId", "wait", "replay"}
Locals ==
  [pc : Steps,
   phase : {"ready", "poll", "unseen"}, attempt : 1..SendAttempts, tries : 1..SettleAttempts,
   i : 0..Chunks, off : 0..(Writes - 1), rid : Ids, sig : {<<>>} \cup Attempts]
Transactions ==
  [c : Calls, op : Sends, i : 0..Chunks, off : 0..(Writes - 1), rid : Ids,
   n : 1..SendAttempts, k : 1..SettleAttempts, status : {"sent", "ok", "err"}, past : BOOLEAN]

ClientTypeOK ==
  /\ kind \in Kinds /\ call \in [Calls -> Locals] /\ txs \subseteq Transactions
  /\ config \in {"none", "open", "closed"}
  /\ artifact \in {"none", "submitted"} \cup Statuses
  /\ chunk \in [Indices -> NoAccount..Writes] /\ runtime \in [Calls -> Ids]
  /\ draw \in [Calls -> {"none", "prepared", "settled", "expired"}]
  /\ sortition \in [draw : {"none", "registering", "closed", "sealed", "over"},
                    ticket : {"none", "open", "claimed"}]
  /\ window \in [Calls -> {"early", "open", "closed"}] /\ faults \in 0..MaxFaults
  /\ landed \subseteq Calls \X Sends \X (0..Chunks) \X (0..(Writes - 1))
  /\ DOMAIN settledBy = Calls

\* The prepare or the resolve of call c took effect: the id it read is used up.
Taken(c) == call[c].pc \in Late /\ runtime[c] = call[c].rid + 1

\* A call is where its kind may be, and what it reports is so.
CallOK(c) ==
  /\ call[c].pc \in StepsOf(kind[c])
  /\ call[c].pc \in {"initChunk", "write"} => call[c].i < Chunks
  /\ (call[c].pc \in {"replay", "ok"} /\ kind[c] \in {"rngv2", "inline", "script"}) =>
       draw[c] = "settled" /\ call[c].sig = settledBy[c]
  /\ (call[c].pc = "ok" /\ kind[c] \in SortitionCalls) =>
       \E x \in landed : x[1] = c /\ x[2] = kind[c]
  /\ draw[c] # "none" => Taken(c)

\* A transaction in flight is of a call that sent it, with the id it read; one
\* that took effect is in the history, and is the settlement if it settles.
TxOK(t) ==
  /\ t.op \in {"initChunk", "write"} => t.i \in Indices
  /\ t.op \in {"prepare", "settle", "resolve"} => call[t.c].pc \in Late
  /\ t.op \in {"prepare", "resolve"} => t.rid = call[t.c].rid
  /\ t.status = "ok" =>
       /\ <<t.c, t.op, t.i, t.off>> \in landed
       /\ t.op \in {"settle", "resolve"} =>
            draw[t.c] = "settled" /\ settledBy[t.c] = <<t.n, t.k>>

\* The effect of an instruction that excludes the same again.
Spent(c, op, i, off) ==
  /\ op = "initConfig" => config # "none"
  /\ op = "submit" => artifact # "none"
  /\ op = "initChunk" => chunk[i] # NoAccount
  /\ op = "write" => chunk[i] > off
  /\ op = "finalize" => IsFinalized
  /\ op = "review" => artifact = "APPROVED"
  /\ op = "bind" => runtime[c] # NoAccount
  /\ op \in {"prepare", "resolve"} => Taken(c)
  /\ op = "settle" => draw[c] = "settled"
  /\ op = "createDraw" => sortition.draw # "none"
  /\ op = "registerTicket" => sortition.ticket # "none"
  /\ op = "sealDraw" => sortition.draw \in {"sealed", "over"}
  /\ op = "claimTicket" => sortition.ticket = "claimed"

ClientInv ==
  /\ ClientTypeOK
  /\ \A c \in Calls : CallOK(c)
  /\ \A t \in txs : TxOK(t)
  /\ \A x \in landed : Spent(x[1], x[2], x[3], x[4])
  /\ \A x \in landed : x[2] \in {"initChunk", "write"} => x[3] \in Indices
  /\ EffectsOnce

-----------------------------------------------------------------------------
(* Where a call goes. *)

Draws == {"rngv2", "inline", "script"}

\* The counts are positive.
LEMMA CountsAre ==
  /\ Chunks \in Nat /\ Writes \in Nat /\ SendAttempts \in Nat /\ SettleAttempts \in Nat
  /\ MaxFaults \in Nat /\ Chunks >= 1 /\ Writes >= 1 /\ SendAttempts >= 1 /\ SettleAttempts >= 1
  BY CountsAssumption

\* Attempts count from one, chunks and parts from zero.
LEMMA Firsts ==
  1 \in 1..SendAttempts /\ 1 \in 1..SettleAttempts /\ 0 \in 0..Chunks /\ 0 \in 0..(Writes - 1)
  BY CountsAre

\* Every call has one of the kinds.
LEMMA KindIs ==
  ASSUME ClientTypeOK, NEW c \in Calls
  PROVE  kind[c] \in {"rngv2", "inline", "script", "commit", "conditions", "none"} \cup SortitionCalls
  BY KindsAssumption DEF ClientTypeOK, SortitionCalls

\* What a call of each kind may do.
LEMMA StepsAre ==
  /\ \A k \in SortitionCalls : StepsOf(k) = {"idle", "failed", "ok", k}
  /\ StepsOf("none") = {"idle", "failed"}
  /\ StepsOf("commit") = {"idle", "failed", "ok"} \cup Uploading
  /\ StepsOf("conditions") = {"idle", "failed", "ok", "status", "resolveConditions"}
                               \cup Uploading \cup Reviewing
  /\ StepsOf("script") = {"idle", "failed", "ok", "refresh", "resolveId", "resolve"}
                           \cup Configuring \cup Uploading \cup Reviewing
  /\ StepsOf("inline") = {"idle", "failed", "ok", "refresh", "resolveId", "resolve", "replay"}
                           \cup Configuring \cup Uploading \cup Reviewing
  /\ StepsOf("rngv2") = {"idle", "failed", "ok", "resolveId", "prepare", "wait", "settle", "replay"}
                          \cup Configuring \cup Uploading \cup Reviewing
  BY DEF StepsOf, SortitionCalls

\* What follows a step that is neither of the configuration nor of a chunk: the
\* call of a draw ends only after its settlement, and no step leads back.
LEMMA FollowIs ==
  ASSUME NEW k \in {"rngv2", "inline", "script", "commit", "conditions", "none"} \cup SortitionCalls,
         NEW pc \in Sends \cup {"resolveId"}, pc \in StepsOf(k),
         pc \notin {"initConfig", "setConfig", "submit", "initChunk", "write"}
  PROVE  /\ Follow(k)[pc] \in StepsOf(k) \ {"initChunk", "write", "idle", "failed"}
         /\ pc \in Late \cup {"resolveId"} => Follow(k)[pc] \in Late
         /\ (Follow(k)[pc] \in {"replay", "ok"} /\ k \in Draws) => pc \in {"settle", "resolve"}
         /\ k \in SortitionCalls => pc = k
<1>1. CASE k \in SortitionCalls
  <2>1. Follow(k) = SendInstruction
    BY <1>1 DEF Follow, SortitionCalls
  <2>2. pc = k
    BY <1>1, StepsAre DEF Sends, SortitionCalls
  <2> QED
    BY <1>1, <2>1, <2>2, StepsAre DEF SendInstruction, SortitionCalls, Draws, Late
<1>2. CASE k = "commit"
  <2>1. pc = "finalize"
    BY <1>2, StepsAre DEF Sends, SortitionCalls, Uploading
  <2>2. Follow(k) = CommitConditions
    BY <1>2 DEF Follow, SortitionCalls
  <2> QED
    BY <1>2, <2>1, <2>2, StepsAre DEF CommitConditions, SortitionCalls, Draws, Late
<1>3. CASE k = "conditions"
  <2>1. pc \in {"finalize", "review", "bind", "resolveConditions"}
    BY <1>3, StepsAre DEF Sends, SortitionCalls, Uploading, Reviewing
  <2>2. Follow(k) = ResolveConditionsRound
    BY <1>3 DEF Follow, SortitionCalls
  <2> QED
    BY <1>3, <2>1, <2>2, StepsAre
    DEF ResolveConditionsRound, SortitionCalls, Draws, Late, Uploading, Reviewing
<1>4. CASE k = "script"
  <2>1. pc \in {"finalize", "review", "bind", "refresh", "resolveId", "resolve"}
    BY <1>4, StepsAre DEF Sends, SortitionCalls, Uploading, Reviewing, Configuring
  <2>2. Follow(k) = RunResolveOperator
    BY <1>4 DEF Follow, SortitionCalls
  <2> QED
    BY <1>4, <2>1, <2>2, StepsAre
    DEF RunResolveOperator, SortitionCalls, Draws, Late, Uploading, Reviewing
<1>5. CASE k = "inline"
  <2>1. pc \in {"finalize", "review", "bind", "refresh", "resolveId", "resolve"}
    BY <1>5, StepsAre DEF Sends, SortitionCalls, Uploading, Reviewing, Configuring
  <2>2. Follow(k) = Joined(CreateApprovedRuntime, Joined(ResolveConfig, ResolveInline))
    BY <1>5 DEF Follow, SortitionCalls
  <2>3. /\ Follow(k)["finalize"] = "review" /\ Follow(k)["review"] = "bind"
        /\ Follow(k)["bind"] = "refresh" /\ Follow(k)["refresh"] = "resolveId"
        /\ Follow(k)["resolveId"] = "resolve" /\ Follow(k)["resolve"] = "replay"
    BY <2>2 DEF Joined, CreateApprovedRuntime, ResolveConfig, ResolveInline
  <2> QED
    BY <1>5, <2>1, <2>3, StepsAre DEF SortitionCalls, Draws, Late, Uploading, Reviewing
<1>6. CASE k = "rngv2"
  <2>1. pc \in {"finalize", "review", "bind", "resolveId", "prepare", "settle"}
    BY <1>6, StepsAre DEF Sends, SortitionCalls, Uploading, Reviewing, Configuring
  <2>2. Follow(k) = Joined(CreateApprovedRuntime, Joined(PrepareInlineRngV2, SettleInlineRngV2))
    BY <1>6 DEF Follow, SortitionCalls
  <2>3. /\ Follow(k)["finalize"] = "review" /\ Follow(k)["review"] = "bind"
        /\ Follow(k)["bind"] = "resolveId" /\ Follow(k)["resolveId"] = "prepare"
        /\ Follow(k)["prepare"] = "wait" /\ Follow(k)["settle"] = "replay"
    BY <2>2 DEF Joined, CreateApprovedRuntime, PrepareInlineRngV2, SettleInlineRngV2
  <2> QED
    BY <1>6, <2>1, <2>3, StepsAre DEF SortitionCalls, Draws, Late, Uploading, Reviewing
<1>7. CASE k = "none"
  BY <1>7, StepsAre DEF Sends, SortitionCalls
<1> QED
  BY <1>1, <1>2, <1>3, <1>4, <1>5, <1>6, <1>7

\* Where call c may go: to a step of its kind, not back before the resolve id,
\* and to a report only of what happened.
MayGo(c, l) ==
  /\ l \in Locals /\ l.pc \in StepsOf(kind[c])
  /\ l.pc \in {"initChunk", "write"} => l.i < Chunks
  /\ call[c].pc \in Late => l.pc \in Late /\ l.rid = call[c].rid
  /\ (l.pc \in {"replay", "ok"} /\ kind[c] \in Draws) =>
       draw[c] = "settled" /\ l.sig = settledBy[c]
  /\ (l.pc = "ok" /\ kind[c] \in SortitionCalls) =>
       \E x \in landed : x[1] = c /\ x[2] = kind[c]

\* A step of a client: only its locals change, and it may send its transaction.
ClientGoes(c, l) ==
  /\ MayGo(c, l) /\ call' = [call EXCEPT ![c] = l]
  /\ txs' \subseteq txs \/ (txs' \subseteq txs \cup {Tx(c)} /\ call[c].pc \in Sends)
  /\ faults' \in 0..MaxFaults
  /\ UNCHANGED <<kind, chain, window, hist>>

\* Such a step keeps the invariant.
LEMMA ClientStep ==
  ASSUME ClientInv, NEW c \in Calls, NEW l, ClientGoes(c, l)
  PROVE  ClientInv'
<1> USE DEF ClientInv
<1>1. /\ call \in [Calls -> Locals] /\ l \in Locals /\ call' = [call EXCEPT ![c] = l]
      /\ call[c] \in Locals /\ call'[c] = l /\ \A d \in Calls \ {c} : call'[d] = call[d]
      /\ call' \in [Calls -> Locals]
  BY DEF ClientTypeOK, ClientGoes, MayGo
<1>2. /\ kind' = kind /\ config' = config /\ artifact' = artifact /\ chunk' = chunk
      /\ runtime' = runtime /\ draw' = draw /\ sortition' = sortition /\ window' = window
      /\ landed' = landed /\ twice' = twice /\ settledBy' = settledBy
  BY DEF ClientGoes, chain, hist
<1>3. Tx(c) \in Transactions \/ call[c].pc \notin Sends
  BY <1>1, CountsAre DEF Tx, Transactions, Locals
<1>4. ClientTypeOK'
  <2>1. txs' \subseteq Transactions
    BY <1>3 DEF ClientGoes, ClientTypeOK
  <2> QED
    BY <1>1, <1>2, <2>1 DEF ClientTypeOK, ClientGoes
<1>5. \A d \in Calls : /\ call[d].pc \in Late => call'[d].pc \in Late /\ call'[d].rid = call[d].rid
                       /\ Taken(d) => Taken(d)'
  BY <1>1, <1>2 DEF ClientGoes, MayGo, Taken
<1>6. ASSUME NEW d \in Calls PROVE CallOK(d)'
  <2>1. CASE d = c
    <3>1. CallOK(c) /\ MayGo(c, l)
      BY DEF ClientGoes
    <3> QED
      BY <1>1, <1>2, <1>5, <2>1, <3>1 DEF CallOK, MayGo, Draws
  <2>2. CASE d # c
    BY <1>1, <1>2, <1>5, <2>2 DEF CallOK
  <2> QED
    BY <2>1, <2>2
<1>7. ASSUME NEW t \in txs' PROVE TxOK(t)'
  <2>1. CASE t \in txs
    <3>1. t.c \in Calls /\ TxOK(t)
      BY <2>1 DEF ClientTypeOK, Transactions
    <3> QED
      BY <1>2, <1>5, <3>1 DEF TxOK
  <2>2. CASE t \notin txs
    <3>1. t = Tx(c) /\ call[c].pc \in Sends /\ CallOK(c)
      BY <2>2 DEF ClientGoes
    <3>2. /\ t.c = c /\ t.op = call[c].pc /\ t.i = call[c].i /\ t.rid = call[c].rid
          /\ t.status = "sent" /\ call[c].i \in 0..Chunks
      BY <1>1, <3>1 DEF Tx, Locals
    <3>3. t.op \in {"initChunk", "write"} => t.i \in Indices
      BY <3>1, <3>2, CountsAre DEF CallOK, Indices
    <3> QED
      BY <1>5, <3>2, <3>3 DEF TxOK, Late
  <2> QED
    BY <2>1, <2>2
<1>8. \A x \in landed : x[1] \in Calls
  BY DEF ClientTypeOK
<1>9. ASSUME NEW x \in landed PROVE Spent(x[1], x[2], x[3], x[4])'
  BY <1>2, <1>5, <1>8 DEF Spent, IsFinalized
<1>10. EffectsOnce'
  BY <1>2 DEF EffectsOnce
<1> QED
  BY <1>2, <1>4, <1>6, <1>7, <1>9, <1>10

\* The steps of every kind are steps.
LEMMA StepsIn ==
  ASSUME ClientTypeOK, NEW c \in Calls
  PROVE  StepsOf(kind[c]) \subseteq Steps
<1>1. kind[c] \in {"rngv2", "inline", "script", "commit", "conditions", "none"} \cup SortitionCalls
  BY KindIs
<1> QED
  BY <1>1, StepsAre DEF Steps, Sends, Ended, Uploading, Reviewing, Configuring

\* An error ends the call, or lets it settle again.
LEMMA ThrowGoes ==
  ASSUME ClientInv, NEW c \in Calls, NEW retryable \in BOOLEAN, Throw(c, retryable)
  PROVE  \E l : MayGo(c, l) /\ call' = [call EXCEPT ![c] = l]
<1> USE DEF ClientInv
<1>1. call[c] \in Locals /\ CallOK(c) /\ call \in [Calls -> Locals]
  BY DEF ClientTypeOK
<1>2. kind[c] \in {"rngv2", "inline", "script", "commit", "conditions", "none"} \cup SortitionCalls
  BY KindIs
<1>3. CASE SettleAgain(call[c], retryable)
  <2> DEFINE l == [call[c] EXCEPT !.pc = "wait", !.phase = "ready", !.attempt = 1, !.tries = @ + 1]
  <2>1. call' = [call EXCEPT ![c] = l]
    BY <1>1, <1>3 DEF Throw, Thrown
  <2>2. call[c].pc = "settle" /\ call[c].tries < SettleAttempts
    BY <1>3 DEF SettleAgain
  <2>3. kind[c] = "rngv2"
    BY <1>1, <1>2, <2>2, StepsAre DEF CallOK, Uploading, Reviewing, Configuring, SortitionCalls
  <2>4. l \in Locals /\ l.pc = "wait" /\ l.rid = call[c].rid
    <3>1. call[c].tries + 1 \in 1..SettleAttempts /\ "wait" \in Steps
      BY <1>1, <2>2, CountsAre DEF Locals, Steps
    <3> QED
      BY <1>1, <3>1, Firsts DEF Locals
  <2>5. MayGo(c, l)
    <3> HIDE DEF l
    <3> QED
      BY <2>3, <2>4, StepsAre DEF MayGo, Late
  <2> QED
    BY <2>1, <2>5
<1>4. CASE ~SettleAgain(call[c], retryable)
  <2> DEFINE l == [call[c] EXCEPT !.pc = "failed"]
  <2>1. call' = [call EXCEPT ![c] = l]
    BY <1>1, <1>4 DEF Throw, Thrown
  <2>2. l \in Locals /\ l.pc = "failed" /\ l.rid = call[c].rid
    BY <1>1 DEF Locals, Steps, Ended
  <2>3. "failed" \in StepsOf(kind[c])
    BY DEF StepsOf
  <2>4. MayGo(c, l)
    <3> HIDE DEF l
    <3> QED
      BY <2>2, <2>3 DEF MayGo, Late
  <2> QED
    BY <2>1, <2>4
<1> QED
  BY <1>3, <1>4

\* The locals of a call at its next step.
LEMMA StepIs ==
  ASSUME ClientTypeOK, NEW c \in Calls, NEW pc \in Steps
  PROVE  /\ Step(c, pc) \in Locals /\ Step(c, pc).pc = pc
         /\ Step(c, pc).rid = call[c].rid /\ Step(c, pc).sig = call[c].sig
         /\ Step(c, pc).i = call[c].i /\ Step(c, pc).off = call[c].off
<1>1. call[c] \in Locals
  BY DEF ClientTypeOK
<1> QED
  BY <1>1, Firsts DEF Step, Locals

\* A call that goes on without a report.
LEMMA GotoGoes ==
  ASSUME ClientInv, NEW c \in Calls, NEW pc, Goto(c, pc),
         pc \in StepsOf(kind[c]) \ {"initChunk", "write", "replay", "ok"},
         call[c].pc \in Late => pc \in Late
  PROVE  \E l : MayGo(c, l) /\ call' = [call EXCEPT ![c] = l]
<1> USE DEF ClientInv
<1>1. call[c] \in Locals /\ call \in [Calls -> Locals] /\ pc \in Steps
  BY StepsIn DEF ClientTypeOK
<1>2. call' = [call EXCEPT ![c] = Step(c, pc)]
  BY <1>1 DEF Goto, Step
<1>3. MayGo(c, Step(c, pc))
  BY <1>1, StepIs DEF MayGo
<1> QED
  BY <1>2, <1>3

\* The next chunk of an upload.
LEMMA ChunkedIs ==
  ASSUME ClientTypeOK, NEW c \in Calls, NEW i \in 0..Chunks
  PROVE  Chunked(c, i) \in Locals /\ Chunked(c, i).pc = "chunk"
<1>1. call[c] \in Locals
  BY DEF ClientTypeOK
<1>2. "chunk" \in Steps
  BY DEF Steps
<1> QED
  BY <1>1, <1>2, Firsts DEF Chunked, Locals

\* A confirmed transaction is followed by the next step of the call.
LEMMA ContinueIs ==
  ASSUME ClientInv, NEW c \in Calls, call[c].pc \in Sends
  PROVE  /\ Continue(c) \in Locals /\ Continue(c).pc \in StepsOf(kind[c])
         /\ Continue(c).pc \in {"initChunk", "write"} => Continue(c).i < Chunks
         /\ call[c].pc \in Late => Continue(c).pc \in Late /\ Continue(c).rid = call[c].rid
         /\ (Continue(c).pc \in {"replay", "ok"} /\ kind[c] \in Draws) =>
              call[c].pc \in {"settle", "resolve"}
         /\ (Continue(c).pc = "ok" /\ kind[c] \in SortitionCalls) => call[c].pc = kind[c]
<1> USE DEF ClientInv
<1>1. /\ call[c] \in Locals /\ call[c].pc \in StepsOf(kind[c])
      /\ call[c].i \in 0..Chunks /\ call[c].off \in 0..(Writes - 1)
      /\ call[c].pc \in {"initChunk", "write"} => call[c].i < Chunks
  BY DEF ClientTypeOK, CallOK, Locals
<1>2. kind[c] \in {"rngv2", "inline", "script", "commit", "conditions", "none"} \cup SortitionCalls
  BY KindIs
<1>3. CASE call[c].pc \in {"initConfig", "setConfig"}
  <2>1. kind[c] \in Draws
    BY <1>1, <1>2, <1>3, StepsAre DEF Draws, Uploading, Reviewing, SortitionCalls
  <2>2. "lookup" \in StepsOf(kind[c]) /\ "lookup" \in Steps
    BY <2>1, StepsAre DEF Draws, Uploading, Steps
  <2>3. Continue(c) = Step(c, "lookup")
    BY <1>3 DEF Continue
  <2> QED
    BY <1>3, <2>2, <2>3, StepIs DEF Late
<1>4. CASE call[c].pc \in {"submit", "initChunk", "write"}
  <2>1. kind[c] \in {"rngv2", "inline", "script", "commit", "conditions"}
    BY <1>1, <1>2, <1>4, StepsAre DEF SortitionCalls
  <2>2. {"chunk", "write"} \subseteq StepsOf(kind[c]) /\ {"chunk", "write"} \subseteq Steps
    BY <2>1, StepsAre DEF Uploading, Steps, Sends
  <2>3. ASSUME NEW i \in 0..Chunks, Continue(c) = Chunked(c, i)
        PROVE  Continue(c) \in Locals /\ Continue(c).pc = "chunk"
    BY <2>3, ChunkedIs
  <2>4. ASSUME NEW off \in 0..(Writes - 1), Continue(c) = [Step(c, "write") EXCEPT !.off = off],
               call[c].i < Chunks
        PROVE  Continue(c) \in Locals /\ Continue(c).pc = "write" /\ Continue(c).i < Chunks
    BY <2>2, <2>4, StepIs DEF Locals
  <2>5. CASE call[c].pc = "submit"
    <3>1. Continue(c) = Chunked(c, 0) /\ 0 \in 0..Chunks
      BY <2>5, CountsAre DEF Continue
    <3> QED
      BY <2>2, <2>3, <2>5, <3>1 DEF Late
  <2>6. CASE call[c].pc = "initChunk"
    <3>1. Continue(c) = [Step(c, "write") EXCEPT !.off = 0] /\ 0 \in 0..(Writes - 1)
      BY <2>6, CountsAre DEF Continue
    <3> QED
      BY <1>1, <2>2, <2>4, <2>6, <3>1 DEF Late
  <2>7. CASE call[c].pc = "write"
    <3>1. CASE MoreToWrite(call[c])
      <4>1. Continue(c) = [Step(c, "write") EXCEPT !.off = call[c].off + 1]
        <5>1. Continue(c) = [Step(c, "write") EXCEPT !.off = @ + 1]
          BY <2>7, <3>1 DEF Continue
        <5>2. Step(c, "write") \in Locals /\ Step(c, "write").off = call[c].off
          BY <2>2, StepIs
        <5> QED
          BY <5>1, <5>2 DEF Locals
      <4>2. call[c].off + 1 \in 0..(Writes - 1)
        BY <1>1, <3>1, CountsAre DEF MoreToWrite
      <4> QED
        BY <1>1, <2>2, <2>4, <2>7, <4>1, <4>2 DEF Late
    <3>2. CASE ~MoreToWrite(call[c])
      <4>1. Continue(c) = Chunked(c, call[c].i + 1) /\ call[c].i + 1 \in 0..Chunks
        BY <1>1, <2>7, <3>2, CountsAre DEF Continue
      <4> QED
        BY <2>2, <2>3, <2>7, <4>1 DEF Late
    <3> QED
      BY <3>1, <3>2
  <2> QED
    BY <1>4, <2>5, <2>6, <2>7
<1>5. CASE call[c].pc \notin {"initConfig", "setConfig", "submit", "initChunk", "write"}
  <2>1. Continue(c) = Step(c, Follow(kind[c])[call[c].pc])
    BY <1>5 DEF Continue
  <2>2. Follow(kind[c])[call[c].pc] \in Steps
    BY <1>1, <1>2, <1>5, FollowIs, StepsIn
  <2>3. /\ Continue(c) \in Locals /\ Continue(c).pc = Follow(kind[c])[call[c].pc]
        /\ Continue(c).rid = call[c].rid
    BY <2>1, <2>2, StepIs
  <2> QED
    BY <1>1, <1>2, <1>5, <2>3, FollowIs
<1> QED
  BY <1>3, <1>4, <1>5

-----------------------------------------------------------------------------
(* The steps of a client. *)

\* The reads of a call: they go on from what is on chain.
LEMMA ReadStep ==
  ASSUME ClientInv, NEW c \in Calls,
         \/ Start(c) \/ ReadConfig(c) \/ ReadArtifact(c) \/ ReadStatus(c) \/ ReadChunk(c)
         \/ ReadResolveId(c) \/ WaitForSlotAfter(c) \/ Replay(c)
  PROVE  \E l : ClientGoes(c, l)
<1> USE DEF ClientInv
<1>1. /\ call[c] \in Locals /\ call \in [Calls -> Locals] /\ CallOK(c)
      /\ call[c].pc \in StepsOf(kind[c])
  BY DEF ClientTypeOK, CallOK
<1>2. kind[c] \in {"rngv2", "inline", "script", "commit", "conditions", "none"} \cup SortitionCalls
  BY KindIs
<1>3. ASSUME NEW l, MayGo(c, l), call' = [call EXCEPT ![c] = l]
      PROVE  ClientGoes(c, l)
  <2>1. faults \in 0..MaxFaults
    BY DEF ClientTypeOK
  <2>2. UNCHANGED <<kind, chain, window, txs, faults, hist>>
    BY DEF Start, ReadConfig, ReadArtifact, ReadStatus, ReadChunk, ReadResolveId, WaitForSlotAfter, Replay
  <2> QED
    BY <1>3, <2>1, <2>2 DEF ClientGoes
<1>4. ASSUME NEW pc \in StepsOf(kind[c]) \ {"initChunk", "write", "replay", "ok"}, Goto(c, pc),
             call[c].pc \in Late => pc \in Late
      PROVE  \E l : ClientGoes(c, l)
  BY <1>3, <1>4, GotoGoes
<1>5. CASE Start(c)
  <2>1. FirstStep(kind[c]) \in StepsOf(kind[c]) \ {"initChunk", "write", "replay", "ok"}
    <3>1. kind[c] # "none"
      BY <1>5 DEF Start
    <3> QED
      BY <1>2, <3>1, StepsAre DEF FirstStep, SortitionCalls, Uploading, Configuring
  <2> QED
    BY <1>4, <1>5, <2>1 DEF Start, Late
<1>6. CASE ReadConfig(c)
  <2>1. kind[c] \in Draws
    BY <1>1, <1>2, <1>6, StepsAre DEF ReadConfig, Draws, Uploading, Reviewing, SortitionCalls
  <2>2. {"initConfig", "setConfig", "lookup"} \subseteq StepsOf(kind[c])
    BY <2>1, StepsAre DEF Draws, Uploading, Configuring
  <2>3. config \in {"none", "open", "closed"}
    BY DEF ClientTypeOK
  <2>4. PICK pc \in {"initConfig", "setConfig", "lookup"} : Goto(c, pc)
    BY <1>6, <2>3 DEF ReadConfig
  <2> QED
    BY <1>4, <1>6, <2>2, <2>4 DEF ReadConfig, Late
<1>7. CASE ReadArtifact(c)
  <2> DEFINE pc == AfterLookup(kind[c])
             l == [Step(c, pc) EXCEPT !.i = 0]
  <2>1. kind[c] \in {"rngv2", "inline", "script", "commit", "conditions"}
    BY <1>1, <1>2, <1>7, StepsAre DEF ReadArtifact, SortitionCalls
  <2>2. /\ pc \in {"submit", "chunk", "finalize", "bind", "review", "status", "ok"}
        /\ pc \in {"bind", "review"} => kind[c] \in Draws
        /\ pc = "status" => kind[c] = "conditions"
        /\ pc = "ok" => kind[c] = "commit"
    BY <2>1 DEF AfterLookup, SubmitApprovedArtifact, SubmitArtifact, ScriptSubmitArtifact, Draws
  <2> HIDE DEF pc
  <2>3. pc \in StepsOf(kind[c]) /\ pc \in Steps
    BY <2>1, <2>2, StepsAre, StepsIn DEF Uploading, Reviewing, Draws
  <2>4. l \in Locals /\ l.pc = pc
    BY <2>3, StepIs, Firsts DEF Locals
  <2>5. call' = [call EXCEPT ![c] = l] /\ call[c].pc = "lookup"
    BY <1>7 DEF ReadArtifact, pc
  <2>6. MayGo(c, l)
    <3> HIDE DEF l
    <3> QED
      BY <2>2, <2>3, <2>4, <2>5 DEF MayGo, Late, Draws, SortitionCalls
  <2> QED
    BY <1>3, <2>5, <2>6
<1>8. CASE ReadStatus(c)
  <2>1. kind[c] = "conditions"
    BY <1>1, <1>2, <1>8, StepsAre DEF ReadStatus, Uploading, Reviewing, Configuring, SortitionCalls
  <2>2. {"bind", "review"} \subseteq StepsOf(kind[c])
    BY <2>1, StepsAre DEF Reviewing
  <2>3. PICK pc \in {"bind", "review"} : Goto(c, pc)
    BY <1>8 DEF ReadStatus
  <2> QED
    BY <1>4, <1>8, <2>2, <2>3 DEF ReadStatus, Late
<1>9. CASE ReadChunk(c)
  <2>1. kind[c] \in {"rngv2", "inline", "script", "commit", "conditions"} /\ call[c].pc = "chunk"
    BY <1>1, <1>2, <1>9, StepsAre DEF ReadChunk, SortitionCalls
  <2>2. {"finalize", "initChunk", "write", "chunk"} \subseteq StepsOf(kind[c])
    BY <2>1, StepsAre DEF Uploading
  <2>3. {"finalize", "initChunk", "write", "chunk"} \subseteq Steps
    BY <2>2, StepsIn
  <2>4. call[c].i \in 0..Chunks
    BY <1>1 DEF Locals
  <2>5. PICK l : /\ call' = [call EXCEPT ![c] = l]
                 /\ \/ l = Step(c, "finalize")
                    \/ l = Step(c, "initChunk") /\ call[c].i < Chunks
                    \/ l = [Step(c, "write") EXCEPT !.off = chunk[call[c].i]]
                         /\ call[c].i < Chunks /\ chunk[call[c].i] \in 0..(Writes - 1)
                    \/ l = Chunked(c, call[c].i + 1) /\ call[c].i # Chunks
    <3> DEFINE i == call[c].i
               A == i = Chunks
               B == i < Chunks /\ (chunk[i] = NoAccount \/ kind[c] = "script")
               C == i < Chunks /\ chunk[i] \in 0..(Writes - 1) /\ kind[c] # "script"
    <3>1. call' = [call EXCEPT ![c] = CASE A -> Step(c, "finalize")
                                        [] B -> Step(c, "initChunk")
                                        [] C -> [Step(c, "write") EXCEPT !.off = chunk[i]]
                                        [] OTHER -> Chunked(c, i + 1)]
      BY <1>9 DEF ReadChunk
    <3>2. ~(A /\ B) /\ ~(A /\ C) /\ ~(B /\ C)
      BY <2>4, CountsAre DEF NoAccount
    <3>3. (B => i < Chunks) /\ (C => i < Chunks /\ chunk[i] \in 0..(Writes - 1)) /\ (~A => i # Chunks)
      OBVIOUS
    <3> HIDE DEF A, B, C
    <3> QED
      BY <3>1, <3>2, <3>3
  <2>6. MayGo(c, l)
    <3>1. CASE l = Step(c, "finalize")
      BY <2>1, <2>2, <2>3, <3>1, StepIs DEF MayGo, Late
    <3>2. CASE l = Step(c, "initChunk") /\ call[c].i < Chunks
      BY <2>1, <2>2, <2>3, <3>2, StepIs DEF MayGo, Late
    <3>3. CASE l = [Step(c, "write") EXCEPT !.off = chunk[call[c].i]]
               /\ call[c].i < Chunks /\ chunk[call[c].i] \in 0..(Writes - 1)
      <4>1. l \in Locals /\ l.pc = "write" /\ l.i = call[c].i
        BY <2>3, <3>3, StepIs DEF Locals
      <4> QED
        BY <2>1, <2>2, <3>3, <4>1 DEF MayGo, Late
    <3>4. CASE l = Chunked(c, call[c].i + 1) /\ call[c].i # Chunks
      <4>1. call[c].i + 1 \in 0..Chunks
        BY <2>4, <3>4, CountsAre
      <4>2. l \in Locals /\ l.pc = "chunk"
        BY <3>4, <4>1, ChunkedIs
      <4> QED
        BY <2>1, <2>2, <4>2 DEF MayGo, Late
    <3> QED
      BY <2>5, <3>1, <3>2, <3>3, <3>4
  <2> QED
    BY <1>3, <2>5, <2>6
<1>10. CASE ReadResolveId(c)
  <2> DEFINE pc == Follow(kind[c])["resolveId"]
             l == [Step(c, pc) EXCEPT !.rid = runtime[c]]
  <2>1. kind[c] \in Draws /\ call[c].pc = "resolveId"
    BY <1>1, <1>2, <1>10, StepsAre DEF ReadResolveId, Draws, Uploading, Reviewing, Configuring, SortitionCalls
  <2>2. /\ pc \in StepsOf(kind[c]) \ {"initChunk", "write"}
        /\ pc \notin {"replay", "ok"} /\ pc \in Steps
    BY <1>1, <1>2, <2>1, FollowIs, StepsIn
  <2> HIDE DEF pc
  <2>3. runtime[c] \in Ids
    BY DEF ClientTypeOK
  <2>4. l \in Locals /\ l.pc = pc
    BY <2>2, <2>3, StepIs DEF Locals
  <2>5. call' = [call EXCEPT ![c] = l]
    BY <1>10 DEF ReadResolveId, pc
  <2>6. MayGo(c, l)
    <3> HIDE DEF l
    <3> QED
      BY <2>1, <2>2, <2>4 DEF MayGo, Late
  <2> QED
    BY <1>3, <2>5, <2>6
<1>11. CASE WaitForSlotAfter(c)
  <2>1. kind[c] = "rngv2"
    BY <1>1, <1>2, <1>11, StepsAre DEF WaitForSlotAfter, Uploading, Reviewing, Configuring, SortitionCalls
  <2>2. {"settle", "failed"} \subseteq StepsOf(kind[c])
    BY <2>1, StepsAre
  <2>3. PICK pc \in {"settle", "failed"} : Goto(c, pc)
    BY <1>11 DEF WaitForSlotAfter
  <2> QED
    BY <1>4, <2>2, <2>3 DEF Late
<1>12. CASE Replay(c)
  <2>1. call[c].pc = "replay" /\ kind[c] \in Draws
    BY <1>1, <1>2, <1>12, StepsAre DEF Replay, Draws, Uploading, Reviewing, Configuring, SortitionCalls
  <2>2. draw[c] = "settled" /\ call[c].sig = settledBy[c]
    BY <1>1, <2>1 DEF CallOK, Draws
  <2>3. "ok" \in StepsOf(kind[c]) /\ "ok" \in Steps
    BY <2>1, StepsAre DEF Draws, Steps, Ended
  <2>4. call' = [call EXCEPT ![c] = Step(c, "ok")]
    BY <1>1, <1>12 DEF Replay, Goto, Step
  <2>5. kind[c] \notin SortitionCalls
    BY <2>1 DEF Draws, SortitionCalls
  <2>6. MayGo(c, Step(c, "ok"))
    BY <2>1, <2>2, <2>3, <2>5, StepIs DEF MayGo, Late
  <2> QED
    BY <1>3, <2>4, <2>6
<1> QED
  BY <1>5, <1>6, <1>7, <1>8, <1>9, <1>10, <1>11, <1>12

\* sendAndConfirmSigned: what a call sends is its own transaction, and what it
\* reports is one of its own that took effect.
LEMMA ConfirmStep ==
  ASSUME ClientInv, NEW c \in Calls,
         \/ Send(c) \/ SendError(c) \/ PollStatus(c) \/ CheckHeight(c) \/ PollDeadline(c) \/ Crash(c)
  PROVE  \E l : ClientGoes(c, l)
<1> USE DEF ClientInv
<1>1. /\ call[c] \in Locals /\ call \in [Calls -> Locals] /\ CallOK(c)
      /\ call[c].pc \in StepsOf(kind[c])
  BY DEF ClientTypeOK, CallOK
<1>2. ASSUME NEW l, MayGo(c, l), call' = [call EXCEPT ![c] = l]
      PROVE  ClientGoes(c, l)
  <2>1. faults' \in 0..MaxFaults
    <3>1. faults \in 0..MaxFaults /\ (faults' = faults \/ (faults < MaxFaults /\ faults' = faults + 1))
      BY DEF ClientTypeOK, Send, SendError, PollStatus, CheckHeight, PollDeadline, Crash
    <3> QED
      BY <3>1, CountsAre
  <2>2. UNCHANGED <<kind, chain, window, hist>>
    BY DEF Send, SendError, PollStatus, CheckHeight, PollDeadline, Crash
  <2>3. txs' \subseteq txs \/ (txs' \subseteq txs \cup {Tx(c)} /\ call[c].pc \in Sends)
    BY DEF Send, SendError, PollStatus, CheckHeight, PollDeadline, Crash, Keep
  <2> QED
    BY <1>2, <2>1, <2>2, <2>3 DEF ClientGoes
<1>3. ASSUME NEW retryable \in BOOLEAN, Throw(c, retryable)
      PROVE  \E l : ClientGoes(c, l)
  BY <1>2, <1>3, ThrowGoes
\* A step that keeps the program counter keeps what it stands for.
<1>4. ASSUME NEW l \in Locals, call' = [call EXCEPT ![c] = l], l.pc = call[c].pc,
             l.i = call[c].i, l.rid = call[c].rid, l.sig = call[c].sig
      PROVE  \E m : ClientGoes(c, m)
  <2>1. MayGo(c, l)
    BY <1>1, <1>4 DEF MayGo, CallOK, Draws
  <2> QED
    BY <1>2, <1>4, <2>1
<1>5. ASSUME NEW p \in {"ready", "poll", "unseen"}, call' = [call EXCEPT ![c].phase = p]
      PROVE  \E l : ClientGoes(c, l)
  <2> DEFINE l == [call[c] EXCEPT !.phase = p]
  <2>1. /\ l \in Locals /\ l.pc = call[c].pc /\ l.i = call[c].i /\ l.rid = call[c].rid
        /\ l.sig = call[c].sig
    BY <1>1, <1>5 DEF Locals
  <2>2. call' = [call EXCEPT ![c] = l]
    BY <1>1, <1>5
  <2> HIDE DEF l
  <2> QED
    BY <1>4, <2>1, <2>2
<1>6. CASE Send(c)
  BY <1>3, <1>5, <1>6 DEF Send
<1>7. CASE SendError(c) \/ PollDeadline(c)
  BY <1>3, <1>7 DEF SendError, PollDeadline
<1>8. CASE Crash(c)
  <2>1. "failed" \in StepsOf(kind[c]) /\ "failed" \in Late
    BY DEF StepsOf, Late
  <2>2. Goto(c, "failed")
    BY <1>8 DEF Crash
  <2> QED
    BY <1>2, <2>1, <2>2, GotoGoes
<1>9. CASE PollStatus(c)
  <2>1. PICK t \in txs : Mine(c, t) /\
         \/ t.status = "ok" /\ call' = [call EXCEPT ![c] = [Continue(c) EXCEPT !.sig = <<t.n, t.k>>]]
         \/ Throw(c, FALSE)
         \/ call' = [call EXCEPT ![c].phase = "unseen"]
    BY <1>9 DEF PollStatus
  <2>2. CASE t.status = "ok" /\ call' = [call EXCEPT ![c] = [Continue(c) EXCEPT !.sig = <<t.n, t.k>>]]
    <3> DEFINE l == [Continue(c) EXCEPT !.sig = <<t.n, t.k>>]
    <3>1. t \in Transactions /\ TxOK(t) /\ t.c = c /\ t.op = call[c].pc
      BY <2>1 DEF ClientTypeOK, Mine
    <3>2. call[c].pc \in Sends /\ <<t.n, t.k>> \in Attempts
      BY <3>1 DEF Transactions, Attempts
    <3>3. /\ l \in Locals /\ l.pc = Continue(c).pc /\ l.i = Continue(c).i /\ l.rid = Continue(c).rid
          /\ l.sig = <<t.n, t.k>>
      BY <3>2, ContinueIs DEF Locals
    <3>4. <<t.c, t.op, t.i, t.off>> \in landed
      BY <2>2, <3>1 DEF TxOK
    <3>5. call[c].pc \in {"settle", "resolve"} =>
            draw[c] = "settled" /\ settledBy[c] = <<t.n, t.k>>
      BY <2>2, <3>1 DEF TxOK
    <3>6. call[c].pc = kind[c] => \E x \in landed : x[1] = c /\ x[2] = kind[c]
      BY <3>1, <3>4
    <3> HIDE DEF l
    <3>7. MayGo(c, l)
      BY <3>2, <3>3, <3>5, <3>6, ContinueIs DEF MayGo
    <3> QED
      BY <1>2, <2>2, <3>7 DEF l
  <2> QED
    BY <1>3, <1>5, <2>1, <2>2
<1>10. CASE CheckHeight(c)
  <2>1. \/ call' = [call EXCEPT ![c].phase = "poll"]
        \/ OnExpiry(c)
    BY <1>10 DEF CheckHeight
  <2>2. CASE call[c].attempt < SendAttempts
             /\ call' = [call EXCEPT ![c].attempt = @ + 1, ![c].phase = "ready"]
    <3> DEFINE l == [call[c] EXCEPT !.attempt = call[c].attempt + 1, !.phase = "ready"]
    <3>1. call[c].attempt + 1 \in 1..SendAttempts
      BY <1>1, <2>2, CountsAre DEF Locals
    <3>2. /\ l \in Locals /\ l.pc = call[c].pc /\ l.i = call[c].i /\ l.rid = call[c].rid
          /\ l.sig = call[c].sig
      BY <1>1, <3>1 DEF Locals
    <3>3. call' = [call EXCEPT ![c] = l]
      BY <1>1, <2>2
    <3> HIDE DEF l
    <3> QED
      BY <1>4, <3>2, <3>3
  <2> QED
    BY <1>3, <1>5, <2>1, <2>2 DEF OnExpiry
<1> QED
  BY <1>6, <1>7, <1>8, <1>9, <1>10

-----------------------------------------------------------------------------
(* The program. *)

\* A transaction the program may run: one in flight, or the expiry of a draw.
Runs(t) ==
  /\ t.op \in Sends \cup {"expire"} /\ t.c \in Calls
  /\ t.op \in {"initChunk", "write"} => t.i \in Indices
  /\ t.op = "write" => t.off \in 0..(Writes - 1)
  /\ t.op \in {"prepare", "resolve"} => call[t.c].pc \in Late /\ t.rid = call[t.c].rid

\* What is needed for it.
LEMMA AcceptsIs ==
  ASSUME NEW t, t.op \in Sends \cup {"expire"}, Accepts(t)
  PROVE  /\ t.op = "initConfig" => config = "none"
         /\ t.op = "submit" => artifact = "none"
         /\ t.op = "initChunk" => chunk[t.i] = NoAccount
         /\ t.op = "write" => chunk[t.i] = t.off /\ t.off < Writes
         /\ t.op = "finalize" => artifact = "submitted"
         /\ t.op = "review" => artifact = "PENDING"
         /\ t.op = "bind" => runtime[t.c] = NoAccount
         /\ t.op \in {"prepare", "resolve"} => runtime[t.c] = t.rid
         /\ t.op \in {"settle", "expire"} => draw[t.c] = "prepared"
         /\ t.op = "createDraw" => sortition.draw = "none"
         /\ t.op = "registerTicket" => sortition.draw = "registering" /\ sortition.ticket = "none"
         /\ t.op = "sealDraw" => sortition.draw = "closed"
         /\ t.op = "claimTicket" => sortition.ticket = "open"
  BY DEF Accepts, MayReview, Sends, SortitionCalls

\* What has happened on chain is not undone.
ChainGrows ==
  /\ config # "none" => config' # "none"
  /\ artifact # "none" => artifact' # "none"
  /\ IsFinalized => IsFinalized'
  /\ artifact = "APPROVED" => artifact' = "APPROVED"
  /\ \A i \in Indices : chunk[i] <= chunk'[i]
  /\ \A c \in Calls : /\ runtime[c] # NoAccount => runtime'[c] # NoAccount
                      /\ Taken(c) => Taken(c)'
                      /\ draw[c] = "settled" => draw'[c] = "settled"
                      /\ draw'[c] # "none" => Taken(c)'
  /\ sortition.draw # "none" => sortition'.draw # "none"
  /\ sortition.ticket # "none" => sortition'.ticket # "none"
  /\ sortition.draw \in {"sealed", "over"} => sortition'.draw \in {"sealed", "over"}
  /\ sortition.ticket = "claimed" => sortition'.ticket = "claimed"

ChainTypeOK ==
  /\ config \in {"none", "open", "closed"}
  /\ artifact \in {"none", "submitted"} \cup Statuses
  /\ chunk \in [Indices -> NoAccount..Writes] /\ runtime \in [Calls -> Ids]
  /\ draw \in [Calls -> {"none", "prepared", "settled", "expired"}]
  /\ sortition \in [draw : {"none", "registering", "closed", "sealed", "over"},
                    ticket : {"none", "open", "claimed"}]

\* An instruction keeps the types, adds its effect and undoes none.
LEMMA ExecuteGrows ==
  ASSUME ClientInv, NEW t, Runs(t), Accepts(t), Execute(t), call' = call
  PROVE  ChainTypeOK' /\ ChainGrows /\ Spent(t.c, t.op, t.i, t.off)'
<1> USE DEF ClientInv
<1>0. ChainTypeOK
  BY DEF ClientTypeOK, ChainTypeOK
<1>1. /\ config' \in {"none", "open", "closed"}
      /\ config # "none" => config' # "none"
      /\ t.op = "initConfig" => config' # "none"
  BY <1>0 DEF Execute, ChainTypeOK
<1>2. /\ artifact' \in {"none", "submitted"} \cup Statuses
      /\ artifact # "none" => artifact' # "none"
      /\ IsFinalized => IsFinalized'
      /\ artifact = "APPROVED" => artifact' = "APPROVED"
      /\ t.op = "submit" => artifact' # "none"
      /\ t.op = "finalize" => IsFinalized'
      /\ t.op = "review" => artifact' = "APPROVED"
  <2>1. /\ t.op = "submit" => artifact = "none" /\ artifact' = "submitted"
        /\ t.op = "finalize" => artifact = "submitted" /\ artifact' = "PENDING"
        /\ t.op = "review" => artifact = "PENDING" /\ artifact' = "APPROVED"
        /\ t.op \notin {"submit", "finalize", "review"} => artifact' = artifact
    BY AcceptsIs DEF Execute, Runs
  <2> QED
    BY <1>0, <2>1 DEF ChainTypeOK, IsFinalized, Statuses
<1>3. /\ chunk' \in [Indices -> NoAccount..Writes]
      /\ \A i \in Indices : chunk[i] <= chunk'[i]
      /\ t.op = "initChunk" => chunk'[t.i] # NoAccount
      /\ t.op = "write" => chunk'[t.i] > t.off
  <2>1. \A i \in Indices : chunk[i] \in NoAccount..Writes
    BY <1>0 DEF ChainTypeOK
  <2>2. CASE t.op = "initChunk"
    <3>1. chunk' = [chunk EXCEPT ![t.i] = 0] /\ t.i \in Indices /\ chunk[t.i] = NoAccount
      BY <2>2, AcceptsIs DEF Execute, Runs
    <3> QED
      BY <1>0, <2>1, <2>2, <3>1, CountsAre DEF ChainTypeOK, NoAccount
  <2>3. CASE t.op = "write"
    <3>1. /\ chunk' = [chunk EXCEPT ![t.i] = t.off + 1] /\ t.i \in Indices /\ chunk[t.i] = t.off
          /\ t.off \in 0..(Writes - 1)
      BY <2>3, AcceptsIs DEF Execute, Runs
    <3>2. t.off + 1 \in NoAccount..Writes /\ t.off + 1 > t.off /\ t.off <= t.off + 1
      BY <3>1, CountsAre DEF NoAccount
    <3> QED
      BY <1>0, <2>1, <2>3, <3>1, <3>2, CountsAre DEF ChainTypeOK, NoAccount
  <2>4. CASE t.op \notin {"initChunk", "write"}
    <3>1. chunk' = chunk
      BY <2>4 DEF Execute
    <3> QED
      BY <1>0, <2>1, <2>4, <3>1, CountsAre DEF ChainTypeOK, NoAccount
  <2> QED
    BY <2>2, <2>3, <2>4
<1>4. \A c \in Calls : runtime[c] \in Ids /\ call[c].rid \in Ids /\ call'[c] = call[c]
  BY DEF ClientTypeOK, Locals
<1>5. /\ runtime' \in [Calls -> Ids]
      /\ \A c \in Calls : runtime[c] # NoAccount => runtime'[c] # NoAccount
      /\ \A c \in Calls : Taken(c) => Taken(c)'
      /\ t.op = "bind" => runtime'[t.c] # NoAccount
      /\ t.op \in {"prepare", "resolve"} => Taken(t.c)' /\ ~Taken(t.c)
  <2>1. CASE t.op = "bind"
    <3>1. runtime' = [runtime EXCEPT ![t.c] = 0] /\ runtime[t.c] = NoAccount /\ t.c \in Calls
      BY <2>1, AcceptsIs DEF Execute, Runs
    <3>2. ~Taken(t.c)
      BY <1>4, <3>1 DEF Taken, Ids, NoAccount
    <3> QED
      BY <1>0, <1>4, <2>1, <3>1, <3>2 DEF ChainTypeOK, Taken, Ids, NoAccount
  <2>2. CASE t.op \in {"prepare", "resolve"}
    <3>1. /\ runtime' = [runtime EXCEPT ![t.c] = t.rid + 1] /\ runtime[t.c] = t.rid /\ t.c \in Calls
          /\ call[t.c].pc \in Late /\ t.rid = call[t.c].rid
      BY <2>2, AcceptsIs DEF Execute, Runs
    <3>2. t.rid + 1 \in Ids /\ t.rid + 1 # NoAccount /\ t.rid # t.rid + 1
      BY <1>4, <3>1 DEF Ids, NoAccount
    <3>3. ~Taken(t.c)
      BY <3>1, <3>2 DEF Taken
    <3> QED
      BY <1>0, <1>4, <2>2, <3>1, <3>2, <3>3 DEF ChainTypeOK, Taken
  <2>3. CASE t.op \notin {"bind", "prepare", "resolve"}
    <3>1. runtime' = runtime
      BY <2>3 DEF Execute
    <3> QED
      BY <1>0, <1>4, <2>3, <3>1 DEF ChainTypeOK, Taken
  <2> QED
    BY <2>1, <2>2, <2>3
<1>6. /\ draw' \in [Calls -> {"none", "prepared", "settled", "expired"}]
      /\ \A c \in Calls : draw[c] = "settled" => draw'[c] = "settled"
      /\ \A c \in Calls : draw'[c] # "none" => Taken(c)'
      /\ t.op = "settle" => draw'[t.c] = "settled"
  <2>1. \A c \in Calls : draw[c] # "none" => Taken(c)
    BY DEF CallOK
  <2>2. CASE t.op \in {"prepare", "resolve"}
    <3>1. /\ t.c \in Calls
          /\ \E d \in {"prepared", "settled"} : draw' = [draw EXCEPT ![t.c] = d]
      BY <2>2 DEF Execute, Runs
    <3>2. draw[t.c] = "none"
      BY <1>5, <2>1, <2>2, <3>1
    <3> QED
      BY <1>0, <1>5, <2>1, <2>2, <3>1, <3>2 DEF ChainTypeOK
  <2>3. CASE t.op \in {"settle", "expire"}
    <3>1. /\ t.c \in Calls /\ draw[t.c] = "prepared"
          /\ \E d \in {"settled", "expired"} :
               draw' = [draw EXCEPT ![t.c] = d] /\ (t.op = "settle" => d = "settled")
      BY <2>3, AcceptsIs DEF Execute, Runs
    <3> QED
      BY <1>0, <1>5, <2>1, <2>3, <3>1 DEF ChainTypeOK
  <2>4. CASE t.op \notin {"prepare", "resolve", "settle", "expire"}
    <3>1. draw' = draw
      BY <2>4 DEF Execute
    <3> QED
      BY <1>0, <1>5, <2>1, <2>4, <3>1 DEF ChainTypeOK
  <2> QED
    BY <2>2, <2>3, <2>4
<1>7. /\ sortition' \in [draw : {"none", "registering", "closed", "sealed", "over"},
                         ticket : {"none", "open", "claimed"}]
      /\ sortition.draw # "none" => sortition'.draw # "none"
      /\ sortition.ticket # "none" => sortition'.ticket # "none"
      /\ sortition.draw \in {"sealed", "over"} => sortition'.draw \in {"sealed", "over"}
      /\ sortition.ticket = "claimed" => sortition'.ticket = "claimed"
      /\ t.op = "createDraw" => sortition'.draw # "none"
      /\ t.op = "registerTicket" => sortition'.ticket # "none"
      /\ t.op = "sealDraw" => sortition'.draw \in {"sealed", "over"}
      /\ t.op = "claimTicket" => sortition'.ticket = "claimed"
  <2>1. /\ t.op = "createDraw" => sortition.draw = "none" /\ sortition' = [sortition EXCEPT !.draw = "registering"]
        /\ t.op = "registerTicket" => sortition.ticket = "none" /\ sortition' = [sortition EXCEPT !.ticket = "open"]
        /\ t.op = "sealDraw" => sortition.draw = "closed" /\ sortition' = [sortition EXCEPT !.draw = "sealed"]
        /\ t.op = "claimTicket" => sortition.ticket = "open" /\ sortition' = [sortition EXCEPT !.ticket = "claimed"]
        /\ t.op \notin SortitionCalls => sortition' = sortition
    BY AcceptsIs DEF Execute, Runs, SortitionCalls
  <2> QED
    BY <1>0, <2>1 DEF ChainTypeOK, SortitionCalls
<1>8. ChainTypeOK'
  BY <1>1, <1>2, <1>3, <1>5, <1>6, <1>7 DEF ChainTypeOK
<1>9. ChainGrows
  BY <1>1, <1>2, <1>3, <1>5, <1>6, <1>7 DEF ChainGrows
<1>10. Spent(t.c, t.op, t.i, t.off)'
  BY <1>1, <1>2, <1>3, <1>5, <1>6, <1>7 DEF Spent
<1> QED
  BY <1>8, <1>9, <1>10

\* What has happened stays so.
LEMMA SpentStays ==
  ASSUME ClientInv, ChainTypeOK', ChainGrows, NEW x \in landed
  PROVE  Spent(x[1], x[2], x[3], x[4])'
<1> DEFINE c == x[1]
           op == x[2]
           i == x[3]
           off == x[4]
<1>1. /\ c \in Calls /\ op \in Sends /\ off \in 0..(Writes - 1) /\ Spent(c, op, i, off)
      /\ op \in {"initChunk", "write"} => i \in Indices
  BY DEF ClientInv, ClientTypeOK
<1> HIDE DEF c, op, i, off
<1>2. op \in {"initChunk", "write"} =>
        chunk[i] \in NoAccount..Writes /\ chunk'[i] \in NoAccount..Writes /\ chunk[i] <= chunk'[i]
  BY <1>1 DEF ClientInv, ClientTypeOK, ChainTypeOK, ChainGrows
<1>3. op = "initChunk" => chunk'[i] # NoAccount
  BY <1>1, <1>2, CountsAre DEF Spent, NoAccount
<1>4. op = "write" => chunk'[i] > off
  BY <1>1, <1>2, CountsAre DEF Spent, NoAccount
<1>5. Spent(c, op, i, off)'
  BY <1>1, <1>3, <1>4 DEF Spent, ChainGrows
<1> QED
  BY <1>5 DEF c, op, i, off

\* The program does not run an instruction whose effect is there already, unless
\* running it again sets the same; of the sortition instructions, whoever sent it.
LEMMA SpentIsRefused ==
  ASSUME ClientInv, NEW t, Runs(t), Accepts(t), t.op \notin Idempotent \cup {"expire"}, NEW d,
         NEW i, NEW off,
         t.op \notin SortitionCalls => d = t.c /\ i = t.i /\ off = t.off
  PROVE  ~Spent(d, t.op, i, off)
<1>1. SUFFICES ASSUME Spent(d, t.op, i, off) PROVE FALSE
  OBVIOUS
<1>2. t.op \in Sends
  BY DEF Runs
<1>3. CASE t.op \in SortitionCalls
  BY <1>1, <1>2, <1>3, AcceptsIs DEF Spent, SortitionCalls
<1>4. CASE t.op \notin SortitionCalls
  <2>1. Spent(t.c, t.op, t.i, t.off)
    BY <1>1, <1>4
  <2>2. t.op = "write" => FALSE
    BY <1>2, <2>1, AcceptsIs DEF Spent, Runs
  <2>3. t.op \in {"prepare", "resolve"} => FALSE
    <3>1. t.c \in Calls /\ call[t.c].rid \in Ids
      BY DEF Runs, ClientInv, ClientTypeOK, Locals
    <3>2. call[t.c].rid + 1 # call[t.c].rid
      BY <3>1 DEF Ids, NoAccount
    <3> QED
      BY <1>2, <2>1, <3>2, AcceptsIs DEF Spent, Runs, Taken
  <2>4. t.op \in {"initConfig", "submit", "initChunk", "finalize", "review", "bind", "settle"} => FALSE
    BY <1>2, <2>1, AcceptsIs DEF Spent, IsFinalized
  <2> QED
    BY <1>2, <1>4, <2>2, <2>3, <2>4 DEF Sends, Idempotent
<1> QED
  BY <1>3, <1>4

\* A transaction lands: when the program refuses it nothing changes on chain, and
\* when it runs it takes effect for the first time, or sets the same again.
LEMMA LandStep ==
  ASSUME ClientInv, NEW t \in txs, Land(t)
  PROVE  ClientInv'
<1> USE DEF ClientInv
<1> DEFINE st == IF Accepts(t) THEN "ok" ELSE "err"
           u == [t EXCEPT !.status = st]
           key == <<t.c, t.op, t.i, t.off>>
<1>1. /\ kind' = kind /\ call' = call /\ window' = window /\ faults' = faults
      /\ \A s \in txs' : s \in txs \/ s = u
  BY DEF Land, Keep
<1>2. t \in Transactions /\ TxOK(t)
  BY DEF ClientTypeOK
<1>3. /\ u \in Transactions /\ u.c = t.c /\ u.op = t.op /\ u.i = t.i /\ u.off = t.off
      /\ u.rid = t.rid /\ u.n = t.n /\ u.k = t.k /\ u.status = st
  BY <1>2 DEF Transactions
<1>4. /\ t.c \in Calls /\ t.op \in Sends /\ t.i \in 0..Chunks /\ t.off \in 0..(Writes - 1)
      /\ t.op # "expire"
  BY <1>2 DEF Transactions, Sends, SortitionCalls
<1>5. Runs(t)
  BY <1>2, <1>4 DEF TxOK, Runs
<1>6. txs' \subseteq Transactions
  BY <1>1, <1>3 DEF ClientTypeOK
<1> HIDE DEF u
<1>7. CASE ~Accepts(t)
  <2>1. UNCHANGED <<chain, hist>>
    BY <1>7 DEF Land
  <2>2. /\ config' = config /\ artifact' = artifact /\ chunk' = chunk /\ runtime' = runtime
        /\ draw' = draw /\ sortition' = sortition
        /\ landed' = landed /\ twice' = twice /\ settledBy' = settledBy
    BY <2>1 DEF chain, hist
  <2>3. ClientTypeOK'
    BY <1>1, <1>6, <2>2 DEF ClientTypeOK
  <2>4. \A c \in Calls : CallOK(c)'
    BY <1>1, <2>2 DEF CallOK, Taken
  <2>5. \A s \in txs' : TxOK(s)'
    <3>1. TxOK(u)
      BY <1>2, <1>3, <1>7 DEF TxOK
    <3> QED
      BY <1>1, <2>2, <3>1 DEF TxOK
  <2>6. \A x \in landed' : Spent(x[1], x[2], x[3], x[4])'
    BY <1>1, <2>2 DEF Spent, Taken, IsFinalized
  <2>7. EffectsOnce'
    BY <2>2 DEF EffectsOnce
  <2> QED
    BY <2>2, <2>3, <2>4, <2>5, <2>6, <2>7
<1>8. CASE Accepts(t)
  <2>1. /\ Execute(t) /\ landed' = landed \cup {key}
        /\ twice' = IF key \in landed THEN twice \cup {t.op} ELSE twice
        /\ settledBy' = IF t.op \in {"settle", "resolve"}
                          THEN [settledBy EXCEPT ![t.c] = <<t.n, t.k>>] ELSE settledBy
    BY <1>8 DEF Land
  <2>2. ChainTypeOK' /\ ChainGrows /\ Spent(t.c, t.op, t.i, t.off)'
    BY <1>1, <1>5, <1>8, <2>1, ExecuteGrows
  <2>3. key \in Calls \X Sends \X (0..Chunks) \X (0..(Writes - 1))
    BY <1>4
  <2>4. key[1] = t.c /\ key[2] = t.op /\ key[3] = t.i /\ key[4] = t.off
    OBVIOUS
  <2> HIDE DEF key
  <2>5. ClientTypeOK'
    BY <1>1, <1>6, <2>1, <2>2, <2>3 DEF ClientTypeOK, ChainTypeOK
  \* A draw is settled by one transaction only.
  <2>6. t.op \in {"settle", "resolve"} => draw[t.c] # "settled" /\ draw'[t.c] = "settled"
    <3>1. CASE t.op = "settle"
      BY <1>4, <1>8, <2>2, <3>1, AcceptsIs DEF Spent
    <3>2. CASE t.op = "resolve"
      <4>1. t.op \notin Idempotent \cup {"expire"} /\ t.op \notin SortitionCalls
        BY <3>2 DEF Idempotent, SortitionCalls
      <4>2. ~Spent(t.c, t.op, t.i, t.off)
        BY <1>5, <1>8, <4>1, SpentIsRefused
      <4>3. ~Taken(t.c) /\ draw[t.c] = "none"
        BY <1>4, <3>2, <4>2 DEF Spent, CallOK, SortitionCalls
      <4>4. draw' = [draw EXCEPT ![t.c] = "settled"] /\ DOMAIN draw = Calls
        BY <2>1, <3>2 DEF Execute, ClientTypeOK
      <4> QED
        BY <1>4, <4>3, <4>4
    <3> QED
      BY <3>1, <3>2
  <2>7. \A c \in Calls : draw[c] = "settled" => draw'[c] = "settled" /\ settledBy'[c] = settledBy[c]
    BY <2>1, <2>2, <2>6 DEF ChainGrows, ClientTypeOK
  <2>8. ASSUME NEW c \in Calls PROVE CallOK(c)'
    <3>1. CallOK(c)
      OBVIOUS
    <3>2. draw'[c] # "none" => Taken(c)'
      BY <2>2 DEF ChainGrows
    <3>3. landed \subseteq landed'
      BY <2>1
    <3> QED
      BY <1>1, <2>7, <3>1, <3>2, <3>3 DEF CallOK
  <2>9. ASSUME NEW s \in txs' PROVE TxOK(s)'
    <3>1. CASE s \in txs
      <4>1. TxOK(s) /\ s.c \in Calls
        BY <3>1 DEF ClientTypeOK, Transactions
      <4> QED
        BY <1>1, <2>1, <2>7, <4>1 DEF TxOK
    <3>2. CASE s = u
      <4>1. <<u.c, u.op, u.i, u.off>> \in landed'
        BY <1>3, <2>1 DEF key
      <4>2. u.op \in {"settle", "resolve"} =>
              draw'[u.c] = "settled" /\ settledBy'[u.c] = <<u.n, u.k>>
        BY <1>3, <1>4, <2>1, <2>6 DEF ClientTypeOK
      <4>3. /\ u.op \in {"initChunk", "write"} => u.i \in Indices
            /\ u.op \in {"prepare", "settle", "resolve"} => call'[u.c].pc \in Late
            /\ u.op \in {"prepare", "resolve"} => u.rid = call'[u.c].rid
        BY <1>1, <1>2, <1>3 DEF TxOK
      <4> QED
        BY <3>2, <4>1, <4>2, <4>3 DEF TxOK
    <3> QED
      BY <1>1, <3>1, <3>2
  <2>10. ASSUME NEW x \in landed' PROVE Spent(x[1], x[2], x[3], x[4])'
    <3>1. CASE x \in landed
      BY <2>2, <3>1, SpentStays
    <3>2. CASE x = key
      BY <2>2, <2>4, <3>2
    <3> QED
      BY <2>1, <3>1, <3>2
  <2>11. \A x \in landed' : x[2] \in {"initChunk", "write"} => x[3] \in Indices
    BY <1>2, <2>1, <2>4 DEF TxOK
  <2>12. twice' \subseteq Idempotent
    <3>1. ASSUME key \in landed PROVE t.op \in Idempotent
      <4>1. Spent(t.c, t.op, t.i, t.off)
        BY <2>4, <3>1
      <4> QED
        BY <1>4, <1>5, <1>8, <4>1, SpentIsRefused
    <3> QED
      BY <2>1, <3>1 DEF EffectsOnce
  <2>13. ASSUME NEW x \in landed', NEW y \in landed', x[2] = y[2], x[2] \in SortitionCalls
         PROVE  x[1] = y[1]
    <3>1. ASSUME t.op \in SortitionCalls, NEW z \in landed, z[2] = t.op PROVE FALSE
      <4>1. Spent(z[1], t.op, z[3], z[4])
        BY <3>1
      <4>2. t.op \notin Idempotent \cup {"expire"}
        BY <3>1 DEF SortitionCalls, Idempotent
      <4> QED
        BY <1>5, <1>8, <3>1, <4>1, <4>2, SpentIsRefused
    <3> QED
      BY <2>1, <2>4, <2>13, <3>1 DEF EffectsOnce
  <2> QED
    BY <2>5, <2>8, <2>9, <2>10, <2>11, <2>12, <2>13 DEF EffectsOnce
<1> QED
  BY <1>7, <1>8

\* The chain goes on without the client: a draw expires or a deadline passes.
LEMMA ChainStep ==
  ASSUME ClientInv, ChainTypeOK', ChainGrows,
         UNCHANGED <<kind, call, window, txs, faults, hist>>
  PROVE  ClientInv'
<1> USE DEF ClientInv
<1>1. /\ kind' = kind /\ call' = call /\ window' = window /\ txs' = txs /\ faults' = faults
      /\ landed' = landed /\ twice' = twice /\ settledBy' = settledBy
  BY DEF hist
<1>2. ClientTypeOK'
  BY <1>1 DEF ClientTypeOK, ChainTypeOK
<1>3. \A c \in Calls : draw[c] = "settled" => draw'[c] = "settled"
  BY DEF ChainGrows
<1>4. ASSUME NEW c \in Calls PROVE CallOK(c)'
  <2>1. CallOK(c) /\ (draw'[c] # "none" => Taken(c)')
    BY DEF ChainGrows
  <2> QED
    BY <1>1, <1>3, <2>1 DEF CallOK
<1>5. ASSUME NEW s \in txs PROVE TxOK(s)'
  <2>1. TxOK(s) /\ s.c \in Calls
    BY DEF ClientTypeOK, Transactions
  <2> QED
    BY <1>1, <1>3, <2>1 DEF TxOK
<1>6. \A x \in landed : Spent(x[1], x[2], x[3], x[4])'
  BY SpentStays
<1>7. EffectsOnce'
  BY <1>1 DEF EffectsOnce
<1> QED
  BY <1>1, <1>2, <1>4, <1>5, <1>6, <1>7

\* The block height and the slots go on, and change what may land only.
LEMMA TimeStep ==
  ASSUME ClientInv, UNCHANGED <<kind, call, chain, hist>>, faults' \in 0..MaxFaults,
         window' \in [Calls -> {"early", "open", "closed"}],
         \A s \in txs' : \E t \in txs : s = t \/ s = [t EXCEPT !.past = TRUE]
  PROVE  ClientInv'
<1> USE DEF ClientInv
<1>1. /\ kind' = kind /\ call' = call /\ config' = config /\ artifact' = artifact /\ chunk' = chunk
      /\ runtime' = runtime /\ draw' = draw /\ sortition' = sortition
      /\ landed' = landed /\ twice' = twice /\ settledBy' = settledBy
  BY DEF chain, hist
<1>2. ASSUME NEW s \in txs' PROVE s \in Transactions /\ TxOK(s)
  <2>1. PICK t \in txs : s = t \/ s = [t EXCEPT !.past = TRUE]
    OBVIOUS
  <2>2. t \in Transactions /\ TxOK(t)
    BY DEF ClientTypeOK
  <2>3. /\ s \in Transactions /\ s.c = t.c /\ s.op = t.op /\ s.i = t.i /\ s.off = t.off
        /\ s.rid = t.rid /\ s.n = t.n /\ s.k = t.k /\ s.status = t.status
    BY <2>1, <2>2 DEF Transactions
  <2> QED
    BY <2>2, <2>3 DEF TxOK
<1>3. ClientTypeOK'
  BY <1>1, <1>2 DEF ClientTypeOK
<1>4. \A c \in Calls : CallOK(c)'
  BY <1>1 DEF CallOK, Taken
<1>5. \A s \in txs' : TxOK(s)'
  BY <1>1, <1>2 DEF TxOK
<1>6. \A x \in landed' : Spent(x[1], x[2], x[3], x[4])'
  BY <1>1 DEF Spent, Taken, IsFinalized
<1>7. EffectsOnce'
  BY <1>1 DEF EffectsOnce
<1> QED
  BY <1>1, <1>3, <1>4, <1>5, <1>6, <1>7

\* A draw that expires, and a deadline of the sortition draw.
LEMMA ExternalStep ==
  ASSUME ClientInv, SortitionDeadline \/ \E c \in Calls : ExpireInlineRngV2(c)
  PROVE  ClientInv'
<1>1. CASE SortitionDeadline
  <2>1. /\ sortition \in [draw : {"none", "registering", "closed", "sealed", "over"},
                          ticket : {"none", "open", "claimed"}]
        /\ sortition.draw \in {"registering", "closed", "sealed"}
        /\ sortition' = [sortition EXCEPT !.draw = IF sortition.draw = "registering" THEN "closed" ELSE "over"]
        /\ UNCHANGED <<kind, call, config, artifact, chunk, runtime, draw, window, txs, faults, hist>>
    BY <1>1 DEF SortitionDeadline, ClientInv, ClientTypeOK
  <2>2. /\ sortition' \in [draw : {"none", "registering", "closed", "sealed", "over"},
                           ticket : {"none", "open", "claimed"}]
        /\ sortition'.ticket = sortition.ticket /\ sortition'.draw # "none"
        /\ sortition.draw \in {"sealed", "over"} => sortition'.draw \in {"sealed", "over"}
    BY <2>1
  <2>3. ChainTypeOK'
    BY <2>1, <2>2 DEF ChainTypeOK, ClientInv, ClientTypeOK
  <2>4. \A i \in Indices : chunk[i] <= chunk'[i]
    <3>1. \A i \in Indices : chunk[i] \in NoAccount..Writes
      BY DEF ClientInv, ClientTypeOK
    <3> QED
      BY <2>1, <3>1, CountsAre DEF NoAccount
  <2>5. ChainGrows
    BY <2>1, <2>2, <2>4 DEF ChainGrows, ClientInv, CallOK, Taken, IsFinalized
  <2> QED
    BY <2>1, <2>3, <2>5, ChainStep
<1>2. ASSUME NEW c \in Calls, ExpireInlineRngV2(c) PROVE ClientInv'
  <2> DEFINE t == [c |-> c, op |-> "expire", i |-> 0, off |-> 0]
  <2>1. t.op = "expire" /\ t.c = c
    OBVIOUS
  <2>2. /\ Accepts(t) /\ Execute(t)
        /\ UNCHANGED <<kind, call, window, txs, faults, hist>>
    BY <1>2 DEF ExpireInlineRngV2
  <2> HIDE DEF t
  <2>3. Runs(t)
    BY <2>1 DEF Runs
  <2>4. ChainTypeOK' /\ ChainGrows
    BY <2>2, <2>3, ExecuteGrows
  <2> QED
    BY <2>2, <2>4, ChainStep
<1> QED
  BY <1>1, <1>2

-----------------------------------------------------------------------------
(* The theorem. *)

\* At first no call has started, nothing is in flight and nothing has happened.
LEMMA InitClient == Init => ClientInv
<1> SUFFICES ASSUME Init PROVE ClientInv
  OBVIOUS
<1>1. Idle \in Locals /\ Idle.pc = "idle"
  BY Firsts DEF Idle, Locals, Steps, Ended, Ids
<1>2. call \in [Calls -> Locals] /\ \A c \in Calls : call[c].pc = "idle"
  BY <1>1 DEF Init
<1>3. sortition \in [draw : {"none", "registering", "closed", "sealed", "over"},
                     ticket : {"none", "open", "claimed"}]
  BY DEF Init, Sortitions, NoSortition
<1>4. NoAccount \in NoAccount..Writes /\ NoAccount \in Ids /\ 0 \in 0..MaxFaults
  BY CountsAre DEF NoAccount, Ids
<1>5. ClientTypeOK
  BY <1>2, <1>3, <1>4 DEF Init, ClientTypeOK
<1>6. \A c \in Calls : CallOK(c)
  BY <1>2 DEF Init, CallOK, StepsOf
<1> QED
  BY <1>5, <1>6 DEF Init, ClientInv, EffectsOnce

\* Every step keeps the invariant.
LEMMA NextClient == ClientInv /\ [Next]_vars => ClientInv'
<1> SUFFICES ASSUME ClientInv, [Next]_vars PROVE ClientInv'
  OBVIOUS
<1>1. ASSUME NEW c \in Calls, Proceed(c) \/ SendError(c) \/ PollDeadline(c) \/ Crash(c)
      PROVE  ClientInv'
  <2>1. \E l : ClientGoes(c, l)
    BY <1>1, ReadStep, ConfirmStep DEF Proceed
  <2> QED
    BY <2>1, ClientStep
<1>2. /\ faults \in 0..MaxFaults /\ window \in [Calls -> {"early", "open", "closed"}]
      /\ txs \subseteq Transactions
  BY DEF ClientInv, ClientTypeOK
<1>3. ASSUME NEW c \in Calls, SlotsMature(c) PROVE ClientInv'
  <2>1. window' \in [Calls -> {"early", "open", "closed"}]
    BY <1>2, <1>3 DEF SlotsMature
  <2>2. UNCHANGED <<kind, call, chain, txs, faults, hist>>
    BY <1>3 DEF SlotsMature
  <2> QED
    BY <1>2, <2>1, <2>2, TimeStep
<1>4. ASSUME NEW c \in Calls, WindowCloses(c) PROVE ClientInv'
  <2>1. window' \in [Calls -> {"early", "open", "closed"}]
    BY <1>2, <1>4 DEF WindowCloses
  <2>2. faults' \in 0..MaxFaults
    BY <1>2, <1>4, CountsAre DEF WindowCloses
  <2>3. UNCHANGED <<kind, call, chain, txs, hist>>
    BY <1>4 DEF WindowCloses
  <2> QED
    BY <2>1, <2>2, <2>3, TimeStep
<1>5. ASSUME NEW t \in txs, BlockhashExpires(t) PROVE ClientInv'
  <2>1. UNCHANGED <<kind, call, chain, window, hist>>
    BY <1>5 DEF BlockhashExpires
  <2>2. faults' \in 0..MaxFaults
    BY <1>2, <1>5, CountsAre DEF BlockhashExpires
  <2>3. \A s \in txs' : s \in txs \/ s = [t EXCEPT !.past = TRUE]
    BY <1>5 DEF BlockhashExpires, Keep
  <2> QED
    BY <1>2, <2>1, <2>2, <2>3, TimeStep
<1>6. CASE UNCHANGED vars
  <2>1. UNCHANGED <<kind, call, chain, window, txs, faults, hist>>
    BY <1>6 DEF vars
  <2> QED
    BY <1>2, <2>1, TimeStep
<1> QED
  BY <1>1, <1>3, <1>4, <1>5, <1>6, LandStep, ExternalStep DEF Next

\* The invariant of the calls.
LEMMA ClientAlwaysSound == Spec => []ClientInv
  BY InitClient, NextClient, PTL DEF Spec

\* What a caller is told and what happened on chain agree, for any number of
\* concurrent calls, chunks, attempts and faults: a transaction that is signed again
\* after its blockhash expired (sendAndConfirmSigned) takes effect once, the
\* settlement that is reported is the one that settled the draw, and a sortition
\* route that answers ok names a transaction of its own that landed.
THEOREM CallsAlwaysSound == Spec => []CallsSound
<1>1. ClientInv => CallsSound
  <2> SUFFICES ASSUME ClientInv PROVE CallsSound
    OBVIOUS
  <2> USE DEF ClientInv
  <2>1. OperatorTypeOK
    <3>1. \A c \in Calls : call[c] \in Locals
      BY DEF ClientTypeOK
    <3>2. runtime \in [Calls -> Int]
      BY DEF ClientTypeOK, Ids, NoAccount
    <3> QED
      BY <3>1, <3>2 DEF OperatorTypeOK, ClientTypeOK, Locals
  <2>2. SuccessIsTheSettlement
    BY DEF CallOK, SuccessIsTheSettlement
  <2>3. SuccessIsTheEffect
    BY DEF CallOK, SuccessIsTheEffect
  <2> QED
    BY <2>1, <2>2, <2>3 DEF CallsSound
<1> QED
  BY <1>1, ClientAlwaysSound, PTL

=============================================================================
