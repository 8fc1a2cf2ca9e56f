------------------------ MODULE ResolutionFeedProofs ------------------------
(***************************************************************************)
(* Proofs about the requests of the web server and its list of outcomes,   *)
(* for any number of requests, clients, signatures, restarts and any       *)
(* limits: what DrawServer admits, the rules conditions rounds are         *)
(* resolved with, and what ResolutionFeed lists.                           *)
(***************************************************************************)
EXTENDS ResolutionFeed, FiniteSetTheorems, SequenceTheorems, TLAPS

PCs == Answered \cup {"idle", "proof", "drawing", "committed", "resolving", "replaying"}

\* The state of the requests has its type.
ServerTypeOK ==
  /\ input \in Cases
  /\ pc \in [Requests -> PCs]
  /\ draw \in [Requests -> {"none", "running", "landed", "orphan", "over"}]
  /\ landed \in Seq(Signatures) /\ now \in 0..MaxTime /\ crashes \in 0..MaxCrashes[input]
  /\ blocked \in [Limited \X Clients -> Nat]
  /\ quota \in [Clients -> [count : Nat, resetAt : Nat]]
  /\ accepted \in [Requests -> Int]

\* A request that is not decided yet has neither been let through nor drawn,
\* and only limited routes draw.
RequestOK(r) ==
  /\ accepted[r] <= now
  /\ pc[r] \in {"idle", "proof"} => draw[r] = "none" /\ accepted[r] = -1
  /\ pc[r] = "proof" => input[r].route = "raffle"
  /\ pc[r] = "drawing" => input[r].route \in Limited
  /\ pc[r] \in {"committed", "resolving", "replaying"} => input[r].route # "raffle"
RequestsOK == ServerTypeOK /\ \A r \in Requests : RequestOK(r)

\* What a request's handler, its draw or its timer does.
RequestStep(r) == Handle(r) \/ DrawStep(r) \/ DrawTimesOut(r)

-----------------------------------------------------------------------------
(* Requests. *)

\* The inputs of a case.
LEMMA InputIs ==
  ASSUME ServerTypeOK, NEW r \in Requests
  PROVE  /\ input[r] \in Inputs /\ input[r].client \in Clients
         /\ input[r].route \in {"raffle", "partner", "example", "commit", "resolve", "replay", "none"}
         /\ input[r].route \in {"partner", "example"} => input[r].what = NoHuman
<1>1. input \in [Requests -> Inputs] /\ input \in Cases
  BY CasesAssumption DEF ServerTypeOK
<1>2. input[r] \in Inputs
  BY <1>1
<1>3. input[r].route \in {"raffle", "partner", "example", "commit", "resolve", "replay", "none"}
  BY <1>2 DEF Inputs
<1>4. input[r].route \in {"partner", "example"} => input[r].what = NoHuman
  BY <1>1, CasesAssumption
<1> QED
  BY <1>2, <1>3, <1>4 DEF Clients

-----------------------------------------------------------------------------
(* The shapes of a step of a request, by what they do to the limits and the *)
(* draws. *)

\* The handler goes on or answers, and nothing else happens outside the rounds.
Quiet(r, how) ==
  /\ Answer(r, how) /\ how \in PCs \ {"idle", "drawing"}
  /\ how = "proof" => pc[r] = "idle" /\ input[r].route = "raffle"
  /\ how = "ok" => input[r].route # "raffle"
  /\ how \in {"committed", "resolving", "replaying"} => input[r].route # "raffle"
  /\ UNCHANGED <<input, draw, landed, now, blocked, quota, nullifiers, active, crashes, accepted>>

\* A limited request is let through.
Admitted(r) ==
  /\ pc[r] \in {"idle", "proof"} /\ input[r].route \in Limited
  /\ ~Blocked(r) /\ LetThrough(r)
  /\ UNCHANGED <<input, landed, now, quota, crashes>>
AdmittedDraw(r) ==
  /\ Admitted(r) /\ StartDraw(r)
  /\ IF input[r].route = "raffle" THEN input[r].what \notin nullifiers /\ Reserve(r)
                                  ELSE UNCHANGED nullifiers
AdmittedOnly(r) ==
  Admitted(r) /\ Answer(r, "rejected") /\ UNCHANGED <<draw, active, nullifiers>>

\* A replay is counted.
Counted(r) ==
  /\ pc[r] = "idle" /\ input[r].route = "replay"
  /\ ~QuotaReached(quota[input[r].client])
  /\ quota' = [quota EXCEPT ![input[r].client] = CountOne(@)]
  /\ accepted' = [accepted EXCEPT ![r] = now]
  /\ \E how \in {"replaying", "rejected"} : Answer(r, how)
  /\ UNCHANGED <<input, draw, landed, now, blocked, nullifiers, active, crashes>>

\* Every step of a request has one of these shapes, or is one of its draw.
LEMMA Shapes ==
  ASSUME RequestsOK, NEW r \in Requests, RequestStep(r)
  PROVE  \/ \E how \in PCs : Quiet(r, how)
         \/ AdmittedDraw(r) \/ AdmittedOnly(r) \/ Counted(r)
         \/ Land(r) \/ DrawReturns(r) \/ DrawThrows(r) \/ DrawTimesOut(r)
<1>1. CASE Raffle(r)
  <2>1. Quiet(r, IF input[r].body = "valid" THEN "proof" ELSE "rejected")
    BY <1>1 DEF Raffle, Quiet, PCs, Answered
  <2> QED
    BY <2>1 DEF PCs, Answered
<1>2. CASE ProofAccepted(r)
  <2>1. pc[r] = "proof" /\ input[r].route = "raffle"
    BY <1>2 DEF ProofAccepted, RequestsOK, RequestOK
  <2>2. CASE input[r].what \in nullifiers
    BY <1>2, <2>1, <2>2 DEF ProofAccepted, Quiet, PCs, Answered
  <2>3. CASE input[r].what \notin nullifiers /\ Blocked(r)
    BY <1>2, <2>1, <2>3 DEF ProofAccepted, Quiet, PCs, Answered
  <2>4. CASE input[r].what \notin nullifiers /\ ~Blocked(r)
    BY <1>2, <2>1, <2>4 DEF ProofAccepted, AdmittedDraw, Admitted, Limited
  <2> QED
    BY <2>2, <2>3, <2>4
<1>3. CASE ProofFails(r)
  BY <1>3 DEF ProofFails, Quiet, PCs, Answered
<1>4. CASE PartnerDraw(r)
  <2>1. pc[r] = "idle" /\ input[r].route \in {"partner", "example"}
    BY <1>4 DEF PartnerDraw
  <2>2. CASE input[r].route = "partner" /\ BodyRefused(r) /\ Answer(r, "rejected")
             /\ UNCHANGED <<draw, active, blocked, accepted>>
    BY <1>4, <2>1, <2>2 DEF PartnerDraw, Quiet, PCs, Answered
  <2>3. CASE Blocked(r) /\ Answer(r, "limited") /\ UNCHANGED <<draw, active, blocked, accepted>>
    BY <1>4, <2>1, <2>3 DEF PartnerDraw, Quiet, PCs, Answered
  <2>4. CASE ~Blocked(r) /\ LetThrough(r)
             /\ IF input[r].body = "valid"
                  THEN StartDraw(r)
                  ELSE Answer(r, "rejected") /\ UNCHANGED <<draw, active>>
    <3>1. Admitted(r) /\ nullifiers' = nullifiers
      BY <1>4, <2>1, <2>4 DEF PartnerDraw, Admitted, Limited
    <3>2. input[r].route # "raffle"
      BY <2>1
    <3> QED
      BY <2>4, <3>1, <3>2 DEF AdmittedDraw, AdmittedOnly
  <2> QED
    BY <1>4, <2>2, <2>3, <2>4 DEF PartnerDraw
<1>5. CASE Commit(r)
  <2>1. PICK how \in {"failed", "committed", "rejected"} : Answer(r, how)
    BY <1>5 DEF Commit, Committed
  <2> QED
    BY <1>5, <2>1 DEF Commit, Quiet, PCs, Answered
<1>6. CASE SaveCommit(r)
  BY <1>6 DEF SaveCommit, Quiet, PCs, Answered, RequestsOK, RequestOK
<1>7. CASE ResolveRound(r)
  <2>1. PICK how \in {"rejected", "resolving"} : Answer(r, how)
    BY <1>7 DEF ResolveRound
  <2> QED
    BY <1>7, <2>1 DEF ResolveRound, Quiet, PCs, Answered
<1>8. CASE RoundResolved(r)
  <2>1. PICK how \in {"ok", "failed"} : Answer(r, how)
    BY <1>8 DEF RoundResolved
  <2> QED
    BY <1>8, <2>1 DEF RoundResolved, Quiet, PCs, Answered, RequestsOK, RequestOK
<1>9. CASE Replay(r)
  <2>1. CASE QuotaReached(quota[input[r].client])
    BY <1>9, <2>1 DEF Replay, Quiet, PCs, Answered
  <2>2. CASE ~QuotaReached(quota[input[r].client])
    <3>1. \E how \in {"replaying", "rejected"} : Answer(r, how)
      BY <1>9, <2>2 DEF Replay
    <3> QED
      BY <1>9, <2>2, <3>1 DEF Replay, Counted
  <2> QED
    BY <2>1, <2>2
<1>10. CASE ReplayCloses(r)
  <2>1. PICK how \in {"ok", "failed", "timeout"} : Answer(r, how)
    BY <1>10 DEF ReplayCloses
  <2> QED
    BY <1>10, <2>1 DEF ReplayCloses, Quiet, PCs, Answered, RequestsOK, RequestOK
<1> QED
  BY <1>1, <1>2, <1>3, <1>4, <1>5, <1>6, <1>7, <1>8, <1>9, <1>10
     DEF RequestStep, Handle, DrawStep

-----------------------------------------------------------------------------
(* Types, and requests that are not decided yet. *)

\* Nobody has asked.
LEMMA InitRequests ==
  ASSUME ServerInit
  PROVE  RequestsOK
<1>1. ServerTypeOK
  <2>1. input \in Cases /\ landed \in Seq(Signatures)
    BY DEF ServerInit
  <2>2. now \in 0..MaxTime /\ crashes \in 0..MaxCrashes[input]
    BY ServerBoundsAssumption DEF ServerInit
  <2>3. pc \in [Requests -> PCs] /\ accepted \in [Requests -> Int]
        /\ draw \in [Requests -> {"none", "running", "landed", "orphan", "over"}]
    BY DEF ServerInit, PCs
  <2>4. blocked \in [Limited \X Clients -> Nat]
        /\ quota \in [Clients -> [count : Nat, resetAt : Nat]]
    BY DEF ServerInit, Clients
  <2> QED
    BY <2>1, <2>2, <2>3, <2>4 DEF ServerTypeOK
<1>2. ASSUME NEW r \in Requests PROVE RequestOK(r)
  BY DEF ServerInit, RequestOK
<1> QED
  BY <1>1, <1>2 DEF RequestsOK

\* Windows are positive.
LEMMA WindowIs ==
  ASSUME NEW l \in {"raffle", "partner", "example", "replay"}
  PROVE  Windows[l] \in Nat \ {0}
  BY WindowsAssumption

\* The limit of a client after a request was let through.
LEMMA BlockIs ==
  ASSUME ServerTypeOK, NEW r \in Requests, input[r].route \in Limited, Block(r)
  PROVE  /\ blocked' \in [Limited \X Clients -> Nat]
         /\ blocked'[<<input[r].route, input[r].client>>] = now + Windows[input[r].route]
         /\ \A l \in Limited \X Clients : l # <<input[r].route, input[r].client>> =>
              blocked'[l] = blocked[l] \/ (HasEnded(blocked[l]) /\ blocked'[l] = 0)
<1> DEFINE k == <<input[r].route, input[r].client>>
<1>1. k \in Limited \X Clients /\ k[1] = input[r].route /\ now \in Nat
      /\ DOMAIN blocked = Limited \X Clients
  BY InputIs, ServerBoundsAssumption DEF ServerTypeOK
<1>2. Windows[input[r].route] \in Nat
  BY WindowIs DEF Limited
<1>3. blocked'[k] = now + Windows[input[r].route]
  <2>1. Windows[k[1]] = Windows[input[r].route]
    BY <1>1
  <2>2. blocked'[k] = now + Windows[k[1]]
    <3> HIDE DEF k
    <3> QED
      BY <1>1 DEF Block, k
  <2> QED
    BY <2>1, <2>2
<1>4. ASSUME NEW l \in Limited \X Clients, l # k
      PROVE  blocked'[l] = blocked[l] \/ (HasEnded(blocked[l]) /\ blocked'[l] = 0)
  BY <1>1, <1>4 DEF Block
<1>5. \A l \in Limited \X Clients : blocked[l] \in Nat
  BY DEF ServerTypeOK
<1>6. ASSUME NEW l \in Limited \X Clients PROVE blocked'[l] \in Nat
  BY <1>1, <1>2, <1>3, <1>4, <1>5
<1>7. blocked' = [l \in Limited \X Clients |-> blocked'[l]]
  BY <1>1 DEF Block
<1> QED
  BY <1>3, <1>4, <1>6, <1>7

\* The counter of a client after a replay was counted.
LEMMA CountIs ==
  ASSUME ServerTypeOK, NEW r \in Requests, NEW c, c = input[r].client,
         quota' = [quota EXCEPT ![c] = CountOne(@)]
  PROVE  /\ quota' \in [Clients -> [count : Nat, resetAt : Nat]]
         /\ c \in Clients
         /\ \A d \in Clients \ {c} : quota'[d] = quota[d]
         /\ quota[c].resetAt <= now =>
              quota'[c].count = 1 /\ quota'[c].resetAt = now + Windows["replay"]
         /\ ~(quota[c].resetAt <= now) =>
              quota'[c].count = quota[c].count + 1 /\ quota'[c].resetAt = quota[c].resetAt
<1>1. c \in Clients /\ quota[c] \in [count : Nat, resetAt : Nat]
      /\ now \in Nat /\ Windows["replay"] \in Nat
  BY InputIs, WindowIs, ServerBoundsAssumption DEF ServerTypeOK
<1>2. CountOne(quota[c]) \in [count : Nat, resetAt : Nat]
  BY <1>1 DEF CountOne
<1>3. quota' \in [Clients -> [count : Nat, resetAt : Nat]] /\ quota'[c] = CountOne(quota[c])
      /\ \A d \in Clients \ {c} : quota'[d] = quota[d]
  BY <1>1, <1>2 DEF ServerTypeOK
<1> QED
  BY <1>1, <1>3 DEF CountOne

\* A step of a request keeps the types, and leaves the other requests alone.
LEMMA RequestsStep ==
  ASSUME RequestsOK, NEW r \in Requests, RequestStep(r)
  PROVE  /\ RequestsOK'
         /\ input' = input /\ now' = now /\ crashes' = crashes
         /\ landed' = landed \/ landed' = Append(landed, r)
<1> USE DEF RequestsOK
<1> DEFINE Draws == {"none", "running", "landed", "orphan", "over"}
    Frame ==
      /\ input' = input /\ now' = now /\ crashes' = crashes
      /\ landed' = landed \/ landed' = Append(landed, r)
      /\ pc' \in [Requests -> PCs] /\ draw' \in [Requests -> Draws]
      /\ accepted' \in [Requests -> Int]
      /\ blocked' \in [Limited \X Clients -> Nat]
      /\ quota' \in [Clients -> [count : Nat, resetAt : Nat]]
      /\ \A q \in Requests \ {r} : pc'[q] = pc[q] /\ draw'[q] = draw[q] /\ accepted'[q] = accepted[q]
      /\ RequestOK(r)'
<1>1. now \in Nat
  BY ServerBoundsAssumption DEF ServerTypeOK
<1>0. /\ blocked \in [Limited \X Clients -> Nat] /\ draw \in [Requests -> Draws]
      /\ quota \in [Clients -> [count : Nat, resetAt : Nat]]
      /\ pc \in [Requests -> PCs] /\ accepted \in [Requests -> Int]
  BY DEF ServerTypeOK
<1>2. ASSUME NEW how \in PCs, Quiet(r, how) PROVE Frame
  <2>1. pc' \in [Requests -> PCs] /\ pc'[r] = how /\ \A q \in Requests \ {r} : pc'[q] = pc[q]
    BY <1>2 DEF Quiet, Answer, ServerTypeOK
  <2>2. RequestOK(r)'
    BY <1>2, <2>1 DEF Quiet, RequestOK
  <2> QED
    BY <1>2, <2>1, <2>2 DEF Quiet, ServerTypeOK
<1>3. ASSUME AdmittedDraw(r) PROVE Frame
  <2>1. /\ pc' \in [Requests -> PCs] /\ pc'[r] = "drawing"
        /\ \A q \in Requests \ {r} : pc'[q] = pc[q]
    BY <1>3 DEF AdmittedDraw, StartDraw, Answer, ServerTypeOK, PCs
  <2>2. draw' \in [Requests -> Draws] /\ \A q \in Requests \ {r} : draw'[q] = draw[q]
    BY <1>3 DEF AdmittedDraw, StartDraw, ServerTypeOK
  <2>3. /\ accepted' \in [Requests -> Int] /\ accepted'[r] = now
        /\ \A q \in Requests \ {r} : accepted'[q] = accepted[q]
    BY <1>1, <1>3 DEF AdmittedDraw, Admitted, LetThrough, ServerTypeOK
  <2>4. /\ input[r].route \in Limited /\ Block(r)
        /\ input' = input /\ landed' = landed /\ now' = now /\ quota' = quota /\ crashes' = crashes
    BY <1>3 DEF AdmittedDraw, Admitted, LetThrough
  <2>5. blocked' \in [Limited \X Clients -> Nat]
    BY <2>4, BlockIs
  <2>6. RequestOK(r)'
    BY <1>1, <2>1, <2>3, <2>4 DEF RequestOK
  <2> QED
    BY <1>0, <2>1, <2>2, <2>3, <2>4, <2>5, <2>6
<1>4. ASSUME AdmittedOnly(r) PROVE Frame
  <2>1. /\ pc' \in [Requests -> PCs] /\ pc'[r] = "rejected"
        /\ \A q \in Requests \ {r} : pc'[q] = pc[q]
    BY <1>4 DEF AdmittedOnly, Answer, ServerTypeOK, PCs, Answered
  <2>2. draw' = draw
    BY <1>4 DEF AdmittedOnly
  <2>3. /\ accepted' \in [Requests -> Int] /\ accepted'[r] = now
        /\ \A q \in Requests \ {r} : accepted'[q] = accepted[q]
    BY <1>1, <1>4 DEF AdmittedOnly, Admitted, LetThrough, ServerTypeOK
  <2>4. /\ input[r].route \in Limited /\ Block(r)
        /\ input' = input /\ landed' = landed /\ now' = now /\ quota' = quota /\ crashes' = crashes
    BY <1>4 DEF AdmittedOnly, Admitted, LetThrough
  <2>5. blocked' \in [Limited \X Clients -> Nat]
    BY <2>4, BlockIs
  <2>6. RequestOK(r)'
    BY <1>1, <2>1, <2>3, <2>4 DEF RequestOK
  <2> QED
    BY <1>0, <2>1, <2>2, <2>3, <2>4, <2>5, <2>6
<1>5. ASSUME Counted(r) PROVE Frame
  <2>1. PICK how \in {"replaying", "rejected"} : Answer(r, how)
    BY <1>5 DEF Counted
  <2>2. pc' \in [Requests -> PCs] /\ pc'[r] = how /\ \A q \in Requests \ {r} : pc'[q] = pc[q]
    BY <2>1 DEF Answer, ServerTypeOK, PCs, Answered
  <2>3. /\ accepted' \in [Requests -> Int] /\ accepted'[r] = now
        /\ \A q \in Requests \ {r} : accepted'[q] = accepted[q]
    BY <1>1, <1>5 DEF Counted, ServerTypeOK
  <2>4. /\ input' = input /\ draw' = draw /\ landed' = landed /\ now' = now /\ blocked' = blocked
        /\ crashes' = crashes /\ input[r].route = "replay"
        /\ quota' = [quota EXCEPT ![input[r].client] = CountOne(@)]
    BY <1>5 DEF Counted
  <2>5. quota' \in [Clients -> [count : Nat, resetAt : Nat]]
    BY <2>4, CountIs
  <2>6. RequestOK(r)'
    BY <1>1, <2>1, <2>2, <2>3, <2>4 DEF RequestOK
  <2> QED
    BY <1>0, <2>2, <2>3, <2>4, <2>5, <2>6
<1>6. ASSUME Land(r) PROVE Frame
  <2>1. draw' \in [Requests -> Draws] /\ \A q \in Requests \ {r} : draw'[q] = draw[q]
    BY <1>6 DEF Land, ServerTypeOK
  <2>2. pc[r] \notin {"idle", "proof"}
    BY <1>6 DEF Land, RequestOK
  <2>3. RequestOK(r)'
    BY <1>6, <2>2 DEF Land, RequestOK
  <2>4. /\ input' = input /\ pc' = pc /\ landed' = Append(landed, r) /\ now' = now
        /\ blocked' = blocked /\ quota' = quota /\ crashes' = crashes /\ accepted' = accepted
    BY <1>6 DEF Land
  <2> QED
    BY <1>0, <2>1, <2>3, <2>4
<1>7. ASSUME DrawReturns(r) \/ DrawThrows(r) PROVE Frame
  <2>1. draw' \in [Requests -> Draws] /\ \A q \in Requests \ {r} : draw'[q] = draw[q]
    BY <1>7 DEF DrawReturns, DrawThrows, ServerTypeOK
  <2>2. pc[r] \notin {"idle", "proof"}
    BY <1>7 DEF DrawReturns, DrawThrows, RequestOK
  <2>3. pc' = pc \/ \E how \in {"ok", "failed"} : Answer(r, how)
    BY <1>7 DEF DrawReturns, DrawThrows
  <2>4. pc' \in [Requests -> PCs] /\ (pc'[r] = pc[r] \/ pc'[r] \in {"ok", "failed"})
        /\ \A q \in Requests \ {r} : pc'[q] = pc[q]
    BY <2>3 DEF Answer, ServerTypeOK, PCs, Answered
  <2>5. /\ input' = input /\ landed' = landed /\ now' = now /\ blocked' = blocked
        /\ quota' = quota /\ crashes' = crashes /\ accepted' = accepted
    BY <1>7 DEF DrawReturns, DrawThrows
  <2>6. RequestOK(r)'
    BY <2>2, <2>4, <2>5 DEF RequestOK
  <2> QED
    BY <1>0, <2>1, <2>4, <2>5, <2>6
<1>8. ASSUME DrawTimesOut(r) PROVE Frame
  <2>1. /\ pc' \in [Requests -> PCs] /\ pc'[r] = "timeout"
        /\ \A q \in Requests \ {r} : pc'[q] = pc[q]
    BY <1>8 DEF DrawTimesOut, Answer, ServerTypeOK, PCs, Answered
  <2>2. /\ input' = input /\ draw' = draw /\ landed' = landed /\ now' = now /\ blocked' = blocked
        /\ quota' = quota /\ crashes' = crashes /\ accepted' = accepted
    BY <1>8 DEF DrawTimesOut
  <2>3. RequestOK(r)'
    BY <2>1, <2>2 DEF RequestOK
  <2> QED
    BY <1>0, <2>1, <2>2, <2>3
<1>9. Frame
  <2> HIDE DEF Frame
  <2> QED
    BY <1>2, <1>3, <1>4, <1>5, <1>6, <1>7, <1>8, Shapes
<1>10. ServerTypeOK'
  <2>1. Clients' = Clients
    BY <1>9 DEF Clients
  <2>2. landed' \in Seq(Signatures)
    <3>1. landed \in Seq(Signatures) /\ r \in Signatures
      BY DEF ServerTypeOK, Signatures
    <3>2. Append(landed, r) \in Seq(Signatures)
      BY <3>1
    <3>3. landed' = landed \/ landed' = Append(landed, r)
      BY <1>9
    <3> QED
      BY <3>1, <3>2, <3>3
  <2> QED
    BY <1>9, <2>1, <2>2 DEF ServerTypeOK
<1>11. ASSUME NEW q \in Requests PROVE RequestOK(q)'
  BY <1>9 DEF RequestOK
<1> QED
  BY <1>9, <1>10, <1>11

-----------------------------------------------------------------------------
(* activeDraws. *)

Live == {r \in Requests : draw[r] \in {"running", "landed"}}

\* A draw is counted once from its start until its promise settles.
LEMMA ActiveStep ==
  ASSUME RequestsOK, ActiveCounted, NEW r \in Requests, RequestStep(r)
  PROVE  ActiveCounted'
<1> USE DEF RequestsOK
<1>1. IsFiniteSet(Live) /\ active = Cardinality(Live) /\ Cardinality(Live) \in Nat
  <2>1. IsFiniteSet(Live)
    BY CasesAssumption, FS_Subset DEF Live
  <2> QED
    BY <2>1, FS_CardinalityType DEF ActiveCounted, Live
<1>2. SUFFICES active' = Cardinality(Live')
  BY DEF ActiveCounted, Live
<1>3. ASSUME draw' = draw, active' = active PROVE active' = Cardinality(Live')
  BY <1>1, <1>3 DEF Live
<1>4. CASE (\E how \in PCs : Quiet(r, how)) \/ AdmittedOnly(r) \/ Counted(r) \/ DrawTimesOut(r)
  BY <1>3, <1>4 DEF Quiet, AdmittedOnly, Counted, DrawTimesOut
<1>5. CASE AdmittedDraw(r)
  <2>1. draw[r] = "none" /\ active' = active + 1 /\ draw' = [draw EXCEPT ![r] = "running"]
    BY <1>5 DEF AdmittedDraw, Admitted, StartDraw, RequestOK
  <2>2. Live' = Live \cup {r} /\ r \notin Live
    BY <2>1 DEF Live, ServerTypeOK
  <2> QED
    BY <1>1, <2>1, <2>2, FS_AddElement
<1>6. CASE Land(r)
  <2>1. draw' = [draw EXCEPT ![r] = IF @ = "running" THEN "landed" ELSE "over"]
        /\ draw[r] \in {"running", "orphan"} /\ active' = active
    BY <1>6 DEF Land
  <2>2. Live' = Live
    BY <2>1 DEF Live, ServerTypeOK
  <2> QED
    BY <1>1, <2>1, <2>2
<1>7. CASE DrawReturns(r) \/ DrawThrows(r)
  <2>1. /\ draw[r] \in {"running", "landed"} /\ active' = active - 1
        /\ \E d \in {"orphan", "over"} : draw' = [draw EXCEPT ![r] = d]
    BY <1>7 DEF DrawReturns, DrawThrows, Uncount
  <2>2. Live' = Live \ {r} /\ r \in Live
    BY <2>1 DEF Live, ServerTypeOK
  <2> QED
    BY <1>1, <2>1, <2>2, FS_RemoveElement
<1> QED
  BY <1>4, <1>5, <1>6, <1>7, Shapes

-----------------------------------------------------------------------------
(* worldIdNullifiers. *)

\* A request that holds the proof of a human: it is drawn, or succeeded.
Holds(r) ==
  input[r].route = "raffle" /\ input[r].what # NoHuman /\ pc[r] \in {"drawing", "ok"}

\* What is held is in the set, and nobody else holds it.
ProofsOK ==
  crashes = 0 =>
    /\ \A r \in Requests : Holds(r) => input[r].what \in nullifiers
    /\ \A r, q \in Requests : Holds(r) /\ Holds(q) /\ input[r].what = input[q].what => r = q

\* A proof is taken by one request at a time, and given back only by the one
\* that holds it.
LEMMA ProofsStep ==
  ASSUME RequestsOK, ProofsOK, NEW r \in Requests, RequestStep(r)
  PROVE  ProofsOK'
<1> USE DEF RequestsOK
<1>0. input' = input /\ crashes' = crashes /\ RequestsOK'
  BY RequestsStep
<1>1. ASSUME nullifiers' = nullifiers,
             \A q \in Requests : Holds(q)' => Holds(q)
      PROVE  ProofsOK'
  BY <1>0, <1>1 DEF ProofsOK
<1>2. ASSUME NEW how \in PCs, Quiet(r, how) PROVE ProofsOK'
  <2>1. /\ nullifiers' = nullifiers /\ pc'[r] = how /\ \A q \in Requests \ {r} : pc'[q] = pc[q]
        /\ how # "drawing" /\ (how = "ok" => input[r].route # "raffle")
    BY <1>2 DEF Quiet, Answer, ServerTypeOK
  <2>2. ASSUME NEW q \in Requests, Holds(q)' PROVE Holds(q)
    BY <1>0, <2>1, <2>2 DEF Holds
  <2> QED
    BY <1>1, <2>1, <2>2
<1>3. CASE AdmittedDraw(r)
  <2>1. pc'[r] = "drawing" /\ \A q \in Requests \ {r} : pc'[q] = pc[q]
    BY <1>3 DEF AdmittedDraw, StartDraw, Answer, ServerTypeOK
  <2>2. CASE input[r].route = "raffle"
    <3>1. /\ input[r].what \notin nullifiers
          /\ nullifiers' = nullifiers \cup ({input[r].what} \ {NoHuman})
      BY <1>3, <2>2 DEF AdmittedDraw, Reserve
    <3>2. \A q \in Requests \ {r} : Holds(q)' <=> Holds(q)
      BY <1>0, <2>1 DEF Holds
    <3>3. input[r].what # NoHuman => input[r].what \in nullifiers'
      BY <3>1
    <3> QED
      BY <1>0, <3>1, <3>2, <3>3 DEF ProofsOK, Holds
  <2>3. CASE input[r].route # "raffle"
    <3>1. nullifiers' = nullifiers
      BY <1>3, <2>3 DEF AdmittedDraw
    <3>2. \A q \in Requests : Holds(q)' => Holds(q)
      BY <1>0, <2>1, <2>3 DEF Holds
    <3> QED
      BY <1>1, <3>1, <3>2
  <2> QED
    BY <2>2, <2>3
<1>4. CASE AdmittedOnly(r) \/ Counted(r)
  <2>1. /\ nullifiers' = nullifiers /\ pc'[r] \in {"rejected", "replaying"}
        /\ \A q \in Requests \ {r} : pc'[q] = pc[q]
    BY <1>4 DEF AdmittedOnly, Counted, Answer, ServerTypeOK
  <2>2. ASSUME NEW q \in Requests, Holds(q)' PROVE Holds(q)
    BY <1>0, <2>1, <2>2 DEF Holds
  <2> QED
    BY <1>1, <2>1, <2>2
<1>5. CASE Land(r)
  BY <1>0, <1>1, <1>5 DEF Land, Holds
<1>6. ASSUME pc[r] = "drawing", NEW how \in {"failed", "timeout"}, Answer(r, how), Release(r, TRUE)
      PROVE  ProofsOK'
  <2>1. /\ nullifiers' = nullifiers \ {input[r].what} /\ pc'[r] = how
        /\ \A q \in Requests \ {r} : pc'[q] = pc[q]
    BY <1>6 DEF Release, Answer, ServerTypeOK
  <2>2. input[r].route = "raffle" \/ input[r].what = NoHuman
    BY <1>6, InputIs DEF RequestOK, Limited
  <2>3. ASSUME NEW q \in Requests, Holds(q)' PROVE Holds(q) /\ q # r
    BY <1>0, <2>1, <2>3 DEF Holds
  <2>4. ASSUME NEW q \in Requests, Holds(q)', crashes = 0 PROVE input[q].what # input[r].what
    BY <1>6, <2>2, <2>3, <2>4 DEF ProofsOK, Holds
  <2> QED
    BY <1>0, <2>1, <2>3, <2>4 DEF ProofsOK
<1>7. CASE DrawReturns(r) \/ DrawThrows(r) \/ DrawTimesOut(r)
  <2>1. CASE pc[r] = "drawing" /\ (DrawThrows(r) \/ DrawTimesOut(r))
    BY <1>6, <2>1 DEF DrawThrows, DrawTimesOut
  <2>2. CASE pc[r] # "drawing"
    BY <1>0, <1>1, <1>7, <2>2 DEF DrawReturns, DrawThrows, DrawTimesOut, Holds
  <2>3. CASE pc[r] = "drawing" /\ DrawReturns(r)
    <3>1. nullifiers' = nullifiers /\ pc'[r] = "ok" /\ \A q \in Requests \ {r} : pc'[q] = pc[q]
      BY <2>3 DEF DrawReturns, Release, Answer, ServerTypeOK
    <3>2. \A q \in Requests : Holds(q)' => Holds(q)
      BY <1>0, <2>3, <3>1 DEF Holds
    <3> QED
      BY <1>1, <3>1, <3>2
  <2> QED
    BY <1>7, <2>1, <2>2, <2>3
<1> QED
  BY <1>2, <1>3, <1>4, <1>5, <1>7, Shapes

-----------------------------------------------------------------------------
(* The limits of draws. *)

\* The key under which a request is limited, and when its window ends.
Key(r) == <<input[r].route, input[r].client>>
Until(r) == accepted[r] + Windows[input[r].route]
Passed(r) == input[r].route \in Limited /\ accepted[r] >= 0

\* The window of a request that was let through is over, or the entry of its
\* key lasts until then.
PaceOK == crashes = 0 => \A r \in Requests : Passed(r) => Until(r) <= now \/ Until(r) <= blocked[Key(r)]

\* A request finds no entry only when every earlier window has ended.
LEMMA AdmittedPace ==
  ASSUME RequestsOK, PaceOK, DrawsSpaced, NEW r \in Requests, Admitted(r)
  PROVE  PaceOK' /\ DrawsSpaced'
<1> USE DEF RequestsOK
<1>1. /\ input' = input /\ now' = now /\ crashes' = crashes /\ input[r].route \in Limited
      /\ HasEnded(blocked[Key(r)]) /\ Block(r)
      /\ accepted[r] = -1
  BY DEF Admitted, Blocked, LetThrough, Key, RequestOK
<1>2. /\ accepted'[r] = now /\ now \in Nat
      /\ \A q \in Requests \ {r} : accepted'[q] = accepted[q] /\ accepted[q] \in Int
      /\ \A q \in Requests : accepted'[q] \in Int /\ accepted[q] <= now
  BY ServerBoundsAssumption DEF Admitted, LetThrough, ServerTypeOK, RequestOK
<1>3. /\ \A q \in Requests : input[q].route \in Limited =>
           Key(q) \in Limited \X Clients /\ Windows[input[q].route] \in Nat \ {0}
      /\ \A q \in Requests : input[q].route \in Limited => blocked[Key(q)] \in Nat
  BY InputIs, WindowIs DEF Key, Limited, ServerTypeOK
<1>4. /\ blocked'[Key(r)] = now + Windows[input[r].route]
      /\ \A l \in Limited \X Clients : l # Key(r) =>
           blocked'[l] = blocked[l] \/ (HasEnded(blocked[l]) /\ blocked'[l] = 0)
  BY <1>1, BlockIs DEF Key
<1>5. blocked[Key(r)] <= now
  BY <1>1 DEF HasEnded
<1>6. ASSUME crashes = 0, NEW q \in Requests \ {r}, Passed(q), Key(q) = Key(r)
      PROVE  Until(q) <= now
  <2>1. Until(q) <= now \/ Until(q) <= blocked[Key(r)]
    BY <1>6 DEF PaceOK
  <2>2. Until(q) \in Int /\ blocked[Key(r)] \in Nat
    BY <1>1, <1>2, <1>3, <1>6 DEF Until, Passed
  <2> QED
    BY <1>2, <1>5, <2>1, <2>2
<1>7. ASSUME crashes = 0, NEW q \in Requests, Passed(q)'
      PROVE  Until(q)' <= now' \/ Until(q)' <= blocked'[Key(q)]
  <2>1. CASE q = r
    BY <1>1, <1>2, <1>3, <1>4, <2>1 DEF Until
  <2>2. CASE q # r
    <3>1. Passed(q) /\ Until(q)' = Until(q) /\ Until(q) \in Int
      BY <1>1, <1>2, <1>3, <1>7, <2>2 DEF Passed, Until
    <3>2. CASE Key(q) = Key(r)
      BY <1>1, <1>6, <1>7, <2>2, <3>1, <3>2
    <3>3. CASE Key(q) # Key(r)
      <4>1. Until(q) <= now \/ Until(q) <= blocked[Key(q)]
        BY <1>7, <3>1 DEF PaceOK
      <4>2. Key(q) \in Limited \X Clients /\ blocked[Key(q)] \in Nat
        BY <1>3, <3>1 DEF Passed
      <4>3. blocked'[Key(q)] = blocked[Key(q)] \/ blocked[Key(q)] <= now
        BY <1>4, <3>3, <4>2 DEF HasEnded
      <4> QED
        BY <1>1, <1>2, <3>1, <4>1, <4>2, <4>3
    <3> QED
      BY <3>2, <3>3
  <2> QED
    BY <2>1, <2>2
<1>8. \A q \in Requests : Key(q)' = Key(q)
  BY <1>1 DEF Key
<1>9. PaceOK'
  BY <1>1, <1>7, <1>8 DEF PaceOK
<1>10. ASSUME crashes = 0, NEW p \in Requests, NEW q \in Requests, p # q,
              input[p].route \in Limited, input[p].route = input[q].route,
              input[p].client = input[q].client, accepted'[p] >= 0, accepted'[q] >= accepted'[p]
       PROVE  accepted'[q] - accepted'[p] >= Windows[input[p].route]
  <2>1. Key(p) = Key(q) /\ Windows[input[p].route] \in Nat \ {0}
    BY <1>3, <1>10 DEF Key
  <2>2. CASE p # r /\ q # r
    BY <1>2, <1>10, <2>2 DEF DrawsSpaced
  <2>3. CASE q = r
    <3>1. accepted'[p] = accepted[p] /\ accepted[p] \in Int /\ Passed(p)
      BY <1>2, <1>10, <2>3 DEF Passed
    <3>2. Until(p) <= now
      BY <1>6, <1>10, <2>1, <2>3, <3>1
    <3> QED
      BY <1>2, <2>1, <2>3, <3>1, <3>2 DEF Until
  <2>4. CASE p = r
    <3>1. accepted'[q] = accepted[q] /\ accepted[q] \in Int /\ accepted[q] >= now
      BY <1>2, <1>10, <2>4
    <3>2. Passed(q) /\ Key(q) = Key(r)
      BY <1>2, <1>10, <2>1, <2>4, <3>1 DEF Passed
    <3>3. Until(q) <= now
      BY <1>6, <1>10, <2>4, <3>2
    <3>4. Windows[input[q].route] \in Nat \ {0}
      BY <1>10, <2>1
    <3> QED
      BY <1>2, <3>1, <3>3, <3>4 DEF Until
  <2> QED
    BY <2>2, <2>3, <2>4
<1>11. DrawsSpaced'
  BY <1>1, <1>10 DEF DrawsSpaced
<1> QED
  BY <1>9, <1>11

\* No other step of a request moves a limit.
LEMMA PaceStep ==
  ASSUME RequestsOK, PaceOK, DrawsSpaced, NEW r \in Requests, RequestStep(r)
  PROVE  PaceOK' /\ DrawsSpaced'
<1> USE DEF RequestsOK
<1>1. CASE Admitted(r)
  BY <1>1, AdmittedPace
<1>2. ASSUME UNCHANGED <<input, now, crashes, blocked>>,
             \A q \in Requests : input[q].route \in Limited => accepted'[q] = accepted[q]
      PROVE  PaceOK' /\ DrawsSpaced'
  <2>1. PaceOK'
    BY <1>2 DEF PaceOK, Passed, Until, Key
  <2>2. DrawsSpaced'
    BY <1>2 DEF DrawsSpaced
  <2> QED
    BY <2>1, <2>2
<1>3. CASE Counted(r)
  <2>1. \A q \in Requests : input[q].route \in Limited => accepted'[q] = accepted[q]
    BY <1>3 DEF Counted, Limited, ServerTypeOK
  <2> QED
    BY <1>2, <1>3, <2>1 DEF Counted
<1>4. CASE (\E how \in PCs : Quiet(r, how)) \/ Land(r) \/ DrawReturns(r) \/ DrawThrows(r) \/ DrawTimesOut(r)
  BY <1>2, <1>4 DEF Quiet, Land, DrawReturns, DrawThrows, DrawTimesOut
<1> QED
  BY <1>1, <1>3, <1>4, Shapes DEF AdmittedDraw, AdmittedOnly

-----------------------------------------------------------------------------
(* The quota of replays. *)

W == Windows["replay"]

\* The replays of a client that were let through: all, those since a time, and
\* those of an interval.
Replays(c) ==
  {q \in Requests : input[q].route = "replay" /\ input[q].client = c /\ accepted[q] >= 0}
Since(c, a) == {q \in Replays(c) : a <= accepted[q]}
Within(c, a, b) == {q \in Replays(c) : a <= accepted[q] /\ accepted[q] < b}

\* The counter of a client with a window counts its replays since the window
\* opened, one of which opened it; of the time before, any interval that
\* reaches into the window holds less than a full quota.
QuotaOK(c) ==
  LET w == quota[c].resetAt - W IN
  IF quota[c].resetAt = 0 THEN Replays(c) = {}
  ELSE /\ 0 <= w /\ w <= now
       /\ quota[c].count = Cardinality(Since(c, w)) /\ quota[c].count <= ApiMax
       /\ \A q \in Replays(c) : accepted[q] < quota[c].resetAt
       /\ \E q \in Replays(c) : accepted[q] = w
       /\ \A a \in Int : w - W < a => Cardinality(Within(c, a, w)) <= ApiMax - 1

\* Any interval as long as a window holds less than two full quotas.
SpreadOK(c) == \A a \in Int : Cardinality(Within(c, a, a + W)) <= 2 * ApiMax - 1

QuotasOK == crashes = 0 => \A c \in Clients : QuotaOK(c) /\ SpreadOK(c)

\* Sets of requests are finite.
LEMMA RequestSets ==
  ASSUME NEW S \in SUBSET Requests
  PROVE  IsFiniteSet(S) /\ Cardinality(S) \in Nat
  BY CasesAssumption, FS_Subset, FS_CardinalityType
\* The union of two sets of requests is no larger than the two.
LEMMA Unions ==
  ASSUME NEW S \in SUBSET Requests, NEW T \in SUBSET Requests, NEW U \in SUBSET Requests,
         U \subseteq S \cup T
  PROVE  Cardinality(U) <= Cardinality(S) + Cardinality(T)
<1>1. IsFiniteSet(S) /\ IsFiniteSet(T) /\ IsFiniteSet(S \cup T) /\ IsFiniteSet(S \cap T)
  BY RequestSets
<1>2. Cardinality(S \cup T) = Cardinality(S) + Cardinality(T) - Cardinality(S \cap T)
  BY <1>1, FS_Union
<1>3. Cardinality(U) <= Cardinality(S \cup T)
  BY <1>1, FS_Subset
<1>4. /\ Cardinality(S) \in Nat /\ Cardinality(T) \in Nat /\ Cardinality(U) \in Nat
      /\ Cardinality(S \cap T) \in Nat /\ Cardinality(S \cup T) \in Nat
  BY RequestSets
<1> QED
  BY <1>2, <1>3, <1>4

\* A replay that is counted keeps the books of its client.
LEMMA CountedQuota ==
  ASSUME RequestsOK, NEW r \in Requests, Counted(r),
         NEW c, c = input[r].client, NEW t, t = now, NEW w, w = quota[c].resetAt - W,
         QuotaOK(c), SpreadOK(c)
  PROVE  QuotaOK(c)' /\ SpreadOK(c)'
<1> USE DEF RequestsOK
<1>1. /\ input' = input /\ now' = now /\ now = t /\ accepted[r] = -1 /\ input[r].route = "replay"
      /\ ~QuotaReached(quota[c]) /\ accepted'[r] = now
      /\ \A q \in Requests \ {r} : accepted'[q] = accepted[q]
  BY DEF Counted, RequestOK, ServerTypeOK
<1>2. /\ t \in Nat /\ W \in Nat \ {0} /\ ApiMax \in Nat \ {0}
      /\ c \in Clients /\ quota[c].resetAt \in Nat /\ quota[c].count \in Nat
      /\ \A q \in Requests : accepted[q] \in Int /\ accepted[q] <= t
  BY InputIs, WindowIs, ServerBoundsAssumption DEF ServerTypeOK, W, RequestOK
<1>3. /\ quota[c].resetAt <= t =>
           quota'[c].count = 1 /\ quota'[c].resetAt = t + W
      /\ ~(quota[c].resetAt <= t) =>
           quota'[c].count = quota[c].count + 1 /\ quota'[c].resetAt = quota[c].resetAt
  <2>1. quota' = [quota EXCEPT ![c] = CountOne(@)]
    BY DEF Counted
  <2> QED
    BY <2>1, CountIs DEF W
<1>4. /\ r \notin Replays(c) /\ Replays(c)' = Replays(c) \cup {r}
      /\ \A q \in Replays(c) : accepted'[q] = accepted[q] /\ q \in Requests /\ q # r
  BY <1>1, <1>2 DEF Replays
<1>5. \A a \in Int : /\ Since(c, a) \in SUBSET Requests /\ Since(c, a)' \in SUBSET Requests
                     /\ \A b \in Int : Within(c, a, b) \in SUBSET Requests
                                       /\ Within(c, a, b)' \in SUBSET Requests
  BY DEF Since, Within, Replays
\* An interval before or after t holds what it held, one around t also r.
<1>6. ASSUME NEW a \in Int, NEW b \in Int, b <= t \/ t < a
      PROVE  Within(c, a, b)' = Within(c, a, b)
  BY <1>1, <1>2, <1>4, <1>6 DEF Within
<1>7. {r} \in SUBSET Requests /\ Cardinality({r}) = 1
  BY FS_Singleton
<1>8. CASE quota[c].resetAt <= t
  <2>1. /\ quota'[c].count = 1 /\ quota'[c].resetAt = t + W /\ quota'[c].resetAt # 0
        /\ quota'[c].resetAt - W = t
    BY <1>2, <1>3, <1>8
  <2>2. \A q \in Replays(c) : accepted[q] < t
    <3>1. CASE quota[c].resetAt = 0
      BY <3>1 DEF QuotaOK
    <3>2. CASE quota[c].resetAt # 0
      <4>1. \A q \in Replays(c) : accepted[q] < quota[c].resetAt /\ q \in Requests
        BY <1>4, <3>2 DEF QuotaOK
      <4> QED
        BY <1>2, <1>8, <4>1
    <3> QED
      BY <3>1, <3>2
  <2>3. Since(c, t)' = {r}
    BY <1>1, <1>2, <1>4, <2>2 DEF Since
  <2>4. ASSUME NEW a \in Int, t - W < a
        PROVE  Cardinality(Within(c, a, t)) <= ApiMax - 1
    <3>1. CASE quota[c].resetAt = 0
      <4>1. Within(c, a, t) = {}
        BY <3>1 DEF QuotaOK, Within
      <4> QED
        BY <1>2, <4>1, FS_EmptySet
    <3>2. CASE quota[c].resetAt # 0
      <4>1. PICK q0 \in Replays(c) : accepted[q0] = w
        BY <3>2 DEF QuotaOK
      <4>2. quota[c].count = Cardinality(Since(c, w)) /\ quota[c].count <= ApiMax /\ w \in Int
        BY <1>2, <3>2 DEF QuotaOK
      <4>3. w < a
        BY <1>2, <1>8, <2>4
      <4>4. q0 \in Since(c, w) /\ Within(c, a, t) \subseteq Since(c, w) \ {q0}
        BY <1>2, <1>4, <4>1, <4>2, <4>3 DEF Since, Within
      <4>5. IsFiniteSet(Since(c, w))
        BY <1>5, <4>2, RequestSets
      <4>6. Cardinality(Since(c, w) \ {q0}) = Cardinality(Since(c, w)) - 1
            /\ IsFiniteSet(Since(c, w) \ {q0})
        BY <4>4, <4>5, FS_RemoveElement
      <4>7. Cardinality(Within(c, a, t)) <= Cardinality(Since(c, w) \ {q0})
            /\ Cardinality(Within(c, a, t)) \in Nat
        BY <1>2, <1>5, <4>4, <4>6, FS_Subset, RequestSets
      <4> QED
        BY <1>2, <4>2, <4>6, <4>7
    <3> QED
      BY <3>1, <3>2
  <2>5. QuotaOK(c)'
    <3>1. \A q \in Replays(c)' : accepted'[q] < t + W
      BY <1>1, <1>2, <1>4, <2>2
    <3>2. \E q \in Replays(c)' : accepted'[q] = t
      BY <1>1, <1>4
    <3>3. \A a \in Int : t - W < a => Cardinality(Within(c, a, t)') <= ApiMax - 1
      BY <1>2, <1>6, <2>4
    <3> QED
      BY <1>1, <1>2, <1>7, <2>1, <2>3, <3>1, <3>2, <3>3 DEF QuotaOK, Since, Within, Replays, W
  <2>6. ASSUME NEW a \in Int PROVE Cardinality(Within(c, a, a + W)') <= 2 * ApiMax - 1
    <3>1. CASE a + W <= t \/ t < a
      <4>1. Within(c, a, a + W)' = Within(c, a, a + W)
        BY <1>2, <1>6, <3>1
      <4> QED
        BY <4>1 DEF SpreadOK
    <3>2. CASE a <= t /\ t < a + W
      <4>1. Within(c, a, a + W)' \subseteq Within(c, a, t) \cup {r}
        BY <1>1, <1>2, <1>4, <2>2 DEF Within
      <4>2. a + W \in Int
        BY <1>2
      <4>3. Cardinality(Within(c, a, a + W)') <= Cardinality(Within(c, a, t)) + Cardinality({r})
        BY <1>2, <1>5, <1>7, <4>1, <4>2, Unions
      <4>4. Cardinality(Within(c, a, t)) <= ApiMax - 1
        BY <1>2, <2>4, <3>2
      <4>5. Cardinality(Within(c, a, t)) \in Nat /\ Cardinality(Within(c, a, a + W)') \in Nat
        BY <1>2, <1>5, <4>2, RequestSets
      <4> QED
        BY <1>2, <1>7, <4>3, <4>4, <4>5
    <3> QED
      BY <1>2, <3>1, <3>2
  <2> QED
    BY <2>5, <2>6 DEF SpreadOK, W
<1>9. CASE ~(quota[c].resetAt <= t)
  <2>1. /\ quota'[c].count = quota[c].count + 1 /\ quota'[c].resetAt = quota[c].resetAt
        /\ quota[c].resetAt # 0 /\ quota[c].count < ApiMax
    BY <1>1, <1>2, <1>3, <1>9 DEF QuotaReached
  <2>2. /\ 0 <= w /\ w <= t /\ w \in Int /\ quota[c].count = Cardinality(Since(c, w))
        /\ \A q \in Replays(c) : accepted[q] < quota[c].resetAt
        /\ \E q \in Replays(c) : accepted[q] = w
        /\ \A a \in Int : w - W < a => Cardinality(Within(c, a, w)) <= ApiMax - 1
    BY <1>2, <2>1 DEF QuotaOK
    <2>3. Since(c, w)' = Since(c, w) \cup {r} /\ r \notin Since(c, w)
    BY <1>1, <1>2, <1>4, <2>2 DEF Since
  <2>4. Cardinality(Since(c, w)') = quota'[c].count
    BY <1>5, <2>1, <2>2, <2>3, RequestSets, FS_AddElement
  <2>5. QuotaOK(c)'
    <3>1. \A q \in Replays(c)' : accepted'[q] < quota[c].resetAt
      BY <1>1, <1>2, <1>4, <1>9, <2>2
    <3>2. \E q \in Replays(c)' : accepted'[q] = w
      BY <1>4, <2>2
    <3>3. \A a \in Int : w - W < a => Cardinality(Within(c, a, w)') <= ApiMax - 1
      BY <1>2, <1>6, <2>2
    <3> QED
      BY <1>1, <1>2, <2>1, <2>2, <2>4, <3>1, <3>2, <3>3 DEF QuotaOK, W
  <2>6. ASSUME NEW a \in Int PROVE Cardinality(Within(c, a, a + W)') <= 2 * ApiMax - 1
    <3>1. CASE a + W <= t \/ t < a
      <4>1. Within(c, a, a + W)' = Within(c, a, a + W)
        BY <1>2, <1>6, <3>1
      <4> QED
        BY <4>1 DEF SpreadOK
    <3>2. CASE a <= t /\ t < a + W
      <4>1. Within(c, a, a + W)' \subseteq Within(c, a, w) \cup Since(c, w)'
        BY <1>1, <1>2, <1>4, <2>2 DEF Within, Since
      <4>2. a + W \in Int
        BY <1>2
      <4>3. Cardinality(Within(c, a, a + W)')
              <= Cardinality(Within(c, a, w)) + Cardinality(Since(c, w)')
        BY <1>5, <2>2, <4>1, <4>2, Unions
      <4>4. Cardinality(Within(c, a, w)) <= ApiMax - 1
        BY <1>2, <2>2, <3>2
      <4>5. Cardinality(Within(c, a, w)) \in Nat /\ Cardinality(Within(c, a, a + W)') \in Nat
        BY <1>5, <2>2, <4>2, RequestSets
      <4> QED
        BY <1>2, <2>1, <2>4, <4>3, <4>4, <4>5
    <3> QED
      BY <1>2, <3>1, <3>2
  <2> QED
    BY <2>5, <2>6 DEF SpreadOK, W
<1> QED
  BY <1>8, <1>9

\* No other step of a request counts a replay or moves a client's window.
LEMMA QuotaStep ==
  ASSUME RequestsOK, QuotasOK, NEW r \in Requests, RequestStep(r)
  PROVE  QuotasOK'
<1> USE DEF RequestsOK
<1>1. ASSUME UNCHANGED <<input, now, crashes, quota>>,
             \A q \in Requests : input[q].route = "replay" => accepted'[q] = accepted[q]
      PROVE  QuotasOK'
  <2>1. \A c : Replays(c)' = Replays(c)
    BY <1>1 DEF Replays
  <2>2. \A c : \A q \in Replays(c) : accepted'[q] = accepted[q]
    BY <1>1 DEF Replays
  <2>3. \A c, a, b : Since(c, a)' = Since(c, a) /\ Within(c, a, b)' = Within(c, a, b)
    BY <2>1, <2>2 DEF Since, Within
  <2>4. \A c \in Clients : QuotaOK(c) => QuotaOK(c)'
    BY <1>1, <2>1, <2>2, <2>3 DEF QuotaOK, W
  <2>5. \A c \in Clients : SpreadOK(c) => SpreadOK(c)'
    BY <2>3 DEF SpreadOK, W
  <2>6. Clients' = Clients
    BY <1>1 DEF Clients
  <2> QED
    BY <1>1, <2>4, <2>5, <2>6 DEF QuotasOK
<1>2. CASE Counted(r)
  <2>1. SUFFICES ASSUME crashes = 0, NEW c \in Clients
                 PROVE  QuotaOK(c)' /\ SpreadOK(c)'
    BY <1>2 DEF QuotasOK, Counted, Clients
  <2>2. QuotaOK(c) /\ SpreadOK(c)
    BY <2>1 DEF QuotasOK
  <2>3. CASE c = input[r].client
    <3>1. PICK t : t = now
      OBVIOUS
    <3>2. PICK w : w = quota[c].resetAt - W
      OBVIOUS
    <3> QED
      BY <1>2, <2>2, <2>3, <3>1, <3>2, CountedQuota
  <2>4. CASE c # input[r].client
    <3>1. /\ input' = input /\ now' = now /\ quota'[c] = quota[c]
          /\ \A q \in Requests : input[q].client = c => accepted'[q] = accepted[q]
      BY <1>2, <2>4 DEF Counted, ServerTypeOK
    <3>2. Replays(c)' = Replays(c) /\ \A q \in Replays(c) : accepted'[q] = accepted[q]
      BY <3>1 DEF Replays
    <3>3. \A a, b : Since(c, a)' = Since(c, a) /\ Within(c, a, b)' = Within(c, a, b)
      BY <3>2 DEF Since, Within
    <3>4. QuotaOK(c)'
      BY <2>2, <3>1, <3>2, <3>3 DEF QuotaOK, W
    <3>5. SpreadOK(c)'
      BY <2>2, <3>3 DEF SpreadOK, W
    <3> QED
      BY <3>4, <3>5
  <2> QED
    BY <2>3, <2>4
<1>3. CASE Admitted(r)
  <2>1. \A q \in Requests : input[q].route = "replay" => accepted'[q] = accepted[q]
    BY <1>3 DEF Admitted, LetThrough, Limited, ServerTypeOK
  <2> QED
    BY <1>1, <1>3, <2>1 DEF Admitted
<1>4. CASE (\E how \in PCs : Quiet(r, how)) \/ Land(r) \/ DrawReturns(r) \/ DrawThrows(r) \/ DrawTimesOut(r)
  BY <1>1, <1>4 DEF Quiet, Land, DrawReturns, DrawThrows, DrawTimesOut
<1> QED
  BY <1>2, <1>3, <1>4, Shapes DEF AdmittedDraw, AdmittedOnly

\* The books bound every interval that starts with an accepted request.
LEMMA QuotasLimit ==
  ASSUME RequestsOK, QuotasOK
  PROVE  ReplaysLimited
<1> USE DEF RequestsOK
<1>1. SUFFICES ASSUME crashes = 0, NEW r \in Requests, accepted[r] >= 0
      PROVE Cardinality({q \in Requests :
               /\ input[q].route = "replay" /\ input[q].client = input[r].client
               /\ accepted[q] \in accepted[r]..(accepted[r] + Windows["replay"] - 1)})
            <= 2 * ApiMax - 1
  BY DEF ReplaysLimited
<1>2. /\ input[r].client \in Clients /\ accepted[r] \in Int /\ W \in Nat \ {0}
      /\ \A q \in Requests : accepted[q] \in Int
  BY InputIs, WindowIs DEF ServerTypeOK, W
<1>3. Cardinality(Within(input[r].client, accepted[r], accepted[r] + W)) <= 2 * ApiMax - 1
  BY <1>1, <1>2 DEF QuotasOK, SpreadOK
<1>4. Within(input[r].client, accepted[r], accepted[r] + W)
      = {q \in Requests :
               /\ input[q].route = "replay" /\ input[q].client = input[r].client
               /\ accepted[q] \in accepted[r]..(accepted[r] + W - 1)}
  BY <1>1, <1>2 DEF Within, Replays
<1> QED
  BY <1>3, <1>4 DEF W

-----------------------------------------------------------------------------
(* The server as a whole. *)

\* What the limits, the proofs and the counter of draws rest on.
ServerInv ==
  /\ RequestsOK /\ ActiveCounted
  /\ ProofsOK /\ PaceOK /\ DrawsSpaced /\ QuotasOK

\* The books of a server that starts.
LEMMA InitServer ==
  ASSUME ServerInit
  PROVE  ServerInv
<1>1. RequestsOK
  BY InitRequests
<1>2. /\ \A r \in Requests : draw[r] = "none" /\ pc[r] = "idle" /\ accepted[r] = -1
      /\ active = 0
      /\ \A c \in Clients : quota[c].resetAt = 0
  BY DEF ServerInit, Clients
<1>3. ActiveCounted
  <2>1. {r \in Requests : draw[r] \in {"running", "landed"}} = {}
    BY <1>2
  <2> QED
    BY <1>2, <2>1, FS_EmptySet DEF ActiveCounted
<1>4. ProofsOK
  BY <1>2 DEF ProofsOK, Holds
<1>5. PaceOK /\ DrawsSpaced
  BY <1>2 DEF PaceOK, DrawsSpaced, Passed
<1>6. QuotasOK
  <2>1. \A c : Replays(c) = {}
    BY <1>2 DEF Replays
  <2>2. \A c, a, b : Within(c, a, b) = {}
    BY <2>1 DEF Within
  <2>3. \A c : SpreadOK(c)
    <3>1. ApiMax \in Nat \ {0}
      BY ServerBoundsAssumption
    <3> QED
      BY <2>2, <3>1, FS_EmptySet DEF SpreadOK
  <2> QED
    BY <1>2, <2>1, <2>3 DEF QuotasOK, QuotaOK
<1> QED
  BY <1>1, <1>3, <1>4, <1>5, <1>6 DEF ServerInv

\* The books do not depend on what lands.
LEMMA LandingServer ==
  ASSUME ServerInv, landed' \in Seq(Signatures),
         UNCHANGED <<input, pc, draw, now, blocked, quota, nullifiers, active, crashes, accepted>>
  PROVE  ServerInv'
<1> USE DEF ServerInv
<1>1. Clients' = Clients
  BY DEF Clients
<1>2. RequestsOK'
  BY <1>1 DEF RequestsOK, ServerTypeOK, RequestOK
<1>3. ActiveCounted' /\ ProofsOK' /\ PaceOK' /\ DrawsSpaced'
  BY DEF ActiveCounted, ProofsOK, Holds, PaceOK, Passed, Until, Key, DrawsSpaced
<1>4. QuotasOK'
  <2>1. \A c : Replays(c)' = Replays(c)
    BY DEF Replays
  <2>2. \A c, a, b : Since(c, a)' = Since(c, a) /\ Within(c, a, b)' = Within(c, a, b)
    BY <2>1 DEF Since, Within
  <2>3. \A c \in Clients : QuotaOK(c) => QuotaOK(c)'
    BY <2>1, <2>2 DEF QuotaOK, W
  <2>4. \A c \in Clients : SpreadOK(c) => SpreadOK(c)'
    BY <2>2 DEF SpreadOK, W
  <2> QED
    BY <1>1, <2>3, <2>4 DEF QuotasOK
<1> QED
  BY <1>2, <1>3, <1>4

\* Time may pass between any two steps.
LEMMA TickServer ==
  ASSUME ServerInv, Tick
  PROVE  ServerInv'
<1> USE DEF ServerInv, RequestsOK
<1>1. /\ UNCHANGED <<input, pc, draw, landed, blocked, quota, nullifiers, active, crashes, accepted>>
      /\ now < MaxTime /\ now' = now + 1 /\ now \in Nat
  BY ServerBoundsAssumption DEF Tick, ServerTypeOK
<1>2. Clients' = Clients
  BY <1>1 DEF Clients
<1>3. now' \in 0..MaxTime
  BY <1>1, ServerBoundsAssumption
<1>4. ServerTypeOK'
  BY <1>1, <1>2, <1>3 DEF ServerTypeOK
<1>5. \A r \in Requests : accepted[r] \in Int
  BY DEF ServerTypeOK
<1>6. \A r \in Requests : RequestOK(r)'
  BY <1>1, <1>5 DEF RequestOK
<1>7. ActiveCounted' /\ ProofsOK' /\ DrawsSpaced'
  BY <1>1 DEF ActiveCounted, ProofsOK, Holds, DrawsSpaced
<1>8. PaceOK'
  <2>1. \A r \in Requests : input[r].route \in Limited => Windows[input[r].route] \in Nat
    BY WindowIs DEF Limited
  <2>2. \A r \in Requests : /\ Passed(r)' = Passed(r) /\ Until(r)' = Until(r) /\ Key(r)' = Key(r)
                            /\ Passed(r) => Until(r) \in Int
    BY <1>1, <1>5, <2>1 DEF Passed, Until, Key
  <2> QED
    BY <1>1, <2>2 DEF PaceOK
<1>9. QuotasOK'
  <2>1. \A c : Replays(c)' = Replays(c)
    BY <1>1 DEF Replays
  <2>2. \A c, a, b : Since(c, a)' = Since(c, a) /\ Within(c, a, b)' = Within(c, a, b)
    BY <1>1, <2>1 DEF Since, Within
  <2>3. W \in Nat /\ \A c \in Clients : quota[c].resetAt \in Nat
    BY WindowIs DEF ServerTypeOK, W
  <2>4. ASSUME NEW c \in Clients, QuotaOK(c) PROVE QuotaOK(c)'
    <3>1. CASE quota[c].resetAt = 0
      BY <1>1, <2>1, <2>4, <3>1 DEF QuotaOK
    <3>2. CASE quota[c].resetAt # 0
      <4>1. quota[c].resetAt - W <= now'
        BY <1>1, <2>3, <2>4, <3>2 DEF QuotaOK
      <4> QED
        BY <1>1, <2>1, <2>2, <2>4, <3>2, <4>1 DEF QuotaOK, W
    <3> QED
      BY <3>1, <3>2
  <2>5. \A c \in Clients : SpreadOK(c) => SpreadOK(c)'
    BY <2>2 DEF SpreadOK, W
  <2> QED
    BY <1>1, <1>2, <2>4, <2>5 DEF QuotasOK
<1> QED
  BY <1>4, <1>6, <1>7, <1>8, <1>9

\* A restart forgets the limits and counts no draw.
LEMMA CrashServer ==
  ASSUME ServerInv, Crash
  PROVE  ServerInv'
<1> USE DEF ServerInv, RequestsOK
<1>1. /\ UNCHANGED <<input, landed, now, accepted>>
      /\ crashes' \in 0..MaxCrashes[input] /\ crashes' # 0 /\ active' = 0
  BY ServerBoundsAssumption DEF Crash, ServerTypeOK
<1>2. Clients' = Clients
  BY <1>1 DEF Clients
<1>3. /\ blocked' \in [Limited \X Clients -> Nat]
      /\ quota' \in [Clients -> [count : Nat, resetAt : Nat]]
  BY DEF Crash, ServerTypeOK
<1>4. /\ pc' \in [Requests -> PCs]
      /\ \A r \in Requests : pc'[r] = pc[r] \/ pc'[r] = "dropped"
      /\ \A r \in Requests : pc'[r] \in Answered \cup {"idle"}
  <2>1. pc' = [r \in Requests |-> IF pc[r] \in Answered \cup {"idle"} THEN pc[r] ELSE "dropped"]
    BY DEF Crash
  <2> QED
    BY <2>1 DEF ServerTypeOK, PCs, Answered
<1>5. /\ draw' \in [Requests -> {"none", "orphan", "over"}]
      /\ \A r \in Requests : draw[r] = "none" => draw'[r] = "none"
  <2>1. draw' = [r \in Requests |-> CASE draw[r] = "running" -> "orphan"
                                      [] draw[r] = "landed" -> "over" [] OTHER -> draw[r]]
    BY DEF Crash
  <2>2. \A r \in Requests : draw[r] \in {"none", "running", "landed", "orphan", "over"}
    BY DEF ServerTypeOK
  <2>3. \A r \in Requests : draw'[r] \in {"none", "orphan", "over"}
                            /\ (draw[r] = "none" => draw'[r] = "none")
    BY <2>1, <2>2
  <2> QED
    BY <2>1, <2>3
<1>6. ServerTypeOK'
  BY <1>1, <1>2, <1>3, <1>4, <1>5 DEF ServerTypeOK
<1>7. \A r \in Requests : RequestOK(r)'
  BY <1>1, <1>4, <1>5 DEF RequestOK, Answered
<1>8. ActiveCounted'
  <2>1. {r \in Requests : draw'[r] \in {"running", "landed"}} = {}
    BY <1>5
  <2> QED
    BY <1>1, <2>1, FS_EmptySet DEF ActiveCounted
<1>9. ProofsOK' /\ PaceOK' /\ DrawsSpaced' /\ QuotasOK'
  BY <1>1 DEF ProofsOK, PaceOK, DrawsSpaced, QuotasOK
<1> QED
  BY <1>6, <1>7, <1>8, <1>9

\* What the lists do, and the chain without the server.
FeedStep ==
  (\E s \in Signatures : Finalize(s)) \/ (\E k \in Keys : Serve(k) \/ Compute(k)) \/ WarmResolutions

\* The lists leave the requests alone.
LEMMA FeedStepIs ==
  ASSUME FeedStep
  PROVE  UNCHANGED serverVars
<1>1. ASSUME NEW k \in Keys, Serve(k) PROVE UNCHANGED serverVars
  BY <1>1 DEF Serve, ServeCached, ServeCold, ListExpires
<1>2. ASSUME NEW k \in Keys, Compute(k) PROVE UNCHANGED serverVars
  BY <1>2 DEF Compute, ListFetched, ListFails, StartBatch, FinishBatch, VerifyEnds,
              LookUpSlot, SlotAnswered, SlotFails, ListDone
<1> QED
  BY <1>1, <1>2 DEF FeedStep, Finalize, WarmResolutions

\* The steps of a request, and the steps of the feed, keep the books.
LEMMA ServerStep ==
  ASSUME ServerInv, [Next]_vars
  PROVE  ServerInv'
<1>0. RequestsOK /\ landed \in Seq(Signatures)
  BY DEF ServerInv, RequestsOK, ServerTypeOK
<1>1. ASSUME NEW r \in Requests, RequestStep(r) PROVE ServerInv'
  BY <1>1, RequestsStep, ActiveStep, ProofsStep, PaceStep, QuotaStep DEF ServerInv
<1>2. ASSUME NEW f \in Foreign, ForeignLands(f) PROVE ServerInv'
  <2>1. landed' = Append(landed, f) /\ f \in Signatures
    BY <1>2 DEF ForeignLands, Signatures
  <2>2. landed' \in Seq(Signatures)
    BY <1>0, <2>1
  <2> QED
    BY <1>2, <2>2, LandingServer DEF ForeignLands
<1>3. ASSUME UNCHANGED serverVars PROVE ServerInv'
  BY <1>0, <1>3, LandingServer DEF serverVars
<1>4. CASE FeedStep
  BY <1>3, <1>4, FeedStepIs
<1>5. CASE Restart
  BY <1>5, CrashServer DEF Restart
<1>6. CASE Tick
  BY <1>6, TickServer
<1>7. CASE UNCHANGED vars
  BY <1>3, <1>7 DEF vars
<1> QED
  BY <1>1, <1>2, <1>4, <1>5, <1>6, <1>7 DEF Next, RequestStep, FeedStep

\* One human's proof is held by one raffle at a time.
LEMMA ServerSound ==
  ASSUME ServerInv
  PROVE  AdmissionSound
<1>1. OneRafflePerProof
  BY DEF ServerInv, ProofsOK, Holds, OneRafflePerProof
<1>2. ReplaysLimited
  BY QuotasLimit DEF ServerInv
<1> QED
  BY <1>1, <1>2 DEF ServerInv, AdmissionSound

\* The server lets in what it may (handleLiveRaffle, handlePartnerDraw, the rate
\* limits and trackDraw of web/server.mjs), however its requests interleave:
\* activeDraws counts the draws that run, one human holds one raffle, draws of
\* one client are a window apart and its replays within their quota.
THEOREM AdmissionAlwaysSound == Spec => []AdmissionSound
<1>1. Init => ServerInv
  BY InitServer DEF Init
<1>2. ServerInv /\ [Next]_vars => ServerInv'
  BY ServerStep
<1>3. ServerInv => AdmissionSound
  BY ServerSound
<1> QED
  BY <1>1, <1>2, <1>3, PTL DEF Spec

-----------------------------------------------------------------------------
(* The rules of conditions rounds. *)

\* Every set of rules that was saved, read or is about to be saved is on chain.
RoundsOK ==
  /\ store = Torn \/ store \in [Rounds -> anchored \cup {NoRules}]
  /\ rules \in [Requests -> anchored \cup {NoRules}]
  /\ \A r \in Requests : /\ pc[r] = "committed" => input[r].what \in anchored
                         /\ pc[r] = "resolving" => rules[r] # NoRules

\* What loadConditionsCommits reads is on chain, whatever became of the file.
LEMMA LoadIs ==
  ASSUME RoundsOK
  PROVE  Load \in [Rounds -> anchored \cup {NoRules}]
  BY DEF RoundsOK, Load

\* Steps that touch no rules keep them, if nobody begins to save or resolve.
LEMMA RoundsKept ==
  ASSUME RoundsOK, UNCHANGED <<input, rules, store, anchored>>,
         \A q \in Requests : pc'[q] \in {"committed", "resolving"} => pc'[q] = pc[q]
  PROVE  RoundsOK'
  BY DEF RoundsOK

\* Rules are saved after they were anchored, and resolved as they were read.
LEMMA RoundsStep ==
  ASSUME RequestsOK, RoundsOK, NEW r \in Requests, RequestStep(r)
  PROVE  RoundsOK'
<1> USE DEF RequestsOK
<1>0. pc \in [Requests -> PCs] /\ input' = input
  BY RequestsStep DEF ServerTypeOK
<1>1. ASSUME NEW how, Answer(r, how)
      PROVE  pc'[r] = how /\ \A q \in Requests \ {r} : pc'[q] = pc[q]
  BY <1>0, <1>1 DEF Answer
<1>2. ASSUME NEW how \in {"proof", "drawing", "replaying"} \cup Answered, Answer(r, how),
             UNCHANGED conditionsVars
      PROVE  RoundsOK'
  <2>1. \A q \in Requests : pc'[q] \in {"committed", "resolving"} => pc'[q] = pc[q]
    BY <1>1, <1>2 DEF Answered
  <2> QED
    BY <1>0, <1>2, <2>1, RoundsKept DEF conditionsVars
<1>3. ASSUME pc' = pc, UNCHANGED conditionsVars PROVE RoundsOK'
  BY <1>0, <1>3, RoundsKept DEF conditionsVars
<1>4. CASE Raffle(r) \/ ProofFails(r)
  BY <1>2, <1>4 DEF Raffle, ProofFails, Answered
<1>5. CASE ProofAccepted(r) \/ PartnerDraw(r)
  BY <1>2, <1>5 DEF ProofAccepted, PartnerDraw, StartDraw, Answered
<1>6. CASE RoundResolved(r) \/ Replay(r) \/ ReplayCloses(r)
  BY <1>2, <1>6 DEF RoundResolved, Replay, ReplayCloses, Answered
<1>7. CASE DrawStep(r) \/ DrawTimesOut(r)
  BY <1>2, <1>3, <1>7 DEF DrawStep, Land, DrawReturns, DrawThrows, DrawTimesOut, Answered
<1>8. CASE Commit(r)
  <2>1. rules' = rules /\ store' = store
    BY <1>8 DEF Commit
  <2>2. anchored \subseteq anchored'
    BY <1>8 DEF Commit, Committed
  <2>3. ASSUME NEW q \in Requests
        PROVE  /\ pc'[q] = "committed" => input[q].what \in anchored'
               /\ pc'[q] = "resolving" => pc[q] = "resolving"
    <3>1. CASE q # r
      <4>1. pc'[q] = pc[q]
        BY <1>0, <1>8, <3>1 DEF Commit, Committed, Answer
      <4> QED
        BY <2>2, <4>1 DEF RoundsOK
    <3>2. CASE q = r
      <4>1. pc'[r] \in {"failed", "rejected"} \/ (pc'[r] = "committed" /\ input[r].what \in anchored')
        BY <1>0, <1>8 DEF Commit, Committed, Answer
      <4> QED
        BY <3>2, <4>1
    <3> QED
      BY <3>1, <3>2
  <2> QED
    BY <1>0, <2>1, <2>2, <2>3 DEF RoundsOK
<1>9. CASE SaveCommit(r)
  <2>1. /\ input[r].what \in anchored /\ rules' = rules /\ anchored' = anchored
        /\ store' = [Load EXCEPT !["round"] = input[r].what]
    BY <1>9 DEF SaveCommit, RoundsOK
  <2>2. store' \in [Rounds -> anchored \cup {NoRules}]
    BY <2>1, LoadIs DEF Rounds
  <2>3. \A q \in Requests : pc'[q] \in {"committed", "resolving"} => pc'[q] = pc[q]
    BY <1>1, <1>9 DEF SaveCommit
  <2> QED
    BY <1>0, <2>1, <2>2, <2>3 DEF RoundsOK
<1>10. CASE ResolveRound(r)
  <2>1. /\ store' = store /\ anchored' = anchored
        /\ rules' = [rules EXCEPT ![r] = Load["round"]]
        /\ Answer(r, IF Load["round"] = NoRules THEN "rejected" ELSE "resolving")
    BY <1>10 DEF ResolveRound
  <2>2. Load["round"] \in anchored \cup {NoRules}
    BY LoadIs DEF Rounds
  <2>3. rules' \in [Requests -> anchored \cup {NoRules}]
    BY <2>1, <2>2 DEF RoundsOK
  <2>4. ASSUME NEW q \in Requests
        PROVE  /\ pc'[q] = "committed" => pc[q] = "committed"
               /\ pc'[q] = "resolving" => rules'[q] # NoRules
    <3>1. CASE q # r
      BY <1>1, <2>1, <3>1 DEF RoundsOK
    <3>2. CASE q = r
      BY <1>1, <2>1, <3>2 DEF RoundsOK
    <3> QED
      BY <3>1, <3>2
  <2> QED
    BY <1>0, <2>1, <2>3, <2>4 DEF RoundsOK
<1> QED
  BY <1>4, <1>5, <1>6, <1>7, <1>8, <1>9, <1>10 DEF RequestStep, Handle

\* Conditions rounds are resolved with rules that are on chain
\* (handlePartnerConditionsResolve and saveConditionsCommit of web/server.mjs),
\* although restarts tear the file and commits fail or interleave.
THEOREM RoundsAlwaysResolveCommittedRules == Spec => []RoundsResolveCommittedRules
<1> DEFINE Inv == ServerInv /\ RoundsOK
<1>1. Init => Inv
  <2>1. ServerInit => RoundsOK
    BY DEF ServerInit, RoundsOK
  <2> QED
    BY <2>1, InitServer DEF Init
<1>2. Inv /\ [Next]_vars => Inv'
  <2> SUFFICES ASSUME ServerInv, RoundsOK, [Next]_vars PROVE RoundsOK'
    BY ServerStep
  <2>2. RequestsOK /\ pc \in [Requests -> PCs]
    BY DEF ServerInv, RequestsOK, ServerTypeOK
  <2>3. CASE \E r \in Requests : RequestStep(r)
    BY <2>2, <2>3, RoundsStep
  <2>4. CASE \E f \in Foreign : ForeignLands(f)
    BY <2>4, RoundsKept DEF ForeignLands, conditionsVars
  <2>5. ASSUME UNCHANGED serverVars PROVE RoundsOK'
    BY <2>5, RoundsKept DEF serverVars
  <2>6. CASE FeedStep
    BY <2>5, <2>6, FeedStepIs
  <2>9. CASE Restart
    <3>1. /\ \A q \in Requests : pc'[q] \in Answered \cup {"idle"}
          /\ store' \in {store, Torn} /\ UNCHANGED <<input, rules, anchored>>
      BY <2>2, <2>9 DEF Restart, Crash, Answered
    <3> QED
      BY <3>1 DEF RoundsOK, Answered
  <2>10. CASE Tick
    BY <2>10, RoundsKept DEF Tick, conditionsVars
  <2>11. CASE UNCHANGED vars
    BY <2>5, <2>11 DEF vars
  <2> QED
    BY <2>3, <2>4, <2>6, <2>9, <2>10, <2>11 DEF Next, RequestStep, FeedStep
<1>3. Inv => RoundsResolveCommittedRules
  BY DEF RoundsOK, RoundsResolveCommittedRules
<1> QED
  BY <1>1, <1>2, <1>3, PTL DEF Spec

-----------------------------------------------------------------------------
(* The history of an artifact. *)

\* What has landed stays landed.
LEMMA AppendKeeps ==
  ASSUME NEW S, NEW s \in Seq(S), NEW x \in S
  PROVE  /\ ToSet(s) \subseteq ToSet(Append(s, x))
         /\ \A i \in DOMAIN s : i \in DOMAIN Append(s, x) /\ Append(s, x)[i] = s[i]
<1>1. Append(s, x) \in Seq(S) /\ Len(Append(s, x)) = Len(s) + 1 /\ Len(s) \in Nat
  BY AppendProperties
<1>2. \A i \in 1..Len(s) : Append(s, x)[i] = s[i]
  BY AppendProperties
<1>3. DOMAIN s = 1..Len(s) /\ DOMAIN Append(s, x) = 1..(Len(s) + 1)
  BY <1>1
<1>4. \A i \in 1..Len(s) : i \in 1..(Len(s) + 1)
  BY <1>1
<1> QED
  BY <1>2, <1>3, <1>4 DEF ToSet

\* The history of an artifact is finite.
LEMMA HistoryIs ==
  ASSUME landed \in Seq(Signatures), NEW a
  PROVE  /\ IsFiniteSet(HistoryOf(a)) /\ HistoryOf(a) \subseteq Nat
         /\ Cardinality(HistoryOf(a)) \in Nat /\ OldestSlot(a) \in Nat
<1>1. DOMAIN landed = 1..Len(landed) /\ Len(landed) \in Nat
  OBVIOUS
<1>2. IsFiniteSet(DOMAIN landed)
  BY <1>1, FS_Interval
<1>3. IsFiniteSet(HistoryOf(a)) /\ HistoryOf(a) \subseteq Nat
  BY <1>1, <1>2, FS_Subset DEF HistoryOf
<1>4. Cardinality(HistoryOf(a)) \in Nat
  BY <1>3, FS_CardinalityType
<1>5. OldestSlot(a) \in Nat
  BY <1>4, FeedAssumption DEF OldestSlot
<1> QED
  BY <1>3, <1>4, <1>5

\* The oldest signature a lookup returns only ever becomes a later one.
LEMMA OldestGrows ==
  ASSUME landed \in Seq(Signatures), NEW s \in Signatures, landed' = Append(landed, s), NEW a
  PROVE  OldestSlot(a)' \in Nat /\ OldestSlot(a) <= OldestSlot(a)'
<1>1. landed' \in Seq(Signatures)
  OBVIOUS
<1>2. \A i \in DOMAIN landed : i \in DOMAIN landed' /\ landed'[i] = landed[i]
  BY AppendKeeps
<1>3. HistoryOf(a) \subseteq HistoryOf(a)'
  BY <1>2 DEF HistoryOf
<1>4. IsFiniteSet(HistoryOf(a)') /\ Cardinality(HistoryOf(a)') \in Nat
  <2>1. DOMAIN landed' = 1..Len(landed') /\ Len(landed') \in Nat
    BY <1>1
  <2>2. IsFiniteSet(DOMAIN landed')
    BY <2>1, FS_Interval
  <2>3. IsFiniteSet(HistoryOf(a)')
    BY <2>2, FS_Subset DEF HistoryOf
  <2> QED
    BY <2>3, FS_CardinalityType
<1>5. Cardinality(HistoryOf(a)) <= Cardinality(HistoryOf(a)')
  BY <1>3, <1>4, FS_Subset
<1>6. Cardinality(HistoryOf(a)) \in Nat
  BY HistoryIs
<1> QED
  BY <1>4, <1>5, <1>6, FeedAssumption DEF OldestSlot

\* A draw that a lookup still returns is not before the oldest it returns.
LEMMA OldestBefore ==
  ASSUME landed \in Seq(Signatures), NEW i \in DOMAIN landed, NEW a, ArtifactOf[landed[i]] = a,
         Cardinality({j \in HistoryOf(a) : j > i}) < HistoryLimit
  PROVE  PlaceOf(i) \in Nat /\ OldestSlot(a) <= PlaceOf(i)
<1> DEFINE before == {j \in HistoryOf(a) : j <= i}
           after == {j \in HistoryOf(a) : j > i}
<1>1. /\ IsFiniteSet(HistoryOf(a)) /\ HistoryOf(a) \subseteq Nat
      /\ i \in Nat /\ i \in HistoryOf(a) /\ Cardinality(HistoryOf(a)) \in Nat
  BY HistoryIs DEF HistoryOf
<1>2. IsFiniteSet(before) /\ IsFiniteSet(after)
  BY <1>1, FS_Subset
<1>3. before \cup after = HistoryOf(a) /\ before \cap after = {}
  BY <1>1
<1>4. Cardinality(before) \in Nat /\ Cardinality(after) \in Nat
  BY <1>2, FS_CardinalityType
<1>5. Cardinality(HistoryOf(a)) = Cardinality(before) + Cardinality(after)
  <2> HIDE DEF before, after
  <2>1. Cardinality(before \cap after) = 0
    BY <1>3, FS_EmptySet
  <2>2. Cardinality(before \cup after) = Cardinality(before) + Cardinality(after) - Cardinality(before \cap after)
    BY <1>2, FS_Union
  <2>3. Cardinality(HistoryOf(a)) = Cardinality(before) + Cardinality(after) - 0
    BY <1>3, <2>1, <2>2, Zenon
  <2> HIDE DEF HistoryOf
  <2> QED
    BY <1>4, <2>3
<1>6. PlaceOf(i) = Cardinality(before)
  BY DEF PlaceOf
<1> HIDE DEF before
<1> QED
  BY <1>4, <1>5, <1>6, FeedAssumption DEF OldestSlot

-----------------------------------------------------------------------------
(* The lists. *)

Draws == ToSet(landed) \ Writes
Verdicts == {"MATCH", "MISMATCH", "none"}
Phases == {"none", "list", "verify", "replay", "slots", "asked"}
Fields == {"phase", "prompt", "todo", "final", "known", "found", "left", "asks", "since", "slots"}

\* A slot that a lookup has returned, or may return.
Slots(a) == {NoSlot} \cup 0..OldestSlot(a)

\* A computation lists draws that landed, no more than are asked for, and takes
\* for final what is.
FlightOK(k) ==
  /\ flight[k].phase \in Phases
  /\ flight[k].phase = "none" => flight[k] = NoFlight
  /\ flight[k].phase # "none" =>
       /\ DOMAIN flight[k] = Fields
       /\ flight[k].found \subseteq Draws /\ Cardinality(flight[k].found) <= k.limit
       /\ flight[k].final \subseteq finalized
       /\ flight[k].phase = "replay" =>
            /\ DOMAIN flight[k].known \subseteq Signatures
            /\ \A s \in DOMAIN flight[k].known : flight[k].known[s] = "MATCH" => s \in Draws
FlightsOK == DOMAIN flight = Keys /\ \A k \in Keys : FlightOK(k)

\* Only verdicts of finalized and blessed signatures are cached, and only draws
\* match.
VerdictsOK ==
  /\ verdict \in [Signatures -> Verdicts]
  /\ finalized \subseteq ToSet(landed)
  /\ \A s \in Signatures : /\ verdict[s] # "none" => s \in finalized \cup ToSet(Blessed)
                           /\ verdict[s] = "MATCH" => s \in Draws

\* A cached list is of draws, and a request that waits has a computation.
ListOK(k) ==
  /\ cache[k] = NoList \/ (cache[k] \subseteq Draws /\ Cardinality(cache[k]) <= k.limit)
  /\ fresh[k] => cache[k] # NoList
  /\ waiting[k] => flight[k].phase # "none"
ListsOK ==
  /\ DOMAIN cache = Keys /\ DOMAIN fresh = Keys /\ DOMAIN waiting = Keys
  /\ \A k \in Keys : ListOK(k)

\* The computation of k waits for the slot of a; the slot it has.
Asking(k, a) == flight[k].phase = "asked" /\ a \in flight[k].asks
Has(k, a) == IF flight[k].phase = "none" THEN NoSlot ELSE flight[k].slots[a]

\* Every slot was returned by a lookup.
BoundOK(a) ==
  /\ slotCache[a] \in Slots(a) /\ slotFile[a] \in Slots(a)
  /\ reported[a] \subseteq 0..OldestSlot(a)
  /\ \A k \in Keys : /\ Has(k, a) \in Slots(a)
                     /\ Asking(k, a) => flight[k].since \in Nat

\* Unless it is in doubt, the slot of an artifact is asked for by one computation,
\* while it is not known; what computations and the file have is what is cached,
\* and what was served is on disk.
SlotOK(a) ==
  /\ \A j, k \in Keys : Asking(j, a) /\ Asking(k, a) => j = k
  /\ \A k \in Keys : /\ Asking(k, a) => slotCache[a] = NoSlot
                     /\ Has(k, a) \in {NoSlot, slotCache[a]}
  /\ slotFile[a] \in {NoSlot, slotCache[a]}
  /\ ~slotDirty => slotFile[a] = slotCache[a]
  /\ reported[a] # {} => /\ slotCache[a] # NoSlot /\ slotFile[a] = slotCache[a]
                         /\ reported[a] = {slotCache[a]}

\* Slots are of artifacts.
FieldsOK(k) ==
  /\ flight[k].phase # "none" => DOMAIN flight[k].slots = Artifacts /\ flight[k].left \subseteq Artifacts
  /\ flight[k].phase = "asked" => flight[k].asks \subseteq Artifacts

SlotsOK ==
  /\ slotCache \in [Artifacts -> Int] /\ slotFile \in [Artifacts -> Int]
  /\ slotDirty \in BOOLEAN
  /\ \A k \in Keys : FieldsOK(k)
  /\ \A a \in Artifacts : BoundOK(a)
  /\ \A a \in Artifacts \ inDoubt : SlotOK(a)

FeedInv == FlightsOK /\ VerdictsOK /\ ListsOK /\ SlotsOK

\* What a new computation is, and no computation.
LEMMA FlightIs ==
  /\ NoFlight.phase = "none"
  /\ DOMAIN NewFlight = Fields /\ NewFlight.phase = "list"
  /\ NewFlight.found = {} /\ NewFlight.final = {} /\ NewFlight.left = {}
  /\ NewFlight.asks = {} /\ NewFlight.slots = [a \in Artifacts |-> NoSlot]
  BY DEF NoFlight, NewFlight, Fields, NoSlots

\* Steps that know no new slot, and ask for none, keep what is known.
LEMMA SlotsKept ==
  ASSUME SlotsOK, UNCHANGED <<landed, slotVars>>,
         \A k \in Keys :
           /\ FieldsOK(k)'
           /\ \A a \in Artifacts :
                /\ Has(k, a)' \in {NoSlot, Has(k, a)}
                /\ Asking(k, a)' => Asking(k, a) /\ flight'[k].since = flight[k].since
  PROVE  SlotsOK'
<1> USE DEF SlotsOK, FieldsOK, slotVars
<1>1. ASSUME NEW a \in Artifacts PROVE BoundOK(a)'
  <2>1. OldestSlot(a)' = OldestSlot(a) /\ Slots(a)' = Slots(a)
    BY DEF OldestSlot, HistoryOf, Slots
  <2>2. BoundOK(a) /\ NoSlot \in Slots(a)
    BY DEF Slots
  <2>3. ASSUME NEW k \in Keys
        PROVE Has(k, a)' \in Slots(a) /\ (Asking(k, a)' => flight'[k].since \in Nat)
    BY <2>2 DEF BoundOK
  <2> QED
    BY <2>1, <2>2, <2>3 DEF BoundOK
<1>2. ASSUME NEW a \in Artifacts \ inDoubt PROVE SlotOK(a)'
  <2>1. SlotOK(a)
    OBVIOUS
  <2>2. \A k \in Keys : Has(k, a)' \in {NoSlot, slotCache[a]}
    BY <2>1 DEF SlotOK
  <2> QED
    BY <2>1, <2>2 DEF SlotOK
<1> QED
  BY <1>1, <1>2

\* A step of the computation of k that is not about slots.
LEMMA FlightStep ==
  ASSUME FeedInv, NEW k \in Keys, UNCHANGED <<landed, finalized, slotVars>>,
         DOMAIN flight' = Keys, \A j \in Keys \ {k} : flight'[j] = flight[j],
         FlightOK(k)', VerdictsOK',
         \/ flight'[k] = flight[k]
         \/ flight'[k] = NoFlight
         \/ flight'[k] = NewFlight
         \/ /\ flight'[k].phase \notin {"none", "asked"} /\ flight[k].phase # "none"
            /\ flight'[k].slots = flight[k].slots /\ flight'[k].left \subseteq Artifacts
  PROVE  FlightsOK' /\ VerdictsOK' /\ SlotsOK'
<1> USE DEF FeedInv
<1>1. Draws' = Draws
  BY DEF Draws
<1>2. FlightsOK'
  BY <1>1 DEF FlightsOK, FlightOK
<1>3. ASSUME NEW j \in Keys
      PROVE  /\ FieldsOK(j)'
             /\ \A a \in Artifacts :
                  /\ Has(j, a)' \in {NoSlot, Has(j, a)}
                  /\ Asking(j, a)' => Asking(j, a) /\ flight'[j].since = flight[j].since
  <2>1. CASE flight'[j] = flight[j]
    BY <2>1 DEF Has, Asking, SlotsOK, FieldsOK
  <2>2. CASE flight'[j] = NoFlight
    BY <2>2, FlightIs DEF Has, Asking, FieldsOK
  <2>3. CASE flight'[j] = NewFlight
    BY <2>3, FlightIs DEF Has, Asking, FieldsOK
  <2>4. CASE /\ flight'[j].phase \notin {"none", "asked"} /\ flight[j].phase # "none"
             /\ flight'[j].slots = flight[j].slots /\ flight'[j].left \subseteq Artifacts
    BY <2>4 DEF Has, Asking, SlotsOK, FieldsOK
  <2> QED
    BY <2>1, <2>2, <2>3, <2>4
<1> QED
  BY <1>2, <1>3, SlotsKept

\* The lists are left alone while a computation goes on.
LEMMA ListsKept ==
  ASSUME FeedInv, NEW k \in Keys, UNCHANGED <<landed, cache, fresh, waiting>>,
         \A j \in Keys \ {k} : flight'[j] = flight[j], flight'[k].phase # "none"
  PROVE  ListsOK'
<1>1. Draws' = Draws
  BY DEF Draws
<1>2. ASSUME NEW j \in Keys PROVE ListOK(j)'
  BY <1>1 DEF FeedInv, ListsOK, ListOK
<1> QED
  BY <1>2 DEF FeedInv, ListsOK

\* Verdicts that are not touched stay right.
LEMMA VerdictsKept ==
  ASSUME VerdictsOK, UNCHANGED <<landed, finalized, verdict>>
  PROVE  VerdictsOK'
  BY DEF VerdictsOK, Draws

\* fetchResolutions starts a computation for who asks, or for who will.
LEMMA ServeStep ==
  ASSUME FeedInv, NEW k \in Keys, Serve(k) \/ (k = WarmKey /\ WarmResolutions)
  PROVE  FeedInv'
<1> USE DEF FeedInv
<1>1. UNCHANGED <<landed, finalized, cache, verdict, slotVars>>
  BY DEF Serve, ServeCached, ServeCold, ListExpires, WarmResolutions, serverVars
<1>2. flight' = flight \/ (flight[k] = NoFlight /\ flight' = [flight EXCEPT ![k] = NewFlight])
  BY DEF Serve, ServeCached, ServeCold, ListExpires, WarmResolutions, Start
<1>3. DOMAIN flight = Keys
  BY DEF FlightsOK
<1>4. /\ DOMAIN flight' = Keys /\ \A j \in Keys \ {k} : flight'[j] = flight[j]
      /\ flight'[k] = flight[k] \/ flight'[k] = NewFlight
  BY <1>2, <1>3
<1>5. Draws' = Draws
  BY <1>1 DEF Draws
<1>6. FlightOK(k)'
  <2>1. CASE flight'[k] = flight[k]
    BY <1>1, <1>5, <2>1 DEF FlightsOK, FlightOK
  <2>2. CASE flight'[k] = NewFlight
    <3>1. k.limit \in Nat
      BY FeedAssumption
    <3>2. Cardinality({}) = 0
      BY FS_EmptySet
    <3> QED
      BY <2>2, <3>1, <3>2, FlightIs DEF FlightOK, Phases
  <2> QED
    BY <1>4, <2>1, <2>2
<1>7. FlightsOK' /\ VerdictsOK' /\ SlotsOK'
  BY <1>1, <1>4, <1>6, FlightStep, VerdictsKept
<1>8. ListsOK'
  <2>1. /\ DOMAIN fresh' = Keys /\ DOMAIN waiting' = Keys
        /\ \A j \in Keys : fresh'[j] => fresh[j] /\ cache[j] # NoList
        /\ \A j \in Keys : waiting'[j] => waiting[j] \/ (j = k /\ flight'[k].phase # "none")
    <3>1. CASE ServeCold(k)
      <4>1. flight'[k].phase # "none"
        BY <1>3, <3>1, FlightIs DEF ServeCold, Start, FlightsOK, FlightOK
      <4> QED
        BY <3>1, <4>1 DEF ServeCold, ListsOK, ListOK
    <3>2. CASE ListExpires(k)
      BY <3>2 DEF ListExpires, ListsOK, ListOK
    <3>3. CASE ServeCached(k) \/ WarmResolutions
      BY <3>3 DEF ServeCached, WarmResolutions, ListsOK, ListOK
    <3> QED
      BY <3>1, <3>2, <3>3 DEF Serve
  <2>2. \A j \in Keys : flight[j].phase # "none" => flight'[j].phase # "none"
    BY <1>4, FlightIs
  <2>3. ASSUME NEW j \in Keys PROVE ListOK(j)'
    BY <1>1, <1>5, <2>1, <2>2 DEF ListsOK, ListOK
  <2> QED
    BY <1>1, <2>1, <2>3 DEF ListsOK
<1> QED
  BY <1>7, <1>8

\* The list of signatures, and the start of a batch: what it reads from the cache
\* are verdicts of draws.
LEMMA FetchStep ==
  ASSUME FeedInv, landed \in Seq(Signatures), NEW k \in Keys,
         ListFetched(k) \/ StartBatch(k) \/ VerifyEnds(k)
  PROVE  FeedInv'
<1> USE DEF FeedInv
<1>1. /\ UNCHANGED <<landed, finalized, cache, fresh, waiting, verdict, slotVars>>
      /\ flight[k].phase \in {"list", "verify"}
  BY DEF ListFetched, StartBatch, VerifyEnds, serverVars
<1>2. DOMAIN flight = Keys /\ FlightOK(k) /\ DOMAIN flight[k] = Fields
  BY <1>1 DEF FlightsOK, FlightOK
<1>3. Draws' = Draws
  BY <1>1 DEF Draws
<1>4. /\ DOMAIN flight' = Keys /\ \A j \in Keys \ {k} : flight'[j] = flight[j]
      /\ DOMAIN flight'[k] = Fields /\ flight'[k].phase \in {"verify", "replay", "slots"}
      /\ flight'[k].slots = flight[k].slots /\ flight'[k].found = flight[k].found
      /\ flight'[k].final \in {flight[k].final, finalized, {}}
      /\ \/ flight'[k].left = flight[k].left
         \/ flight'[k].left = {ArtifactOf[s] : s \in flight[k].found}
      /\ flight'[k].phase = "replay" => flight'[k].known = [s \in InBatch(k, Batch) |-> verdict[s]]
  BY <1>1, <1>2 DEF ListFetched, StartBatch, VerifyEnds, Fields
<1>5. Draws \subseteq Signatures
  BY DEF Draws, ToSet
<1>6. flight'[k].left \subseteq Artifacts
  <2>1. flight[k].left \subseteq Artifacts
    BY <1>1 DEF SlotsOK, FieldsOK
  <2>2. flight[k].found \subseteq Signatures
    BY <1>1, <1>2, <1>5 DEF FlightOK
  <2>3. {ArtifactOf[s] : s \in flight[k].found} \subseteq Artifacts
    BY <2>2, FeedAssumption
  <2> QED
    BY <1>4, <2>1, <2>3
<1>7. FlightOK(k)'
  <2>1. flight'[k].phase = "replay" =>
          /\ DOMAIN flight'[k].known \subseteq Signatures
          /\ \A s \in DOMAIN flight'[k].known : flight'[k].known[s] = "MATCH" => s \in Draws
    <3>1. InBatch(k, Batch) \subseteq Signatures
      BY DEF InBatch
    <3> QED
      BY <1>4, <3>1 DEF VerdictsOK
  <2> QED
    BY <1>1, <1>2, <1>3, <1>4, <2>1 DEF FlightOK, Phases
<1>8. FlightsOK' /\ VerdictsOK' /\ SlotsOK'
  BY <1>1, <1>4, <1>6, <1>7, FlightStep, VerdictsKept
<1>9. ListsOK'
  BY <1>1, <1>4, ListsKept
<1> QED
  BY <1>8, <1>9

\* A computation that fails leaves nothing behind.
LEMMA FailStep ==
  ASSUME FeedInv, NEW k \in Keys, ListFails(k)
  PROVE  FeedInv'
<1> USE DEF FeedInv
<1>1. /\ UNCHANGED <<landed, finalized, cache, fresh, verdict, slotVars>>
      /\ flight' = [flight EXCEPT ![k] = NoFlight] /\ waiting' = [waiting EXCEPT ![k] = FALSE]
  BY DEF ListFails, serverVars
<1>2. /\ DOMAIN flight' = Keys /\ flight'[k] = NoFlight
      /\ \A j \in Keys \ {k} : flight'[j] = flight[j]
  BY <1>1 DEF FlightsOK
<1>3. FlightOK(k)'
  BY <1>2, FlightIs DEF FlightOK, Phases
<1>4. FlightsOK' /\ VerdictsOK' /\ SlotsOK'
  BY <1>1, <1>2, <1>3, FlightStep, VerdictsKept
<1>5. DOMAIN waiting' = Keys /\ ~waiting'[k] /\ \A j \in Keys \ {k} : waiting'[j] = waiting[j]
  BY <1>1 DEF ListsOK
<1>6. Draws' = Draws
  BY <1>1 DEF Draws
<1>7. ASSUME NEW j \in Keys PROVE ListOK(j)'
  BY <1>1, <1>2, <1>5, <1>6 DEF ListsOK, ListOK
<1> QED
  BY <1>1, <1>4, <1>5, <1>7 DEF ListsOK

\* The replays of a batch list draws on the chain only, and what they cache was
\* final when it was listed.
LEMMA BatchStep ==
  ASSUME FeedInv, landed \in Seq(Signatures), NEW k \in Keys, FinishBatch(k)
  PROVE  FeedInv'
<1> USE DEF FeedInv
<1> DEFINE known == flight[k].known
<1>1. /\ UNCHANGED <<landed, finalized, cache, fresh, waiting, slotVars>>
      /\ flight[k].phase = "replay"
  BY DEF FinishBatch, serverVars
<1>2. PICK answer \in BatchAnswers(k) : \E m \in 0..Len(BatchOf(k)) :
        /\ ListsUpto(k, answer, m)
        /\ verdict' = VerdictsAfter(k, answer)
        /\ flight' = [flight EXCEPT ![k].phase = "verify", ![k].known = <<>>, ![k].found = Listed(k, answer, m),
                                    ![k].todo = SubSeq(@, Len(BatchOf(k)) + 1, Len(@))]
  BY Zenon DEF FinishBatch
<1>3. PICK n \in 0..Len(BatchOf(k)) :
        /\ ListsUpto(k, answer, n)
        /\ verdict' = VerdictsAfter(k, answer)
        /\ flight' = [flight EXCEPT ![k].phase = "verify", ![k].known = <<>>, ![k].found = Listed(k, answer, n),
                                    ![k].todo = SubSeq(@, Len(BatchOf(k)) + 1, Len(@))]
  BY <1>2, Zenon
<1>4. DOMAIN flight = Keys /\ FlightOK(k) /\ DOMAIN flight[k] = Fields
  BY <1>1 DEF FlightsOK, FlightOK
<1>5. Draws' = Draws
  BY <1>1 DEF Draws
<1>6. /\ DOMAIN flight' = Keys /\ \A j \in Keys \ {k} : flight'[j] = flight[j]
      /\ DOMAIN flight'[k] = Fields /\ flight'[k].phase = "verify"
      /\ flight'[k].slots = flight[k].slots /\ flight'[k].left = flight[k].left
      /\ flight'[k].final = flight[k].final /\ flight'[k].found = Listed(k, answer, n)
  BY <1>3, <1>4 DEF Fields
<1>7. /\ DOMAIN known \subseteq Signatures /\ answer \in [DOMAIN known -> Verdicts]
      /\ \A s \in DOMAIN known : IF known[s] = "none" THEN answer[s] \in Answers(k, s) ELSE answer[s] = known[s]
  BY <1>1, <1>4 DEF FlightOK, BatchAnswers, Verdicts
<1>8. ASSUME NEW s \in DOMAIN known, answer[s] = "MATCH" PROVE s \in Draws
  <2>1. CASE known[s] # "none"
    BY <1>1, <1>4, <1>7, <1>8, <2>1 DEF FlightOK
  <2>2. CASE known[s] = "none"
    BY <1>7, <1>8, <2>2 DEF Answers, Draws
  <2> QED
    BY <2>1, <2>2
<1>9. Listed(k, answer, n) \subseteq Draws
  <2>1. flight[k].found \subseteq Draws
    BY <1>1, <1>4 DEF FlightOK
  <2> QED
    BY <1>7, <1>8, <2>1 DEF Listed
<1>10. Cardinality(Listed(k, answer, n)) <= k.limit
  BY <1>3 DEF ListsUpto
<1>11. FlightOK(k)'
  BY <1>1, <1>4, <1>5, <1>6, <1>9, <1>10 DEF FlightOK, Phases
<1>12. VerdictsOK'
  <2>1. flight[k].final \subseteq finalized
    BY <1>1, <1>4 DEF FlightOK
  <2>2. ASSUME NEW s \in Signatures
        PROVE  \/ verdict'[s] = verdict[s]
               \/ /\ s \in DOMAIN known /\ verdict'[s] = answer[s]
                  /\ s \in finalized \cup ToSet(Blessed)
    <3>1. CASE s \in DOMAIN known /\ known[s] = "none"
      <4>1. verdict'[s] = CachedVerdict(k, s, answer[s])
        BY <1>3, <1>7, <3>1 DEF VerdictsAfter
      <4> QED
        BY <2>1, <3>1, <4>1 DEF CachedVerdict
    <3>2. CASE ~(s \in DOMAIN known /\ known[s] = "none")
      BY <1>3, <1>7, <3>2 DEF VerdictsAfter
    <3> QED
      BY <3>1, <3>2
  <2>3. \A s \in Signatures : verdict'[s] \in Verdicts
    BY <1>7, <2>2 DEF VerdictsOK
  <2>4. verdict' \in [Signatures -> Verdicts]
    BY <1>3, <2>3 DEF VerdictsAfter
  <2>5. ASSUME NEW s \in Signatures
        PROVE  /\ verdict'[s] # "none" => s \in finalized \cup ToSet(Blessed)
               /\ verdict'[s] = "MATCH" => s \in Draws
    BY <1>8, <2>2 DEF VerdictsOK
  <2> QED
    BY <1>1, <1>5, <2>4, <2>5 DEF VerdictsOK
<1>13. FlightsOK' /\ SlotsOK'
  <2>1. flight'[k].left \subseteq Artifacts
    BY <1>1, <1>6 DEF SlotsOK, FieldsOK
  <2> QED
    BY <1>1, <1>6, <1>11, <1>12, <2>1, FlightStep
<1>14. ListsOK'
  BY <1>1, <1>6, ListsKept
<1> QED
  BY <1>12, <1>13, <1>14

-----------------------------------------------------------------------------
(* The commit slots. *)

\* A step of the computation of k that is about slots leaves the rest alone.
LEMMA SlotFrame ==
  ASSUME FeedInv, NEW k \in Keys, UNCHANGED <<landed, finalized, cache, fresh, waiting, verdict>>,
         DOMAIN flight' = Keys, \A j \in Keys \ {k} : flight'[j] = flight[j],
         flight[k].phase # "none", flight'[k].phase \in {"slots", "asked"}, DOMAIN flight'[k] = Fields,
         flight'[k].found = flight[k].found, flight'[k].final = flight[k].final
  PROVE  FlightsOK' /\ VerdictsOK' /\ ListsOK'
<1>1. Draws' = Draws
  BY DEF Draws
<1>2. FlightOK(k)'
  BY <1>1 DEF FeedInv, FlightsOK, FlightOK, Phases
<1>3. FlightsOK'
  BY <1>1, <1>2 DEF FeedInv, FlightsOK, FlightOK
<1> QED
  BY <1>3, VerdictsKept, ListsKept DEF FeedInv

\* A cached slot is taken, or the address is looked up: of an artifact that is
\* looked up already, the slot is in doubt from now on.
LEMMA LookUpStep ==
  ASSUME FeedInv, landed \in Seq(Signatures), NEW k \in Keys, LookUpSlot(k)
  PROVE  FeedInv'
<1> USE DEF FeedInv
<1>1. /\ UNCHANGED <<landed, finalized, cache, fresh, waiting, verdict,
                     slotCache, slotDirty, slotFile, reported>>
      /\ flight[k].phase = "slots"
  BY DEF LookUpSlot, serverVars
<1>2. /\ DOMAIN flight = Keys /\ DOMAIN flight[k] = Fields
      /\ DOMAIN flight[k].slots = Artifacts /\ flight[k].left \subseteq Artifacts
  BY <1>1 DEF FlightsOK, FlightOK, SlotsOK, FieldsOK
<1>3. PICK a \in flight[k].left :
        IF slotCache[a] # NoSlot
        THEN /\ flight' = [flight EXCEPT ![k].left = @ \ {a}, ![k].slots[a] = slotCache[a]]
             /\ UNCHANGED inDoubt
        ELSE /\ flight' = [flight EXCEPT ![k].left = @ \ {a}, ![k].phase = "asked", ![k].asks = {a},
                                         ![k].since = OldestSlot(a)]
             /\ inDoubt' = IF \E j \in Keys : flight[j].phase = "asked" /\ a \in flight[j].asks
                           THEN inDoubt \cup {a} ELSE inDoubt
  BY Zenon DEF LookUpSlot
<1>4. /\ DOMAIN flight' = Keys /\ \A j \in Keys \ {k} : flight'[j] = flight[j]
      /\ DOMAIN flight'[k] = Fields /\ flight'[k].phase \in {"slots", "asked"}
      /\ flight'[k].found = flight[k].found /\ flight'[k].final = flight[k].final
      /\ flight'[k].left \subseteq Artifacts /\ a \in Artifacts
      /\ inDoubt \subseteq inDoubt'
  BY <1>1, <1>2, <1>3 DEF Fields
<1>5. FlightsOK' /\ VerdictsOK' /\ ListsOK'
  BY <1>1, <1>4, SlotFrame
<1>6. ASSUME NEW b \in Artifacts
      PROVE  OldestSlot(b)' = OldestSlot(b) /\ OldestSlot(b) \in Nat /\ Slots(b)' = Slots(b)
  BY <1>1, HistoryIs DEF OldestSlot, HistoryOf, Slots
<1>7. CASE slotCache[a] # NoSlot
  <2>1. /\ flight'[k].phase = "slots" /\ flight'[k].slots = [flight[k].slots EXCEPT ![a] = slotCache[a]]
        /\ inDoubt' = inDoubt
    BY <1>1, <1>2, <1>3, <1>7 DEF Fields
  <2>2. \A j \in Keys, b \in Artifacts :
          /\ Has(j, b)' \in {Has(j, b), slotCache[b]}
          /\ Asking(j, b)' => Asking(j, b) /\ flight'[j].since = flight[j].since
    BY <1>1, <1>2, <1>4, <2>1 DEF Has, Asking
  <2>3. ASSUME NEW b \in Artifacts PROVE BoundOK(b)'
    BY <1>1, <1>6, <2>2 DEF SlotsOK, FieldsOK, BoundOK
  <2>4. ASSUME NEW b \in Artifacts \ inDoubt PROVE SlotOK(b)'
    BY <1>1, <2>2 DEF SlotsOK, FieldsOK, SlotOK
  <2>5. \A j \in Keys : FieldsOK(j)'
    BY <1>2, <1>4, <2>1 DEF SlotsOK, FieldsOK
  <2> QED
    BY <1>1, <1>5, <2>1, <2>3, <2>4, <2>5 DEF SlotsOK, FieldsOK
<1>8. CASE slotCache[a] = NoSlot
  <2>1. /\ flight'[k].phase = "asked" /\ flight'[k].slots = flight[k].slots
        /\ flight'[k].asks = {a} /\ flight'[k].since = OldestSlot(a)
        /\ inDoubt' = IF \E j \in Keys : Asking(j, a) THEN inDoubt \cup {a} ELSE inDoubt
    BY <1>1, <1>2, <1>3, <1>8 DEF Fields, Asking
  <2>2. \A j \in Keys, b \in Artifacts :
          /\ Has(j, b)' = Has(j, b)
          /\ Asking(j, b)' => \/ Asking(j, b) /\ j # k /\ flight'[j].since = flight[j].since
                              \/ j = k /\ b = a /\ flight'[j].since = OldestSlot(a)
    BY <1>1, <1>4, <2>1 DEF Has, Asking
  <2>3. ASSUME NEW b \in Artifacts PROVE BoundOK(b)'
    <3>1. OldestSlot(a) \in Nat
      BY <1>4, <1>6
    <3> QED
      BY <1>1, <1>6, <2>2, <3>1 DEF SlotsOK, FieldsOK, BoundOK
  <2>4. ASSUME NEW b \in Artifacts \ inDoubt' PROVE SlotOK(b)'
    <3>1. SlotOK(b)
      BY <1>4 DEF SlotsOK, FieldsOK
    <3>2. CASE b = a
      <4>1. \A j \in Keys : ~Asking(j, a)
        BY <2>1, <2>4, <3>2
      <4> QED
        BY <1>1, <1>8, <2>2, <3>1, <3>2, <4>1 DEF SlotOK
    <3>3. CASE b # a
      BY <1>1, <2>2, <3>1, <3>3 DEF SlotOK
    <3> QED
      BY <3>2, <3>3
  <2>5. \A j \in Keys : FieldsOK(j)'
    BY <1>2, <1>4, <2>1 DEF SlotsOK, FieldsOK
  <2> QED
    BY <1>1, <1>5, <2>3, <2>4, <2>5 DEF SlotsOK, FieldsOK
<1> QED
  BY <1>7, <1>8

\* The answer is cached: nobody else has a slot of the artifact, unless it is in
\* doubt.
LEMMA AnswerStep ==
  ASSUME FeedInv, landed \in Seq(Signatures), NEW k \in Keys, SlotAnswered(k)
  PROVE  FeedInv'
<1> USE DEF FeedInv
<1>1. /\ UNCHANGED <<landed, finalized, cache, fresh, waiting, verdict, slotFile, reported, inDoubt>>
      /\ slotDirty' = TRUE /\ flight[k].phase = "asked"
  BY DEF SlotAnswered, serverVars
<1>2. /\ DOMAIN flight = Keys /\ DOMAIN flight[k] = Fields /\ flight[k].asks \subseteq Artifacts
      /\ DOMAIN flight[k].slots = Artifacts /\ flight[k].left \subseteq Artifacts
      /\ slotCache \in [Artifacts -> Int]
  BY <1>1 DEF FlightsOK, FlightOK, SlotsOK, FieldsOK
<1>3. PICK a \in flight[k].asks : \E slot \in flight[k].since..OldestSlot(a) :
        /\ flight' = [flight EXCEPT ![k].phase = "slots", ![k].asks = {}, ![k].since = 0, ![k].slots[a] = slot]
        /\ slotCache' = [slotCache EXCEPT ![a] = slot]
  BY Zenon DEF SlotAnswered
<1>4. PICK slot \in flight[k].since..OldestSlot(a) :
        /\ flight' = [flight EXCEPT ![k].phase = "slots", ![k].asks = {}, ![k].since = 0, ![k].slots[a] = slot]
        /\ slotCache' = [slotCache EXCEPT ![a] = slot]
  BY <1>3, Zenon
<1>5. /\ DOMAIN flight' = Keys /\ \A j \in Keys \ {k} : flight'[j] = flight[j]
      /\ DOMAIN flight'[k] = Fields /\ flight'[k].phase = "slots"
      /\ flight'[k].found = flight[k].found /\ flight'[k].final = flight[k].final
      /\ flight'[k].left = flight[k].left /\ flight'[k].slots = [flight[k].slots EXCEPT ![a] = slot]
      /\ a \in Artifacts /\ Asking(k, a)
  BY <1>1, <1>2, <1>4 DEF Fields, Asking
<1>6. FlightsOK' /\ VerdictsOK' /\ ListsOK'
  BY <1>1, <1>5, SlotFrame
<1>7. ASSUME NEW b \in Artifacts
      PROVE  OldestSlot(b)' = OldestSlot(b) /\ OldestSlot(b) \in Nat /\ Slots(b)' = Slots(b)
  BY <1>1, HistoryIs DEF OldestSlot, HistoryOf, Slots
<1>8. slot \in 0..OldestSlot(a) /\ slot \in Slots(a) /\ slot # NoSlot
  <2>1. flight[k].since \in Nat
    BY <1>5 DEF SlotsOK, FieldsOK, BoundOK
  <2> QED
    BY <1>5, <1>7, <2>1 DEF Slots, NoSlot
<1>9. /\ slotCache' \in [Artifacts -> Int] /\ slotCache'[a] = slot
      /\ \A b \in Artifacts \ {a} : slotCache'[b] = slotCache[b]
  <2>1. slot \in Int
    BY <1>5, <1>7, <1>8
  <2> QED
    BY <1>2, <1>4, <1>5, <2>1
<1>10. \A j \in Keys, b \in Artifacts :
         /\ Has(j, b)' = IF j = k /\ b = a THEN slot ELSE Has(j, b)
         /\ Asking(j, b)' => j # k /\ Asking(j, b) /\ flight'[j].since = flight[j].since
  BY <1>1, <1>2, <1>5 DEF Has, Asking
<1>11. ASSUME NEW b \in Artifacts PROVE BoundOK(b)'
  BY <1>1, <1>7, <1>8, <1>9, <1>10 DEF SlotsOK, FieldsOK, BoundOK
<1>12. ASSUME NEW b \in Artifacts \ inDoubt PROVE SlotOK(b)'
  <2>1. SlotOK(b)
    BY DEF SlotsOK, FieldsOK
  <2>2. CASE b = a
    <3>1. slotCache[a] = NoSlot /\ reported[a] = {} /\ slotFile[a] = NoSlot
      BY <1>5, <2>1, <2>2 DEF SlotOK
    <3>2. \A j \in Keys : ~Asking(j, a)' /\ Has(j, a)' \in {NoSlot, slot}
      BY <1>5, <1>10, <2>1, <2>2, <3>1 DEF SlotOK
    <3> QED
      BY <1>1, <1>9, <2>2, <3>1, <3>2 DEF SlotOK
  <2>3. CASE b # a
    BY <1>1, <1>9, <1>10, <2>1, <2>3 DEF SlotOK
  <2> QED
    BY <2>2, <2>3
<1>13. \A j \in Keys : FieldsOK(j)'
  BY <1>2, <1>5 DEF SlotsOK, FieldsOK
<1> QED
  BY <1>1, <1>6, <1>9, <1>11, <1>12, <1>13 DEF SlotsOK, FieldsOK

\* A lookup that fails: the list goes without the slot.
LEMMA NoAnswerStep ==
  ASSUME FeedInv, NEW k \in Keys, SlotFails(k)
  PROVE  FeedInv'
<1> USE DEF FeedInv
<1>1. /\ UNCHANGED <<landed, finalized, cache, fresh, waiting, verdict, slotVars>>
      /\ flight[k].phase = "asked"
      /\ flight' = [flight EXCEPT ![k].phase = "slots", ![k].asks = {}, ![k].since = 0]
  BY DEF SlotFails, serverVars
<1>2. DOMAIN flight = Keys /\ DOMAIN flight[k] = Fields /\ flight[k].left \subseteq Artifacts
  BY <1>1 DEF FlightsOK, FlightOK, SlotsOK, FieldsOK
<1>3. /\ DOMAIN flight' = Keys /\ \A j \in Keys \ {k} : flight'[j] = flight[j]
      /\ DOMAIN flight'[k] = Fields /\ flight'[k].phase = "slots"
      /\ flight'[k].found = flight[k].found /\ flight'[k].final = flight[k].final
      /\ flight'[k].left = flight[k].left /\ flight'[k].slots = flight[k].slots
  BY <1>1, <1>2 DEF Fields
<1>4. FlightsOK' /\ VerdictsOK' /\ ListsOK'
  BY <1>1, <1>3, SlotFrame
<1>5. FlightOK(k)'
  BY <1>4 DEF FlightsOK
<1> QED
  BY <1>1, <1>2, <1>3, <1>4, <1>5, FlightStep

\* The list is served: what it says of a slot is cached, and on disk, unless the
\* write failed.
LEMMA DoneStep ==
  ASSUME FeedInv, landed \in Seq(Signatures), NEW k \in Keys, ListDone(k)
  PROVE  FeedInv'
<1> USE DEF FeedInv
<1>1. /\ UNCHANGED <<landed, finalized, verdict, slotCache>>
      /\ flight[k].phase = "slots"
      /\ PersistCommitSlotCache /\ slotDirty' = FALSE
      /\ cache' = [cache EXCEPT ![k] = flight[k].found] /\ fresh' = [fresh EXCEPT ![k] = TRUE]
      /\ flight' = [flight EXCEPT ![k] = NoFlight] /\ waiting' = [waiting EXCEPT ![k] = FALSE]
  BY DEF ListDone, Listing, serverVars
<1>2. \A a \in Artifacts : reported'[a] = reported[a] \cup ({Has(k, a)} \ {NoSlot})
  BY <1>1 DEF ListDone, Has
<1>3. /\ DOMAIN flight = Keys /\ FlightOK(k)
      /\ DOMAIN cache = Keys /\ DOMAIN fresh = Keys /\ DOMAIN waiting = Keys
  BY DEF FlightsOK, ListsOK
<1>4. /\ DOMAIN flight' = Keys /\ flight'[k] = NoFlight
      /\ \A j \in Keys \ {k} : flight'[j] = flight[j]
  BY <1>1, <1>3
<1>5. Draws' = Draws /\ Draws \subseteq Signatures
  BY <1>1 DEF Draws, ToSet
<1>6. FlightsOK'
  <2>1. FlightOK(k)'
    BY <1>4, FlightIs DEF FlightOK, Phases
  <2> QED
    BY <1>1, <1>4, <1>5, <2>1 DEF FlightsOK, FlightOK
<1>7. ListsOK'
  <2>1. flight[k].found \subseteq Draws /\ Cardinality(flight[k].found) <= k.limit
    BY <1>1, <1>3 DEF FlightOK
  <2>2. flight[k].found # NoList
    <3>1. "no list" \in NoList
      BY DEF NoList
    <3>2. "no list" \notin flight[k].found
      BY <1>5, <2>1, SignaturesAssumption, Zenon
    <3> QED
      BY <3>1, <3>2, Zenon
  <2>3. ListOK(k)'
    BY <1>1, <1>3, <1>5, <2>1, <2>2 DEF ListOK
  <2>4. ASSUME NEW j \in Keys \ {k} PROVE ListOK(j)'
    BY <1>1, <1>3, <1>4, <1>5 DEF ListsOK, ListOK
  <2> QED
    BY <1>1, <1>3, <2>3, <2>4 DEF ListsOK
<1>8. \A a \in Artifacts : OldestSlot(a)' = OldestSlot(a) /\ Slots(a)' = Slots(a)
  BY <1>1 DEF OldestSlot, HistoryOf, Slots
<1>9. \A j \in Keys, a \in Artifacts :
        /\ Has(j, a)' \in {NoSlot, Has(j, a)}
        /\ Asking(j, a)' => Asking(j, a) /\ flight'[j].since = flight[j].since
  BY <1>4, FlightIs DEF Has, Asking
<1>10. /\ slotFile' \in [Artifacts -> Int] /\ inDoubt \subseteq inDoubt'
       /\ \A a \in Artifacts : slotFile'[a] \in {NoSlot, slotFile[a], slotCache[a]}
       /\ \A a \in Artifacts \ inDoubt' : slotFile'[a] = slotCache[a]
  <2>1. /\ slotFile \in [Artifacts -> Int] /\ slotCache \in [Artifacts -> Int]
        /\ \A a \in Artifacts \ inDoubt : SlotOK(a)
    BY DEF SlotsOK
  <2>2. CASE ~slotDirty /\ UNCHANGED <<slotFile, inDoubt>>
    BY <2>1, <2>2 DEF SlotOK
  <2>3. CASE slotDirty /\ slotFile' = slotCache /\ UNCHANGED inDoubt
    BY <2>1, <2>3
  <2>4. CASE /\ slotFile' \in {slotFile, NoSlots}
             /\ inDoubt' = inDoubt \cup {a \in Artifacts : slotCache[a] # NoSlot}
    <3>1. NoSlots \in [Artifacts -> Int] /\ \A a \in Artifacts : NoSlots[a] = NoSlot
      BY DEF NoSlots, NoSlot
    <3>2. \A a \in Artifacts \ inDoubt' : slotCache[a] = NoSlot /\ slotFile[a] = NoSlot
      BY <2>1, <2>4 DEF SlotOK
    <3> QED
      BY <2>1, <2>4, <3>1, <3>2
  <2> QED
    BY <1>1, <2>2, <2>3, <2>4 DEF PersistCommitSlotCache
<1>11. ASSUME NEW a \in Artifacts PROVE BoundOK(a)'
  <2>1. BoundOK(a) /\ NoSlot \in Slots(a)
    BY DEF SlotsOK, Slots
  <2>2. reported'[a] \subseteq 0..OldestSlot(a)
    BY <1>2, <2>1 DEF BoundOK, Slots
  <2>3. \A j \in Keys : Has(j, a)' \in Slots(a) /\ (Asking(j, a)' => flight'[j].since \in Nat)
    BY <1>9, <2>1 DEF BoundOK
  <2> QED
    BY <1>1, <1>8, <1>10, <2>1, <2>2, <2>3 DEF BoundOK
<1>12. ASSUME NEW a \in Artifacts \ inDoubt' PROVE SlotOK(a)'
  <2>1. SlotOK(a)
    BY <1>10 DEF SlotsOK
  <2>2. \A j \in Keys : Has(j, a)' \in {NoSlot, slotCache[a]}
    BY <1>9, <2>1 DEF SlotOK
  <2>3. /\ slotFile'[a] = slotCache[a]
        /\ reported'[a] # {} => slotCache[a] # NoSlot /\ reported'[a] = {slotCache[a]}
    BY <1>2, <1>10, <2>1 DEF SlotOK
  <2> QED
    BY <1>1, <1>9, <2>1, <2>2, <2>3 DEF SlotOK
<1>13. \A j \in Keys : FieldsOK(j)'
  BY <1>4, FlightIs DEF SlotsOK, FieldsOK
<1>14. SlotsOK'
  BY <1>1, <1>10, <1>11, <1>12, <1>13 DEF SlotsOK
<1> QED
  BY <1>1, <1>6, <1>7, <1>14, VerdictsKept

\* After a restart only the file is left, or not even that.
LEMMA RestartFeed ==
  ASSUME FeedInv, Restart
  PROVE  FeedInv'
<1> USE DEF FeedInv
<1>1. /\ UNCHANGED <<landed, finalized, reported>> /\ slotCache' = slotFile' /\ slotDirty' = FALSE
      /\ cache' = [k \in Keys |-> NoList] /\ fresh' = [k \in Keys |-> FALSE]
      /\ flight' = [k \in Keys |-> NoFlight] /\ waiting' = [k \in Keys |-> FALSE]
      /\ verdict' = [s \in Signatures |-> "none"]
      /\ \/ slotFile' = slotFile /\ inDoubt' = inDoubt
         \/ slotFile' = slotCache /\ inDoubt' = inDoubt
         \/ slotFile' = NoSlots /\ inDoubt' = inDoubt \cup {a \in Artifacts : slotFile[a] # NoSlot}
  BY DEF Restart, Crash
<1>2. FlightsOK'
  BY <1>1, FlightIs DEF FlightsOK, FlightOK, Phases
<1>3. VerdictsOK'
  BY <1>1 DEF VerdictsOK, Verdicts
<1>4. ListsOK'
  BY <1>1 DEF ListsOK, ListOK
<1>5. \A a \in Artifacts : OldestSlot(a)' = OldestSlot(a) /\ Slots(a)' = Slots(a)
  BY <1>1 DEF OldestSlot, HistoryOf, Slots
<1>6. \A j \in Keys, a \in Artifacts : Has(j, a)' = NoSlot /\ ~Asking(j, a)'
  BY <1>1, FlightIs DEF Has, Asking
<1>7. NoSlots \in [Artifacts -> Int] /\ \A a \in Artifacts : NoSlots[a] = NoSlot
  BY DEF NoSlots, NoSlot
<1>8. ASSUME NEW a \in Artifacts PROVE BoundOK(a)'
  <2>1. BoundOK(a) /\ NoSlot \in Slots(a)
    BY DEF SlotsOK, Slots
  <2> QED
    BY <1>1, <1>5, <1>6, <1>7, <2>1 DEF BoundOK
<1>9. ASSUME NEW a \in Artifacts \ inDoubt' PROVE SlotOK(a)'
  <2>1. SlotOK(a)
    BY <1>1 DEF SlotsOK
  <2>2. reported[a] # {} => slotFile'[a] # NoSlot /\ reported[a] = {slotFile'[a]}
    BY <1>1, <1>7, <2>1 DEF SlotOK
  <2> QED
    BY <1>1, <1>6, <2>2 DEF SlotOK
<1>10. slotFile' \in [Artifacts -> Int]
  BY <1>1, <1>7 DEF SlotsOK
<1>11. \A j \in Keys : FieldsOK(j)'
  BY <1>1, FlightIs DEF FieldsOK
<1> QED
  BY <1>1, <1>2, <1>3, <1>4, <1>8, <1>9, <1>10, <1>11 DEF SlotsOK

\* The chain grows: what is listed stays on it, and what a lookup returns is no
\* older than before.
LEMMA LandingFeed ==
  ASSUME FeedInv, landed \in Seq(Signatures), UNCHANGED feedVars,
         landed' = landed \/ \E s \in Signatures : landed' = Append(landed, s)
  PROVE  FeedInv'
<1> USE DEF FeedInv, feedVars, listVars, slotVars
<1>1. ToSet(landed) \subseteq ToSet(landed')
  BY AppendKeeps
<1>2. Draws \subseteq Draws'
  BY <1>1 DEF Draws
<1>3. FlightsOK'
  BY <1>2 DEF FlightsOK, FlightOK
<1>4. VerdictsOK'
  BY <1>1, <1>2 DEF VerdictsOK
<1>5. ListsOK'
  BY <1>2 DEF ListsOK, ListOK
<1>6. ASSUME NEW a \in Artifacts
      PROVE  Slots(a) \subseteq Slots(a)' /\ 0..OldestSlot(a) \subseteq (0..OldestSlot(a))'
  <2>1. CASE landed' = landed
    BY <2>1 DEF OldestSlot, HistoryOf, Slots
  <2>2. CASE \E s \in Signatures : landed' = Append(landed, s)
    <3>1. PICK s \in Signatures : landed' = Append(landed, s)
      BY <2>2
    <3>2. OldestSlot(a) \in Nat /\ OldestSlot(a)' \in Nat /\ OldestSlot(a) <= OldestSlot(a)'
      BY <3>1, HistoryIs, OldestGrows
    <3> QED
      BY <3>2 DEF Slots
  <2> QED
    BY <2>1, <2>2
<1>7. \A j \in Keys, a \in Artifacts : Has(j, a)' = Has(j, a) /\ Asking(j, a)' = Asking(j, a)
  BY DEF Has, Asking
<1>8. ASSUME NEW a \in Artifacts PROVE BoundOK(a)'
  BY <1>6, <1>7 DEF SlotsOK, BoundOK
<1>9. ASSUME NEW a \in Artifacts \ inDoubt PROVE SlotOK(a)'
  BY <1>7 DEF SlotsOK, SlotOK
<1>10. SlotsOK'
  BY <1>8, <1>9 DEF SlotsOK, FieldsOK
<1> QED
  BY <1>3, <1>4, <1>5, <1>10

\* What the feed says stays true (fetchResolutions, computeResolutions and
\* persistCommitSlotCache of web/server.mjs), for every set of keys, signatures
\* and limits: its lists name draws that landed, verdicts are cached of finalized
\* or blessed signatures only, the commit slot of an artifact is not after its
\* recent draws, and it does not change, over restarts and although the history
\* outgrows a lookup, unless it is in doubt.
THEOREM FeedAlwaysSound == Spec => []FeedSound
<1> DEFINE Inv == ServerInv /\ FeedInv
<1>1. Init => Inv
  <2> SUFFICES ASSUME Init PROVE Inv
    OBVIOUS
  <2>1. ServerInv
    BY InitServer DEF Init
  <2>2. /\ landed = <<>> /\ finalized = {} /\ verdict = [s \in Signatures |-> "none"]
        /\ cache = [k \in Keys |-> NoList] /\ fresh = [k \in Keys |-> FALSE]
        /\ flight = [k \in Keys |-> NoFlight] /\ waiting = [k \in Keys |-> FALSE]
        /\ slotCache = NoSlots /\ slotDirty = FALSE /\ slotFile = NoSlots
        /\ reported = [a \in Artifacts |-> {}]
    BY DEF Init, ServerInit
  <2>3. FlightsOK
    BY <2>2, FlightIs DEF FlightsOK, FlightOK, Phases
  <2>4. VerdictsOK /\ ListsOK
    BY <2>2 DEF VerdictsOK, Verdicts, ListsOK, ListOK
  <2>5. NoSlots \in [Artifacts -> Int] /\ \A a \in Artifacts : NoSlots[a] = NoSlot
    BY DEF NoSlots, NoSlot
  <2>6. \A j \in Keys, a \in Artifacts : Has(j, a) = NoSlot /\ ~Asking(j, a) /\ FieldsOK(j)
    BY <2>2, FlightIs DEF Has, Asking, FieldsOK
  <2>7. \A a \in Artifacts : BoundOK(a) /\ SlotOK(a)
    BY <2>2, <2>5, <2>6 DEF BoundOK, SlotOK, Slots
  <2>8. SlotsOK
    BY <2>2, <2>5, <2>6, <2>7, FlightIs DEF SlotsOK, FieldsOK
  <2> QED
    BY <2>1, <2>3, <2>4, <2>8 DEF FeedInv
<1>2. Inv /\ [Next]_vars => Inv'
  <2> SUFFICES ASSUME ServerInv, FeedInv, [Next]_vars PROVE FeedInv'
    BY ServerStep
  <2>1. RequestsOK /\ landed \in Seq(Signatures)
    BY DEF ServerInv, RequestsOK, ServerTypeOK
  <2>2. CASE (\E r \in Requests : RequestStep(r)) /\ UNCHANGED feedVars
    BY <2>1, <2>2, RequestsStep, LandingFeed DEF Signatures
  <2>3. CASE Tick /\ UNCHANGED feedVars
    BY <2>1, <2>3, LandingFeed DEF Tick
  <2>4. CASE \E f \in Foreign : ForeignLands(f)
    BY <2>1, <2>4, LandingFeed DEF ForeignLands, Signatures
  <2>5. CASE \E s \in Signatures : Finalize(s)
    <3>1. /\ UNCHANGED <<landed, cache, fresh, flight, waiting, verdict, slotVars>>
          /\ finalized \subseteq finalized'
          /\ finalized \subseteq ToSet(landed) => finalized' \subseteq ToSet(landed)
      <4>1. PICK s \in Signatures, i \in DOMAIN landed : Finalize(s) /\ landed[i] = s
        BY <2>5 DEF Finalize
      <4>2. s \in ToSet(landed)
        BY <4>1 DEF ToSet
      <4>3. finalized' = finalized \cup {s} /\ UNCHANGED <<serverVars, listVars, verdict, slotVars>>
        BY <4>1 DEF Finalize
      <4> QED
        BY <4>2, <4>3 DEF serverVars, listVars
    <3>2. Draws' = Draws
      BY <3>1 DEF Draws
    <3>3. FlightsOK' /\ VerdictsOK' /\ ListsOK'
      BY <3>1, <3>2 DEF FeedInv, FlightsOK, FlightOK, VerdictsOK, ListsOK, ListOK
    <3>4. SlotsOK'
      BY <3>1, SlotsKept DEF FeedInv, SlotsOK, FieldsOK, Has, Asking
    <3> QED
      BY <3>3, <3>4 DEF FeedInv
  <2>6. CASE WarmResolutions
    BY <2>6, ServeStep, FeedAssumption
  <2>7. ASSUME NEW k \in Keys, Serve(k) PROVE FeedInv'
    BY <2>7, ServeStep
  <2>8. ASSUME NEW k \in Keys, Compute(k) PROVE FeedInv'
    BY <2>1, <2>8, FetchStep, FailStep, BatchStep, LookUpStep, AnswerStep, NoAnswerStep, DoneStep DEF Compute
  <2>9. CASE Restart
    BY <2>9, RestartFeed
  <2>10. CASE UNCHANGED vars
    BY <2>1, <2>10, LandingFeed DEF vars, serverVars
  <2> QED
    BY <2>2, <2>3, <2>4, <2>5, <2>6, <2>7, <2>8, <2>9, <2>10 DEF Next, RequestStep
<1>3. Inv => FeedSound
  <2> SUFFICES ASSUME ServerInv, FeedInv PROVE FeedSound
    OBVIOUS
  <2>1. RequestsOK /\ landed \in Seq(Signatures)
    BY DEF ServerInv, RequestsOK, ServerTypeOK
  <2>2. FeedTypeOK
    <3>1. \A k \in Keys : waiting[k] => flight[k] # NoFlight
      BY FlightIs DEF FeedInv, ListsOK, ListOK
    <3> QED
      BY <2>1, <3>1 DEF RequestsOK, ServerTypeOK, FeedInv, ListsOK, ListOK, VerdictsOK, Draws, FeedTypeOK
  <2>3. CommitSlotKept
    <3>1. ASSUME NEW a \in Artifacts \ inDoubt PROVE Cardinality(reported[a]) <= 1
      <4>1. reported[a] = {} \/ reported[a] = {slotCache[a]}
        BY DEF FeedInv, SlotsOK, SlotOK
      <4>2. Cardinality({}) = 0 /\ Cardinality({slotCache[a]}) = 1
        BY FS_EmptySet, FS_Singleton
      <4> QED
        BY <4>1, <4>2
    <3> QED
      BY <3>1 DEF CommitSlotKept
  <2>4. CommitBeforeDraw
    <3> SUFFICES ASSUME NEW i \in DOMAIN landed, NEW a, a = ArtifactOf[landed[i]],
                        Cardinality({j \in HistoryOf(a) : j > i}) < HistoryLimit,
                        NEW slot \in reported[a]
                 PROVE  slot <= PlaceOf(i)
      BY DEF CommitBeforeDraw
    <3>1. a \in Artifacts
      BY <2>1, FeedAssumption
    <3>2. slot \in 0..OldestSlot(a)
      BY <3>1 DEF FeedInv, SlotsOK, BoundOK
    <3>3. PlaceOf(i) \in Nat /\ OldestSlot(a) <= PlaceOf(i)
      BY <2>1, OldestBefore
    <3>4. OldestSlot(a) \in Nat
      BY <2>1, HistoryIs
    <3> QED
      BY <3>2, <3>3, <3>4
  <2> QED
    BY <2>2, <2>3, <2>4 DEF FeedSound
<1> QED
  BY <1>1, <1>2, <1>3, PTL DEF Spec

=============================================================================
