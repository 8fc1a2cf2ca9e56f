--------------------------- MODULE ResolutionFeed ---------------------------
(***************************************************************************)
(* The lists of recent outcomes that web/server.mjs serves                 *)
(* (fetchResolutions and computeResolutions), together with the draws of   *)
(* DrawServer.  A list is asked for under a key: its length, how many      *)
(* signatures of the program are looked at, and where the blessed ones go. *)
(* Per key a list is computed by replaying the latest signatures two at a  *)
(* time, and cached; an old list is served while a new one is computed,    *)
(* which does not start while a draw writes to the chain.  The             *)
(* computations of several keys run at once and share two caches: the      *)
(* verdicts of finalized transactions, and the slot in which an artifact   *)
(* was committed, which is kept in a file too.                             *)
(*                                                                         *)
(* The slot of a signature is its place in the history of its artifact's   *)
(* address; place 0 is the submission.  verifyOutcome is external here; it *)
(* is modelled in Verifier.                                                *)
(***************************************************************************)
EXTENDS DrawServer, SequencesExt

CONSTANTS
  KeysOf,        \* per case, the keys under which pages ask for lists
  Foreign,       \* signatures other clients make
  OthersOf,      \* per case, those that they do make
  Writes,        \* those among them that are no draws: chunk writes, prepares
  Blessed,       \* loadBlessedSignatures: signatures of other clients, in order
  Artifacts,     \* artifact hashes
  ArtifactOf,    \* the artifact of a signature
  Keys,          \* the keys lists are asked for
  WarmKey,       \* the key warmResolutions asks for
  FetchFactor,   \* signatures fetched per listed draw (4)
  FetchMax,      \* and at most (100)
  HistoryLimit,  \* signatures an address lookup returns (1000)
  Batch          \* VERIFY_BATCH_SIZE (2)

Signatures == Requests \cup Foreign
Unlimited == -1   \* a key without a recentLimit

ASSUME FeedAssumption ==
  /\ Writes \subseteq Foreign /\ Blessed \in Seq(Foreign)
  /\ ArtifactOf \in [Signatures -> Artifacts]
  /\ Keys \subseteq [limit : Nat \ {0}, recent : Nat \cup {Unlimited}, prefer : BOOLEAN, include : BOOLEAN]
  /\ KeysOf \in [Cases -> SUBSET Keys] /\ OthersOf \in [Cases -> SUBSET Foreign]
  /\ WarmKey \in Keys /\ FetchFactor \in Nat \ {0} /\ FetchMax \in Nat \ {0}
  /\ HistoryLimit \in Nat \ {0} /\ Batch \in Nat \ {0}
ASSUME SignaturesAssumption == "no list" \notin Signatures

\* In the other cases nobody asks and RESOLUTIONS_WARM_DISABLED is set.  Time
\* matters to the rate limits only: where pages ask, it stands still.
Visited == KeysOf[input] # {}

VARIABLES
  finalized,   \* signatures whose transaction is finalized
  cache,       \* resolutionsCache: per key the listed signatures, or NoList
  fresh,       \* per key: the cached list has not expired
  flight,      \* resolutionsInFlight: per key the computation under way, or NoFlight
  waiting,     \* per key: a request waits for the computation
  verdict,     \* verifyResultCache: per signature "none", "MATCH" or "MISMATCH"
  slotCache,   \* commitSlotCache: per artifact, or NoSlot
  slotDirty,   \* commitSlotCacheDirty
  slotFile,    \* commit-slot-cache.json, as loadCommitSlotCache reads it
  reported,    \* history: per artifact, the commit slots ever served
  inDoubt      \* history: artifacts that two computations looked up at once, or
               \* whose slot a failed or interrupted write may have lost

listVars == <<cache, fresh, flight, waiting>>
slotVars == <<slotCache, slotDirty, slotFile, reported, inDoubt>>
feedVars == <<finalized, listVars, verdict, slotVars>>
vars == <<serverVars, feedVars>>

NoList == {"no list"}
NoFlight == [phase |-> "none"]
NoSlot == -1
NoSlots == [a \in Artifacts |-> NoSlot]

Init ==
  /\ ServerInit
  /\ finalized = {}
  /\ cache = [k \in Keys |-> NoList] /\ fresh = [k \in Keys |-> FALSE]
  /\ flight = [k \in Keys |-> NoFlight] /\ waiting = [k \in Keys |-> FALSE]
  /\ verdict = [s \in Signatures |-> "none"]
  /\ slotCache = NoSlots /\ slotDirty = FALSE /\ slotFile = NoSlots
  /\ reported = [a \in Artifacts |-> {}] /\ inDoubt = {}

-----------------------------------------------------------------------------
(* The chain. *)

ForeignLands(f) ==
  /\ f \in OthersOf[input] \ ToSet(landed)
  /\ landed' = Append(landed, f)
  /\ UNCHANGED <<input, pc, draw, now, blocked, quota, nullifiers, active, conditionsVars,
                 crashes, accepted, feedVars>>

\* A block is finalized after those before it.  Of the blessed ones nobody asks.
Finalize(s) ==
  /\ Visited /\ s \notin finalized /\ s \notin ToSet(Blessed)
  /\ \E i \in DOMAIN landed : landed[i] = s /\ \A j \in 1..(i - 1) : landed[j] \in finalized \cup ToSet(Blessed)
  /\ finalized' = finalized \cup {s}
  /\ UNCHANGED <<serverVars, listVars, verdict, slotVars>>

\* The places in the chain of an artifact's signatures after its submission.
HistoryOf(a) == {i \in DOMAIN landed : ArtifactOf[landed[i]] = a}

\* Mutant: the newest signature of the lookup is taken.
OldestSlotNewest(a) == Cardinality(HistoryOf(a))
\* The slot of the oldest signature that a lookup of the artifact's address
\* returns: its submission, unless the history is longer than the limit.
OldestSlot(a) ==
  LET length == Cardinality(HistoryOf(a)) + 1
  IN  IF length > HistoryLimit THEN length - HistoryLimit ELSE 0

-----------------------------------------------------------------------------
(* fetchResolutions. *)

NewFlight ==
  [phase |-> "list", prompt |-> FALSE, todo |-> <<>>, final |-> {}, known |-> <<>>, found |-> {},
   left |-> {}, asks |-> {}, since |-> 0, slots |-> NoSlots]

Start(k) == flight' = [flight EXCEPT ![k] = NewFlight]

\* A list that has not expired is returned as it is.  An expired one is
\* returned too, and computed again if no computation runs and no draw does.
ServeCached(k) ==
  /\ cache[k] # NoList /\ ~fresh[k] /\ flight[k] = NoFlight /\ active = 0
  /\ Start(k)
  /\ UNCHANGED <<serverVars, finalized, cache, fresh, waiting, verdict, slotVars>>

\* Without a list, a request waits for the computation, and starts it if there
\* is none.
ServeCold(k) ==
  /\ k \in KeysOf[input] /\ cache[k] = NoList /\ ~waiting[k]
  /\ waiting' = [waiting EXCEPT ![k] = TRUE]
  /\ IF flight[k] = NoFlight THEN Start(k) ELSE UNCHANGED flight
  /\ UNCHANGED <<serverVars, finalized, cache, fresh, verdict, slotVars>>

\* The timer asks too, unless a draw runs; nobody waits for it.
WarmResolutions ==
  /\ WarmKey \in KeysOf[input] /\ active = 0 /\ cache[WarmKey] = NoList /\ flight[WarmKey] = NoFlight
  /\ Start(WarmKey)
  /\ UNCHANGED <<serverVars, finalized, cache, fresh, waiting, verdict, slotVars>>

\* RESOLUTIONS_CACHE_TTL_MS or RESOLUTIONS_EMPTY_CACHE_TTL_MS passes.
ListExpires(k) ==
  /\ fresh[k] /\ fresh' = [fresh EXCEPT ![k] = FALSE]
  /\ UNCHANGED <<serverVars, finalized, cache, flight, waiting, verdict, slotVars>>

-----------------------------------------------------------------------------
(* computeResolutions: the signatures and their replays. *)

Upto(s, n) == SubSeq(s, 1, Min({n, Len(s)}))

FetchLimit(k) == Min({k.limit * FetchFactor, FetchMax})

\* Mutant: the signatures come oldest first.
FetchedOldest(k) == Upto(landed, FetchLimit(k))
\* getSignaturesForAddress: the newest ones of the program, newest first.
Fetched(k) == Upto(Reverse(landed), FetchLimit(k))

\* allSigs: what of these is looked at, and the blessed ones.
Candidates(k) ==
  LET unblessed == SelectSeq(Fetched(k), LAMBDA s : s \notin ToSet(Blessed))
      recent == IF k.recent = Unlimited THEN unblessed ELSE Upto(unblessed, k.recent)
  IN  IF k.prefer THEN Blessed \o recent
      ELSE recent \o (IF k.include THEN Blessed ELSE <<>>)

\* The signatures come with their status, which is not asked again.  The
\* replays of a computation for the timer are prompt, or some may be slow or
\* fail; those of the others may.
ListFetched(k) ==
  /\ flight[k].phase = "list"
  /\ \E prompt \in {FALSE, k = WarmKey} :
       flight' = [flight EXCEPT ![k].phase = "verify", ![k].prompt = prompt, ![k].todo = Candidates(k),
                                ![k].final = finalized]
  /\ UNCHANGED <<serverVars, finalized, cache, fresh, waiting, verdict, slotVars>>

\* Mutant: the failed computation stays in resolutionsInFlight.
ListFailsInFlight(k) ==
  /\ flight[k].phase = "list"
  /\ flight' = [flight EXCEPT ![k].phase = "failed"]
  /\ UNCHANGED <<serverVars, finalized, cache, fresh, waiting, verdict, slotVars>>
\* rpcCallRetry gives up: who waits gets an error.
ListFails(k) ==
  /\ flight[k].phase = "list"
  /\ flight' = [flight EXCEPT ![k] = NoFlight]
  /\ waiting' = [waiting EXCEPT ![k] = FALSE]
  /\ UNCHANGED <<serverVars, finalized, cache, fresh, verdict, slotVars>>

\* What verifyOutcome may answer: a verdict, which depends on accounts and flags
\* that change, or, unless replays are prompt, "none" for a timeout and for
\* TRANSIENT_VERIFY_REASONS.  Only a draw on the chain matches.
Answers(k, s) ==
  IF s \notin ToSet(landed) THEN {"none"}
  ELSE {"MISMATCH"} \cup (IF s \in Writes THEN {} ELSE {"MATCH"})
                  \cup (IF flight[k].prompt THEN {} ELSE {"none"})

BatchOf(k) == Upto(flight[k].todo, Batch)
InBatch(k, n) == Signatures \cap ToSet(Upto(BatchOf(k), n))

\* The next batch, unless the list is full: cached verdicts are read, the other
\* signatures are replayed.
StartBatch(k) ==
  /\ flight[k].phase = "verify" /\ flight[k].todo # <<>> /\ Cardinality(flight[k].found) < k.limit
  /\ flight' = [flight EXCEPT ![k].phase = "replay", ![k].known = [s \in InBatch(k, Batch) |-> verdict[s]]]
  /\ UNCHANGED <<serverVars, finalized, cache, fresh, waiting, verdict, slotVars>>

\* Mutant: verdicts of transactions that are not final are cached, and transient ones.
CachedAnyVerdict(k, s, a) == IF a = "none" THEN "MISMATCH" ELSE a
\* A verdict is cached for good if the signature was final when it was listed.
CachedVerdict(k, s, a) ==
  IF s \in flight[k].final \cup ToSet(Blessed) /\ a # "none" THEN a ELSE verdict[s]

\* The list once the first n answers of the batch are looked at.
Listed(k, answer, n) ==
  flight[k].found \cup {s \in DOMAIN answer : answer[s] = "MATCH" /\ s \in InBatch(k, n)}

\* Matches are listed in order until the list is full.
ListsUpto(k, answer, n) ==
  LET size == Cardinality(Listed(k, answer, n))
  IN  size <= k.limit /\ (n = Len(BatchOf(k)) \/ size = k.limit)

\* What the batch may answer: known verdicts are not asked again.
BatchAnswers(k) ==
  {answer \in [DOMAIN flight[k].known -> {"MATCH", "MISMATCH", "none"}] :
     \A s \in DOMAIN answer :
       IF flight[k].known[s] = "none" THEN answer[s] \in Answers(k, s) ELSE answer[s] = flight[k].known[s]}

\* The cache once the batch has answered.
VerdictsAfter(k, answer) ==
  [s \in Signatures |->
     IF s \in DOMAIN answer /\ flight[k].known[s] = "none" THEN CachedVerdict(k, s, answer[s]) ELSE verdict[s]]

\* The replays of the batch end.
FinishBatch(k) ==
  /\ flight[k].phase = "replay"
  /\ \E answer \in BatchAnswers(k) : \E n \in 0..Len(BatchOf(k)) :
       /\ ListsUpto(k, answer, n)
       /\ verdict' = VerdictsAfter(k, answer)
       /\ flight' = [flight EXCEPT ![k].phase = "verify", ![k].known = <<>>, ![k].found = Listed(k, answer, n),
                                   ![k].todo = SubSeq(@, Len(BatchOf(k)) + 1, Len(@))]
  /\ UNCHANGED <<serverVars, finalized, cache, fresh, waiting, slotVars>>

\* Everything is verified, or the list is full, or RESOLUTIONS_DEADLINE_MS passes,
\* which it does not if replays are prompt.
VerifyEnds(k) ==
  /\ flight[k].phase = "verify"
  /\ flight[k].prompt => flight[k].todo = <<>> \/ Cardinality(flight[k].found) >= k.limit
  /\ flight' = [flight EXCEPT ![k].phase = "slots", ![k].prompt = FALSE, ![k].todo = <<>>, ![k].final = {},
                              ![k].left = {ArtifactOf[s] : s \in flight[k].found}]
  /\ UNCHANGED <<serverVars, finalized, cache, fresh, waiting, verdict, slotVars>>

-----------------------------------------------------------------------------
(* computeResolutions: the commit slots, and the list. *)

\* The artifacts of the list one by one, here in any order: a cached slot is
\* taken; otherwise the artifact's address is looked up.
LookUpSlot(k) ==
  /\ flight[k].phase = "slots"
  /\ \E a \in flight[k].left :
       IF slotCache[a] # NoSlot
       THEN /\ flight' = [flight EXCEPT ![k].left = @ \ {a}, ![k].slots[a] = slotCache[a]]
            /\ UNCHANGED inDoubt
       ELSE /\ flight' = [flight EXCEPT ![k].left = @ \ {a}, ![k].phase = "asked", ![k].asks = {a},
                                        ![k].since = OldestSlot(a)]
            /\ inDoubt' = IF \E j \in Keys : flight[j].phase = "asked" /\ a \in flight[j].asks
                          THEN inDoubt \cup {a} ELSE inDoubt
  /\ UNCHANGED <<serverVars, finalized, cache, fresh, waiting, verdict,
                 slotCache, slotDirty, slotFile, reported>>

\* The answer is as old as the question at most; it replaces what another
\* computation has cached meanwhile.
SlotAnswered(k) ==
  /\ flight[k].phase = "asked"
  /\ \E a \in flight[k].asks : \E slot \in flight[k].since..OldestSlot(a) :
       /\ flight' = [flight EXCEPT ![k].phase = "slots", ![k].asks = {}, ![k].since = 0, ![k].slots[a] = slot]
       /\ slotCache' = [slotCache EXCEPT ![a] = slot]
  /\ slotDirty' = TRUE
  /\ UNCHANGED <<serverVars, finalized, cache, fresh, waiting, verdict, slotFile, reported, inDoubt>>

\* The lookup fails or returns nothing: the list has no slot for the artifact.
SlotFails(k) ==
  /\ flight[k].phase = "asked"
  /\ flight' = [flight EXCEPT ![k].phase = "slots", ![k].asks = {}, ![k].since = 0]
  /\ UNCHANGED <<serverVars, finalized, cache, fresh, waiting, verdict, slotVars>>

\* Mutant: nothing is written.
PersistNothing == UNCHANGED <<slotFile, inDoubt>>
\* persistCommitSlotCache rewrites the file if a slot is new.  A write that fails
\* leaves it as it was or cut off, which reads as empty; it is not tried again.
PersistCommitSlotCache ==
  \/ ~slotDirty /\ UNCHANGED <<slotFile, inDoubt>>
  \/ slotDirty /\ slotFile' = slotCache /\ UNCHANGED inDoubt
  \/ /\ slotDirty /\ slotFile' \in {slotFile, NoSlots}
     /\ inDoubt' = inDoubt \cup {a \in Artifacts : slotCache[a] # NoSlot}

\* All slots are there, or null.
Listing(k) == flight[k].phase = "slots" /\ flight[k].left = {}

\* The list is persisted, cached and served; nothing is awaited in between.
ListDone(k) ==
  /\ Listing(k)
  /\ PersistCommitSlotCache /\ slotDirty' = FALSE
  /\ cache' = [cache EXCEPT ![k] = flight[k].found] /\ fresh' = [fresh EXCEPT ![k] = TRUE]
  /\ reported' = [a \in Artifacts |-> reported[a] \cup ({flight[k].slots[a]} \ {NoSlot})]
  /\ flight' = [flight EXCEPT ![k] = NoFlight] /\ waiting' = [waiting EXCEPT ![k] = FALSE]
  /\ UNCHANGED <<serverVars, finalized, verdict, slotCache>>

-----------------------------------------------------------------------------
(* The specification. *)

\* A restart, in the middle of a write of the file perhaps; loadCommitSlotCache
\* reads what is there.
Restart ==
  /\ Crash
  /\ \/ slotFile' = slotFile /\ UNCHANGED inDoubt
     \/ /\ slotDirty /\ \E k \in Keys : Listing(k)
        /\ \/ slotFile' = slotCache /\ UNCHANGED inDoubt
           \/ slotFile' = NoSlots /\ inDoubt' = inDoubt \cup {a \in Artifacts : slotFile[a] # NoSlot}
  /\ slotCache' = slotFile' /\ slotDirty' = FALSE
  /\ cache' = [k \in Keys |-> NoList] /\ fresh' = [k \in Keys |-> FALSE]
  /\ flight' = [k \in Keys |-> NoFlight] /\ waiting' = [k \in Keys |-> FALSE]
  /\ verdict' = [s \in Signatures |-> "none"]
  /\ UNCHANGED <<finalized, reported>>

Serve(k) == ServeCached(k) \/ ServeCold(k) \/ ListExpires(k)

\* A computation goes on.
Compute(k) ==
  \/ ListFetched(k) \/ ListFails(k) \/ StartBatch(k) \/ FinishBatch(k) \/ VerifyEnds(k)
  \/ LookUpSlot(k) \/ SlotAnswered(k) \/ SlotFails(k) \/ ListDone(k)

Next ==
  \/ /\ \/ \E r \in Requests : Handle(r) \/ DrawStep(r) \/ DrawTimesOut(r)
        \/ ~Visited /\ Tick
     /\ UNCHANGED feedVars
  \/ \E f \in Foreign : ForeignLands(f)
  \/ \E s \in Signatures : Finalize(s)
  \/ \E k \in Keys : Serve(k) \/ Compute(k)
  \/ WarmResolutions
  \/ Restart

Spec == Init /\ [][Next]_vars

\* The timer keeps asking, lists expire, every promise settles, and the cluster
\* finalizes what it has.  The node is not slow or failing for ever: of the lists
\* asked for again and again one comes, and all its replays end with a verdict, in
\* time.  (A draw whose replay always throws is never listed.)
FairSpec ==
  /\ Spec
  /\ WF_vars(\E r \in Requests : (DrawReturns(r) \/ DrawThrows(r)) /\ UNCHANGED feedVars)
  /\ WF_vars(\E s \in Signatures : Finalize(s))
  /\ WF_vars(ServeCached(WarmKey) \/ WarmResolutions \/ ListExpires(WarmKey))
  /\ \A k \in Keys : WF_vars(Compute(k))
  /\ SF_vars(ListFetched(WarmKey) /\ flight'[WarmKey].prompt)

-----------------------------------------------------------------------------
(* Properties. *)

\* The feed has its type, and lists only settled draws.
FeedTypeOK ==
  /\ \A k \in Keys :
       /\ cache[k] = NoList \/ (cache[k] \subseteq ToSet(landed) \ Writes /\ Cardinality(cache[k]) <= k.limit)
       /\ fresh[k] => cache[k] # NoList
       /\ waiting[k] => flight[k] # NoFlight
  /\ finalized \subseteq ToSet(landed)
  /\ \A s \in Signatures : verdict[s] # "none" => s \in finalized \cup ToSet(Blessed)
  /\ now \in 0..MaxTime /\ crashes \in 0..MaxCrashes[input]

\* The commit slot of an artifact does not change once it was served, over
\* restarts and although its history outgrows what one lookup returns, unless
\* two computations looked it up at once or its write failed or was cut off.
CommitSlotKept == \A a \in Artifacts \ inDoubt : Cardinality(reported[a]) <= 1

\* The place of a draw in the history of its artifact.
PlaceOf(i) == Cardinality({j \in HistoryOf(ArtifactOf[landed[i]]) : j <= i})

\* A commit slot that was served is not after any draw with the artifact that a
\* lookup still returns, so that a recent draw is shown after its commitment.
CommitBeforeDraw ==
  \A i \in DOMAIN landed :
    LET a == ArtifactOf[landed[i]]
    IN  Cardinality({j \in HistoryOf(a) : j > i}) < HistoryLimit
          => \A slot \in reported[a] : slot <= PlaceOf(i)

\* What the feed says of a draw stays true: only settled draws are listed, a
\* commitment is shown before its recent draws, and neither a restart nor a
\* longer history changes its slot.
FeedSound == FeedTypeOK /\ CommitSlotKept /\ CommitBeforeDraw

\* As many signatures as one computation looks at came after s.
Crowded(s) ==
  \E i \in DOMAIN landed :
    LET later == {j \in DOMAIN landed : j > i} IN
    /\ landed[i] = s
    /\ \/ Cardinality(later) >= FetchLimit(WarmKey)
       \/ /\ WarmKey.recent # Unlimited
          /\ Cardinality({j \in later : landed[j] \notin ToSet(Blessed)}) >= WarmKey.recent

\* Every draw is listed in the end, whatever failed, timed out or was restarted
\* on the way, unless newer signatures crowd it out, other draws fill the list,
\* or it was judged a MISMATCH, which is not judged again.
SettledIsListed ==
  \A s \in Signatures \ (Writes \cup ToSet(Blessed)) :
    (Visited /\ s \in ToSet(landed)) ~>
      \/ s \in cache[WarmKey] \/ verdict[s] = "MISMATCH" \/ Crowded(s)
      \/ cache[WarmKey] # NoList /\ Cardinality(cache[WarmKey]) = WarmKey.limit

\* A request that finds no list is answered.
ColdRequestsAnswered == \A k \in Keys : waiting[k] ~> ~waiting[k]

=============================================================================
