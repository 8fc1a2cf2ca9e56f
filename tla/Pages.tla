------------------------------- MODULE Pages -------------------------------
(***************************************************************************)
(* The two interactive web pages, each one browser tab:                    *)
(*   - window.vreWallet of main.js, which both load: the wallets that      *)
(*     registered, connecting, disconnecting, change notifications;        *)
(*   - the live raffle card of play.js: one draw from click to verdict;    *)
(*   - the panel of verify.js: the last verification, the "did I win"      *)
(*     verdict for the connected address, the Merkle check of one id.      *)
(* The tab is single threaded: a step is what runs between two awaits or   *)
(* one event handler, and it renders what it assigns.  Steps of the user,  *)
(* of the wallets and of the server's answers interleave freely.           *)
(* External: the wallets (they announce a change as they make it), the     *)
(* server, World ID.  No legacy provider is injected (window.solana).      *)
(***************************************************************************)
EXTENDS Naturals, Sequences, SequencesExt

CONSTANTS
  Wallets,       \* wallets installed in the browser
  Disconnecting, \* the ones that implement standard:disconnect
  Addresses,     \* accounts the wallets can report
  Signatures,    \* draws a user verifies
  Ids,           \* participants a user asks about
  Members,       \* Members[sig]: the committed list of that draw
  Nothing,       \* no account, no answer, no result
  MaxSwitches,   \* bound: account changes made in a wallet's own interface
  MaxDraws,      \* bound: raffles started from the card
  MaxVerifies,   \* bound: verifications started
  MaxChecks      \* bound: participant checks started

ASSUME PagesAssumption ==
  /\ Disconnecting \subseteq Wallets
  /\ Members \in [Signatures -> SUBSET Ids]
  /\ Addresses \cap {Nothing, "not-installed", "not-connected"} = {}
  /\ {MaxSwitches, MaxDraws, MaxVerifies, MaxChecks} \subseteq Nat

VARIABLES
  page,        \* the page of this tab
  registry,    \* walletRegistry: in order of registration
  account,     \* the account each wallet reports
  detached,    \* walletDetached
  connecting,  \* connect calls the wallets have not answered
  dropping,    \* the position of disconnect's loop, 0 when none runs
  view,        \* liveRaffleWallet or walletState: an address or a status
  switches,    \* bound counter
  missed,      \* history: the card ignored a change since view was assigned
  left         \* history: the user disconnected and asked for nothing since

walletVars == <<registry, account, detached, connecting, dropping, switches, missed, left>>

VARIABLES
  card,        \* liveRaffleState
  health,      \* the answer of /api/health
  worldId,     \* worldIdRequired
  raffles,     \* the calls of startLiveRaffle in flight
  started,     \* bound counter
  result       \* the draw of the last result card

cardVars == <<card, health, worldId, raffles, started, result>>

VARIABLES
  auto,        \* the run started by a ?sig= link has not begun
  disabled,    \* of the verify button
  verifying,   \* verifications the server has not answered
  verifies,    \* bound counter
  lastVerifyResult,
  panel,       \* what result-details shows
  checks,      \* participant checks the server has not answered
  checked,     \* bound counter
  lastSnapshotProof

panelVars == <<auto, disabled, verifying, verifies, lastVerifyResult, panel, checks, checked,
               lastSnapshotProof>>

pagesVars == <<page, view, walletVars, cardVars, panelVars>>

-----------------------------------------------------------------------------
(* What the wallets say.                                                   *)

\* The first registered wallet that reports an account speaks for the browser.
FirstAccount(reg, acc) ==
  LET with == {i \in DOMAIN reg : acc[reg[i]] # Nothing}
  IN  IF with = {} THEN "not-connected"
      ELSE acc[reg[CHOOSE i \in with : \A j \in with : i <= j]]

\* Mutant: a wallet that keeps reporting its account undoes a disconnect.
ReadAttached(reg, acc, det) ==
  IF reg = <<>> THEN "not-installed" ELSE FirstAccount(reg, acc)

\* readConnected: nothing, as long as the user has disconnected here.
ReadConnected(reg, acc, det) ==
  CASE reg = <<>>          -> "not-installed"
    [] reg # <<>> /\ det   -> "not-connected"
    [] OTHER               -> FirstAccount(reg, acc)

IsAddress(v) == v \in Addresses

-----------------------------------------------------------------------------
(* Rendering.                                                              *)

\* The card of a wallet state, as every caller of renderLiveRaffle picks it.
CardOf(v) == IF v = "not-installed" THEN "not-installed" ELSE "idle"

NoPanel == [sig |-> Nothing, status |-> "none", address |-> Nothing, check |-> Nothing]

\* renderDetails: everything is built anew, the answer of a check goes.  The
\* verdict about an address is part of a MATCH only.
Details(r, v) ==
  [sig |-> r.sig, status |-> r.status,
   address |-> IF r.status = "MATCH" /\ IsAddress(v) THEN v ELSE Nothing,
   check |-> Nothing]

\* The element snapshot-check-result exists in the details of a match.
HasCheck == panel.status = "MATCH"

\* Mutant: the panel keeps what it was drawn with.
RerenderNothing(v) == panel

\* The details are drawn again for another wallet state.
Rerender(v) == IF lastVerifyResult = Nothing THEN panel ELSE Details(lastVerifyResult, v)

\* Assigning a wallet state outside the listener: both pages render it.
Assign(v, c) ==
  /\ view' = v /\ missed' = FALSE
  /\ card' = IF page = "play" THEN c ELSE card
  /\ panel' = IF page = "verify" THEN Rerender(v) ELSE panel

\* Mutant: a draw in flight follows the wallet.
IgnoresOnlyResult == card = "result"

\* The card ignores a change while a draw is in flight and once it has its result.
Ignores == card \in {"loading", "result"}

\* The callback of onChange on each page.
Notify(v) ==
  IF page = "play" /\ Ignores
  THEN missed' = TRUE /\ UNCHANGED <<view, card, panel>>
  ELSE Assign(v, CardOf(v))

Idle == <<health, worldId, raffles, started, result, auto, disabled, verifying, verifies, lastVerifyResult, checks,
          checked, lastSnapshotProof>>

-----------------------------------------------------------------------------
(* main.js                                                                 *)

\* registerWallet: the wallet announced itself, before or after the page loaded.
RegisterWallet(w) ==
  /\ \A i \in DOMAIN registry : registry[i] # w
  /\ registry' = Append(registry, w)
  /\ Notify(ReadConnected(registry', account, detached))
  /\ UNCHANGED <<page, account, detached, connecting, dropping, switches, left, Idle>>

\* The user switches, authorises or removes an account inside the wallet; a
\* registered wallet tells the page.
WalletSwitches(w, a) ==
  /\ switches < MaxSwitches /\ a # account[w]
  /\ switches' = switches + 1
  /\ account' = [account EXCEPT ![w] = a]
  /\ IF \E i \in DOMAIN registry : registry[i] = w
     THEN Notify(ReadConnected(registry, account', detached))
     ELSE UNCHANGED <<view, card, panel, missed>>
  /\ UNCHANGED <<page, registry, detached, connecting, dropping, left, Idle>>

\* The connect buttons are those of an idle card, or of the verdict's place in
\* the panel, without an address.
ConnectOffered ==
  /\ ~IsAddress(view)
  /\ \/ page = "play" /\ card = "idle"
     \/ page = "verify" /\ panel.status = "MATCH" /\ lastVerifyResult # Nothing

\* connect up to its await.
Connect(w) ==
  /\ ConnectOffered
  /\ \E i \in DOMAIN registry : registry[i] = w
  /\ w \notin connecting
  /\ connecting' = connecting \cup {w}
  /\ detached' = FALSE /\ left' = FALSE
  /\ UNCHANGED <<page, view, registry, account, dropping, switches, missed, cardVars, panelVars>>

\* The wallet answers with an account (its change event comes first and is
\* overwritten by what the call returns).
ConnectApproved(w, a) ==
  /\ w \in connecting
  /\ connecting' = connecting \ {w}
  /\ account' = [account EXCEPT ![w] = a]
  /\ Assign(a, "idle")
  /\ UNCHANGED <<page, registry, detached, dropping, switches, left, Idle>>

\* The wallet answers without one: "Wallet not connected" on the card.
ConnectEmpty(w) ==
  /\ w \in connecting
  /\ connecting' = connecting \ {w}
  /\ account' = [account EXCEPT ![w] = Nothing]
  /\ Assign("not-connected", "error")
  /\ UNCHANGED <<page, registry, detached, dropping, switches, left, Idle>>

\* The user closes the wallet's window: connect throws.  The card keeps its
\* wallet state, the panel gives its own up.
ConnectRefused(w) ==
  /\ w \in connecting
  /\ connecting' = connecting \ {w}
  /\ IF page = "play"
     THEN card' = "error" /\ UNCHANGED <<view, panel, missed>>
     ELSE Assign("not-connected", card)
  /\ UNCHANGED <<page, registry, account, detached, dropping, switches, left, Idle>>

\* The next wallet the loop of disconnect waits for, after position i.
NextDropping(i) ==
  LET rest == {j \in DOMAIN registry : j > i /\ registry[j] \in Disconnecting}
  IN  IF rest = {} THEN 0 ELSE CHOOSE j \in rest : \A k \in rest : j <= k

\* The end of disconnect and its callers: notify, then assign what is read.
Disconnected(acc, det) ==
  LET v == ReadConnected(registry, acc, det)
  IN  Assign(v, CardOf(v)) /\ left' = (connecting = {} /\ det)

\* disconnect up to its first await, or to its end where no wallet has the
\* feature.
Disconnect ==
  /\ IsAddress(view) /\ dropping = 0
  /\ \/ page = "play" /\ card = "idle"
     \/ page = "verify" /\ panel.address # Nothing /\ lastVerifyResult # Nothing
  /\ detached' = TRUE
  /\ dropping' = NextDropping(0)
  /\ IF dropping' = 0
     THEN Disconnected(account, TRUE)
     ELSE UNCHANGED <<view, card, panel, missed, left>>
  /\ UNCHANGED <<page, registry, account, connecting, switches, Idle>>

\* One wallet of the loop answers: it drops its account, announcing it, or it
\* refuses; then the loop goes on or ends.
WalletDrops(dropped) ==
  LET acc == IF dropped THEN [account EXCEPT ![registry[dropping]] = Nothing] ELSE account
      changed == acc # account
  IN  /\ dropping > 0
      /\ account' = acc
      /\ dropping' = NextDropping(dropping)
      /\ CASE dropping' = 0            -> Disconnected(acc, detached)
           [] dropping' > 0 /\ changed -> Notify(ReadConnected(registry, acc, detached)) /\ UNCHANGED left
           [] OTHER                    -> UNCHANGED <<view, card, panel, missed, left>>
      /\ UNCHANGED <<page, registry, detached, connecting, switches, Idle>>

-----------------------------------------------------------------------------
(* play.js: the live raffle card.                                          *)

\* loadHealth answers after the card was drawn: it is drawn again.
HealthLoads(enabled) ==
  /\ page = "play" /\ health = "pending"
  /\ health' = IF enabled THEN "enabled" ELSE "disabled"
  /\ worldId' = (worldId /\ enabled)
  /\ card' = CardOf(view)
  /\ UNCHANGED <<page, view, walletVars, raffles, started, result, panelVars>>

\* It fails: the card stays as it is.
HealthFails ==
  /\ page = "play" /\ health = "pending"
  /\ health' = "failed"
  /\ UNCHANGED <<page, view, walletVars, card, worldId, raffles, started, result, panelVars>>

\* The checkbox is enabled where the host has World ID.
ToggleWorldId ==
  /\ page = "play" /\ card = "idle" /\ health = "enabled"
  /\ worldId' = ~worldId
  /\ card' = CardOf(view)
  /\ UNCHANGED <<page, view, walletVars, health, raffles, started, result, panelVars>>

\* "Try again" of the error card: the wallet is not read again.
Reset ==
  /\ page = "play" /\ card = "error"
  /\ card' = CardOf(view)
  /\ UNCHANGED <<page, view, walletVars, health, worldId, raffles, started, result, panelVars>>

\* Nothing else can touch the card: no draw, wallet call or health request is
\* outstanding.
Quiet ==
  connecting = {} /\ dropping = 0 /\ health # "pending" /\ raffles = <<>>

\* startLiveRaffle up to its first await; the button is there on an idle card
\* with an address.
StartLiveRaffle ==
  /\ page = "play" /\ card = "idle" /\ IsAddress(view) /\ started < MaxDraws
  /\ started' = started + 1
  /\ raffles' = Append(raffles,
       [stage   |-> IF worldId THEN "context" ELSE "posted",
        clicked |-> view,
        proof   |-> IF worldId THEN view ELSE Nothing,
        entered |-> IF worldId THEN Nothing ELSE view,
        judged  |-> Nothing,
        quiet   |-> Quiet])
  /\ card' = "loading"
  /\ UNCHANGED <<page, view, walletVars, health, worldId, result, panelVars>>

\* requestWorldIdProof has its context; it shows the connector if there is one.
ProofRequested(i, connector) ==
  /\ raffles[i].stage = "context"
  /\ raffles' = [raffles EXCEPT ![i].stage = "approval"]
  /\ card' = IF connector THEN "loading" ELSE card
  /\ UNCHANGED <<page, view, walletVars, health, worldId, started, result, panelVars>>

\* The proof is there: the raffle is posted for the wallet of this moment.
ProofApproved(i) ==
  /\ raffles[i].stage = "approval"
  /\ raffles' = [raffles EXCEPT ![i].stage = "posted", ![i].entered = view]
  /\ card' = "loading"
  /\ UNCHANGED <<page, view, walletVars, health, worldId, started, result, panelVars>>

\* /api/live-raffle answers with a signature; it refuses what is no address.
RaffleDrawn(i) ==
  /\ raffles[i].stage = "posted" /\ IsAddress(raffles[i].entered)
  /\ raffles' = [raffles EXCEPT ![i].stage = "replay"]
  /\ UNCHANGED <<page, view, walletVars, card, health, worldId, started, result, panelVars>>

\* /api/replay answers MATCH: the verdict is for the wallet of this moment.
ReplayMatches(i) ==
  /\ raffles[i].stage = "replay"
  /\ result' = [raffles[i] EXCEPT !.stage = "result", !.judged = view]
  /\ raffles' = RemoveAt(raffles, i)
  /\ card' = "result"
  /\ UNCHANGED <<page, view, walletVars, health, worldId, started, panelVars>>

\* Any of the awaits throws, or the replay does not match.
RaffleFails(i) ==
  /\ raffles' = RemoveAt(raffles, i)
  /\ card' = "error"
  /\ UNCHANGED <<page, view, walletVars, health, worldId, started, result, panelVars>>

-----------------------------------------------------------------------------
(* verify.js: the panel.                                                   *)

\* runFromForm: by the button, by Enter, or by the timer of a ?sig= link,
\* which does not look at the button.
RunFromForm(sig, timer) ==
  /\ page = "verify" /\ verifies < MaxVerifies
  /\ IF timer THEN auto ELSE ~disabled
  /\ sig \notin verifying
  /\ auto' = (auto /\ ~timer)
  /\ verifies' = verifies + 1
  /\ disabled' = TRUE
  /\ lastVerifyResult' = Nothing
  /\ verifying' = verifying \cup {sig}
  /\ UNCHANGED <<page, view, walletVars, cardVars, panel, checks, checked, lastSnapshotProof>>

\* verify answers or throws: renderResult.
VerifyAnswers(sig, status) ==
  LET r == [sig |-> sig, status |-> status]
  IN  /\ sig \in verifying
      /\ verifying' = verifying \ {sig}
      /\ disabled' = FALSE
      /\ lastVerifyResult' = r
      /\ panel' = IF status = "ERROR" THEN NoPanel ELSE Details(r, view)
      /\ UNCHANGED <<page, view, walletVars, cardVars, auto, verifies, checks, checked, lastSnapshotProof>>

\* runSnapshotCheck up to its await: it remembers the result it is about.
RunSnapshotCheck(id) ==
  /\ page = "verify" /\ checked < MaxChecks
  /\ lastVerifyResult # Nothing /\ HasCheck /\ lastVerifyResult.status = "MATCH"
  /\ checked' = checked + 1
  /\ checks' = checks \cup {[sig |-> lastVerifyResult.sig, id |-> id]}
  /\ lastSnapshotProof' = Nothing
  /\ panel' = [panel EXCEPT !.check = [kind |-> "loading"]]
  /\ UNCHANGED <<page, view, walletVars, cardVars, auto, disabled, verifying, verifies, lastVerifyResult>>

\* Mutant: the proof is checked against the draw the panel shows by now.
ProofLeadsToShownRoot(c, who) == panel.sig # Nothing => who \in Members[panel.sig]

\* A proof is believed where it leads to the root of the captured result: with
\* ideal hashes, where the participant is in that draw's committed list.
ProofLeadsToRoot(c, who) == who \in Members[c.sig]

\* The answer, whichever draw the panel shows by now.
CheckAnswers(c, answer, who) ==
  LET proved == answer = "participant" /\ ProofLeadsToRoot(c, who)
      kind   == IF proved THEN "proved" ELSE IF answer = "absent" THEN "absent" ELSE "error"
      proof  == [sig |-> c.sig, who |-> who]
  IN  /\ c \in checks
      /\ checks' = checks \ {c}
      /\ lastSnapshotProof' = IF proved THEN proof ELSE lastSnapshotProof
      /\ panel' = IF HasCheck
                  THEN [panel EXCEPT !.check = [kind |-> kind, proof |-> IF proved THEN proof ELSE Nothing]]
                  ELSE panel
      /\ UNCHANGED <<page, view, walletVars, cardVars, auto, disabled, verifying, verifies,
                     lastVerifyResult, checked>>

-----------------------------------------------------------------------------
PagesInit ==
  /\ page \in {"play", "verify"}
  /\ registry = <<>> /\ account \in [Wallets -> Addresses \cup {Nothing}]
  /\ detached = FALSE /\ connecting = {} /\ dropping = 0 /\ switches = 0
  /\ view = "not-installed" /\ missed = FALSE /\ left = FALSE
  /\ card = "not-installed" /\ health = "pending" /\ worldId = FALSE
  /\ raffles = <<>> /\ started = 0 /\ result = Nothing
  /\ auto \in BOOLEAN /\ (page = "play" => ~auto)
  /\ disabled = FALSE /\ verifying = {} /\ verifies = 0
  /\ lastVerifyResult = Nothing /\ panel = NoPanel
  /\ checks = {} /\ checked = 0 /\ lastSnapshotProof = Nothing

WalletStep ==
  \E w \in Wallets :
    \/ RegisterWallet(w)
    \/ \E a \in Addresses \cup {Nothing} : WalletSwitches(w, a)
    \/ Connect(w)
    \/ \E a \in Addresses : ConnectApproved(w, a)
    \/ ConnectEmpty(w)
    \/ ConnectRefused(w)

RaffleStep ==
  \E i \in DOMAIN raffles :
    \/ \E connector \in BOOLEAN : ProofRequested(i, connector)
    \/ ProofApproved(i)
    \/ RaffleDrawn(i)
    \/ ReplayMatches(i)
    \/ RaffleFails(i)

PagesNext ==
  \/ WalletStep
  \/ Disconnect
  \/ \E dropped \in BOOLEAN : WalletDrops(dropped)
  \/ \E enabled \in BOOLEAN : HealthLoads(enabled)
  \/ HealthFails
  \/ ToggleWorldId
  \/ Reset
  \/ StartLiveRaffle
  \/ RaffleStep
  \/ \E sig \in Signatures, timer \in BOOLEAN : RunFromForm(sig, timer)
  \/ \E sig \in Signatures, status \in {"MATCH", "MISMATCH", "ERROR"} : VerifyAnswers(sig, status)
  \/ \E id \in Ids : RunSnapshotCheck(id)
  \/ \E c \in checks, answer \in {"participant", "absent", "error"}, who \in Ids :
       CheckAnswers(c, answer, who)

PagesSpec == PagesInit /\ [][PagesNext]_pagesVars

-----------------------------------------------------------------------------
(* Properties.                                                             *)

\* Some registered wallet reports the address now.
Held(a) == \E i \in DOMAIN registry : account[registry[i]] = a

\* An address on a page is one the user still has: the verdict in the panel is
\* drawn again whenever the wallet moves, and the card follows the wallet
\* except for the changes it ignores during a draw and after it.
AddressesAreHeld ==
  /\ IsAddress(view) => Held(view) \/ (page = "play" /\ missed)
  /\ panel.address # Nothing /\ lastVerifyResult # Nothing =>
       panel.address = view /\ Held(panel.address)

\* Disconnecting means the same with every wallet: until the user connects
\* again no address comes back, whatever the wallets report, register or
\* switch to.  (A connect call that was open when disconnect ended may still
\* bring one.)
DisconnectHolds == left => ~IsAddress(view)

\* What a page says of wallets, through late registrations, switches inside a
\* wallet, refused calls and disconnects that take their time.
WalletViewSound == AddressesAreHeld /\ DisconnectHolds

\* A draw that was started while nothing else was outstanding is never
\* stomped: the card waits for it, and the address the user clicked with is
\* the one the proof is bound to, the one entered and the one judged, although
\* the code reads the wallet anew at each of these moments.
EntrantIsJudged ==
  /\ \A i \in DOMAIN raffles :
       raffles[i].quiet =>
         /\ card = "loading" /\ view = raffles[i].clicked
         /\ raffles[i].entered \in {raffles[i].clicked, Nothing}
  /\ result # Nothing /\ result.quiet =>
       /\ result.entered = result.clicked /\ result.judged = result.clicked
       /\ result.proof \in {result.clicked, Nothing}

\* A participant shown as proved is in the committed list of the draw the
\* check was started for, and the proof on offer for download is that one,
\* whatever was verified or checked in between.
ShownProofIsOffered ==
  panel.check # Nothing /\ panel.check.kind = "proved" =>
    /\ panel.check.proof = lastSnapshotProof
    /\ panel.check.proof.who \in Members[panel.check.proof.sig]

\* What a page makes of answers that arrive late and out of order.
AnswersSound == EntrantIsJudged /\ ShownProofIsOffered

=============================================================================
