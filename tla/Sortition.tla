------------------------------ MODULE Sortition ------------------------------
(***************************************************************************)
(* Sortition-by-claim (v1.4.0) and its economics (v1.4.1): one draw from   *)
(* its creation to the closing of its tickets                              *)
(* (programs/outcome/src/instructions/*sortition*, state/sortition.rs).    *)
(* Draws share nothing but the program's treasury account, so one draw is  *)
(* the component.                                                          *)
(*                                                                         *)
(* Hashes are ideal.  A commitment sha256(secret, ticket_id, draw_id) is   *)
(* the pair <<secret, ticket>>; the registration snapshot, a hash chain,   *)
(* is the sequence it folds; omega is the snapshot with the resolved       *)
(* slots.  Which secrets sha256(secret, omega) puts below the threshold is *)
(* unknown until omega exists: sealing chooses the set "lucky".            *)
(***************************************************************************)
EXTENDS SlotHashes, Sequences, FiniteSetsExt

CONSTANTS
  Actors,          \* keys that sign transactions
  Tickets,         \* ticket ids
  Secrets,         \* secrets participants commit to
  TargetOffsets,   \* RNG_V2_TARGET_OFFSETS (75, 90, 105)
  RegDurations, ClaimDurations,  \* durations create is called with
  FeeModes,        \* sets of flags init_sortition_economics is called with
  EntryFees, SkimRates,          \* amounts and basis points it is called with
  TicketRent,      \* lamports of a ticket account
  MaxSlot,         \* bound: last slot of a behaviour
  MaxSkip,         \* bound: consecutive skipped slots
  LastCreate       \* bound: last slot in which the draw is created

ASSUME SortitionAmountsAssumption ==
  /\ RegDurations \subseteq Nat /\ ClaimDurations \subseteq Nat
  /\ EntryFees \subseteq Nat /\ SkimRates \subseteq Nat
  /\ TicketRent \in Nat
ASSUME SortitionTicketsAssumption == IsFiniteSet(Tickets)
ASSUME SortitionOffsetsAssumption == IsOffsets(TargetOffsets)
ASSUME SortitionModesAssumption == FeeModes \subseteq SUBSET {"ENTRY", "CLOSE_SKIM"}
ASSUME SortitionBoundsAssumption == MaxSlot \in Nat /\ MaxSkip \in Nat /\ LastCreate \in Nat

VARIABLES
  clock, blocks,   \* as in RngV2
  status,          \* "NONE", "REGISTERING" or "SEALED"
  window,          \* what create_sortition_draw froze
  economics,       \* fee_mode, entry_fee_lamports, close_skim_bps
  snapshot,        \* what registration_snapshot_hash folds, in order
  omega,           \* snapshot and slots omega hashes, NoOmega while zeroed
  lucky,           \* secrets whose digest is below the threshold, given omega
  winners_count,
  ticket,          \* the TicketCommit account per ticket id
  treasury         \* lamports the treasury received from this draw

chainVars == <<clock, blocks>>
drawVars == <<status, window, economics, snapshot, omega, lucky, winners_count>>
vars == <<chainVars, drawVars, ticket, treasury>>

NoOmega == [slots |-> <<>>]
NoWindow == [authority |-> "none"]
NoEconomics == [mode |-> {}, entry |-> 0, skim |-> 0]

\* An account that does not exist yet.  "at", "paid", "refund" and "skim"
\* are history: when it was registered and for what, where its rent went.
NoTicket == [state |-> "none"]

Commitments == Secrets \X Tickets

-----------------------------------------------------------------------------
(* Helpers. *)

\* Mutant of RegistrationFits: the deadline may fall on the first target.
RegistrationUpToTarget(duration) == 0 < duration /\ duration <= TargetOffsets[1]
RegistrationFits(duration) == 0 < duration /\ duration < TargetOffsets[1]

RegistrationOpen == status = "REGISTERING" /\ clock <= window.registration_deadline

\* Mutant of SealWindow: the expiry slot is not checked.
SealWindowNeverCloses ==
  clock > window.registration_deadline /\ clock > window.targets[3]
SealWindow ==
  /\ clock > window.registration_deadline /\ clock > window.targets[3]
  /\ clock <= window.expiry

\* Mutant of EconomicsOpen: a registration does not close it.
EconomicsUntilSet == status = "REGISTERING" /\ economics.mode = {}
EconomicsOpen == status = "REGISTERING" /\ snapshot = <<>> /\ economics.mode = {}

\* Mutant of NotClaimed: a ticket may be claimed again.
ClaimedTwice(t) == TRUE
NotClaimed(t) == ~ticket[t].claimed

\* Mutant of OpensCommitment: a secret registered for another ticket will do.
OpensAnyTicket(secret, t) == ticket[t].commitment[1] = secret
OpensCommitment(secret, t) == ticket[t].commitment = <<secret, t>>

\* Mutant of ClosingTime: only the tickets of a sealed draw can be closed.
ClosingWhenSealed == status = "SEALED" /\ clock > window.claim_deadline
ClosingTime == status # "NONE" /\ clock > window.claim_deadline

\* close_split: what the treasury skims from the rent of a closed ticket.
\* Mutants: the rate is a percentage; it is applied although the draw has no
\* close skim.
SkimInPercent(rent) == IF "CLOSE_SKIM" \in economics.mode THEN (rent * economics.skim) \div 100 ELSE 0
SkimAlways(rent) == (rent * economics.skim) \div 10000
Skim(rent) ==
  IF "CLOSE_SKIM" \in economics.mode
    THEN (rent * (IF economics.skim > 10000 THEN 10000 ELSE economics.skim)) \div 10000
    ELSE 0

-----------------------------------------------------------------------------
Init ==
  /\ clock = 1 /\ blocks = {0}
  /\ status = "NONE" /\ window = NoWindow /\ economics = NoEconomics
  /\ snapshot = <<>> /\ omega = NoOmega /\ lucky = {} /\ winners_count = 0
  /\ ticket = [t \in Tickets |-> NoTicket] /\ treasury = 0

Tick ==
  /\ \E s \in (clock + 1)..(clock + 1 + MaxSkip) : s <= MaxSlot /\ clock' = s
  /\ blocks' = blocks \cup {clock}
  /\ UNCHANGED <<drawVars, ticket, treasury>>

CreateSortitionDraw(a, regDuration, claimDuration) ==
  LET targets == TargetSlots(clock, TargetOffsets) IN
  /\ status = "NONE" /\ clock <= LastCreate
  /\ RegistrationFits(regDuration) /\ claimDuration > 0
  /\ status' = "REGISTERING"
  /\ window' = [authority |-> a, targets |-> targets,
                registration_deadline |-> clock + regDuration,
                expiry |-> ExpirySlot(targets),
                claim_deadline |-> targets[3] + claimDuration]
  /\ UNCHANGED <<chainVars, economics, snapshot, omega, lucky, winners_count,
                 ticket, treasury>>

\* Set once, by the authority, before the first registration.
InitSortitionEconomics(a, mode, entry, skim) ==
  /\ EconomicsOpen /\ a = window.authority
  /\ mode # {} /\ skim <= 10000
  /\ "ENTRY" \in mode => entry > 0
  /\ "CLOSE_SKIM" \in mode => skim > 0
  /\ economics' = [mode |-> mode, entry |-> entry, skim |-> skim]
  /\ UNCHANGED <<chainVars, status, window, snapshot, omega, lucky, winners_count,
                 ticket, treasury>>

\* What both register handlers do.  The init constraint needs the account not
\* to exist: never created, or closed.
Register(a, t, commitment, fee) ==
  /\ RegistrationOpen /\ ticket[t].state # "open"
  /\ ticket' = [ticket EXCEPT ![t] =
       [state |-> "open", owner |-> a, commitment |-> commitment, claimed |-> FALSE,
        at |-> clock, paid |-> fee, refund |-> 0, skim |-> 0]]
  /\ snapshot' = Append(snapshot, <<t, a, commitment>>)
  /\ treasury' = treasury + fee
  /\ UNCHANGED <<chainVars, status, window, economics, omega, lucky, winners_count>>

RegisterSortitionTicket(a, t, commitment) ==
  "ENTRY" \notin economics.mode /\ Register(a, t, commitment, 0)

RegisterSortitionTicketPaid(a, t, commitment) ==
  Register(a, t, commitment,
           IF "ENTRY" \in economics.mode THEN economics.entry ELSE 0)

\* Anyone, in the window the sysvar covers.
SealSortitionDraw ==
  /\ status = "REGISTERING" /\ SealWindow
  /\ \E slots \in ResolveSlotHashes(Sysvar(blocks), window.targets) :
       omega' = [slots |-> slots, snapshot |-> snapshot, at |-> clock]
  /\ lucky' \in SUBSET Secrets
  /\ status' = "SEALED"
  /\ UNCHANGED <<chainVars, window, economics, snapshot, winners_count, ticket, treasury>>

ClaimSortitionTicket(a, t, secret) ==
  /\ status = "SEALED" /\ clock <= window.claim_deadline
  /\ ticket[t].state = "open" /\ ticket[t].owner = a
  /\ NotClaimed(t) /\ OpensCommitment(secret, t)
  /\ secret \in lucky
  /\ ticket' = [ticket EXCEPT ![t].claimed = TRUE]
  /\ winners_count' = winners_count + 1
  /\ UNCHANGED <<chainVars, status, window, economics, snapshot, omega, lucky, treasury>>

\* The rent of the tickets in S leaves: the skim to the treasury, the rest to
\* the owner.  What is left of a closed account is history.
CloseTickets(S) ==
  /\ ClosingTime
  /\ \A t \in S : ticket[t].state = "open"
  /\ ticket' = [t \in Tickets |->
       IF t \in S
         THEN [ticket[t] EXCEPT !.state = "closed", !.skim = Skim(TicketRent),
                                !.refund = TicketRent - Skim(TicketRent)]
         ELSE ticket[t]]
  /\ treasury' = treasury + Cardinality(S) * Skim(TicketRent)
  /\ UNCHANGED <<chainVars, drawVars>>

\* Anyone, sealed or not.
CloseSortitionTicket(t) == CloseTickets({t})

\* A batch.  A ticket listed twice is zeroed when it comes up again, which
\* fails the transaction: a batch that lands is a set.
SweepSortitionTickets(S) == Cardinality(S) > 1 /\ CloseTickets(S)

-----------------------------------------------------------------------------
Next ==
  \/ Tick
  \/ \E a \in Actors :
       \/ \E r \in RegDurations, c \in ClaimDurations : CreateSortitionDraw(a, r, c)
       \/ \E mode \in FeeModes, entry \in EntryFees, skim \in SkimRates :
            InitSortitionEconomics(a, mode, entry, skim)
       \/ \E t \in Tickets, c \in Commitments :
            RegisterSortitionTicket(a, t, c) \/ RegisterSortitionTicketPaid(a, t, c)
       \/ \E t \in Tickets, s \in Secrets : ClaimSortitionTicket(a, t, s)
  \/ SealSortitionDraw
  \/ \E t \in Tickets : CloseSortitionTicket(t)
  \/ \E S \in SUBSET Tickets : SweepSortitionTickets(S)

Spec == Init /\ [][Next]_vars

\* Blocks keep coming and closing is a permissionless crank that pays the
\* owner: both are retried.  Sealing and claiming are nobody's duty.
Fairness == WF_vars(Tick) /\ \A t \in Tickets : WF_vars(CloseSortitionTicket(t))

FairSpec == Spec /\ Fairness

-----------------------------------------------------------------------------
(* Properties. *)

Windows ==
  [authority : Actors, targets : [1..3 -> Nat], registration_deadline : Nat,
   expiry : Nat, claim_deadline : Nat]

\* close_skim_bps: basis points, bounded by init_sortition_economics.
Rates == 0..10000

Economics == [mode : SUBSET {"ENTRY", "CLOSE_SKIM"}, entry : Nat, skim : Rates]

TicketAccounts ==
  [state : {"open", "closed"}, owner : Actors, commitment : Commitments,
   claimed : BOOLEAN, at : Nat, paid : Nat,
   refund : Nat, skim : Nat]

Registrations == Tickets \X Actors \X Commitments

Omegas == [slots : Nat \X Nat \X Nat, snapshot : Seq(Registrations), at : Nat]

\* The draw and its tickets have the shape state/sortition.rs gives them.
SortitionTypeOK ==
  /\ clock \in Nat /\ blocks \subseteq Nat
  /\ status \in {"NONE", "REGISTERING", "SEALED"}
  /\ window \in Windows \cup {NoWindow}
  /\ economics \in Economics
  /\ snapshot \in Seq(Registrations)
  /\ omega \in Omegas \cup {NoOmega}
  /\ lucky \subseteq Secrets /\ winners_count \in Nat
  /\ ticket \in [Tickets -> TicketAccounts \cup {NoTicket}]
  /\ treasury \in Nat

\* Every commitment was made before any block omega takes its entropy from:
\* nobody registers knowing part of omega, however slots were skipped and
\* whoever sealed when (create bounds the registration window by the first
\* target, register checks the deadline, seal the targets).
CommitBeforeEntropy ==
  status = "SEALED" =>
    \A t \in Tickets : ticket[t] # NoTicket => ticket[t].at < omega.slots[1]

\* omega covers exactly the registrations there are: no ticket is added after
\* the seal, and the slots are the ones the whole chain gives for the targets.
OmegaBindsTheDraw ==
  status = "SEALED" =>
    /\ omega.snapshot = snapshot
    /\ omega.slots \in ResolveSlotHashes(blocks, window.targets)
    /\ \A t \in Tickets : ticket[t] # NoTicket =>
         \E i \in DOMAIN snapshot : snapshot[i] = <<t, ticket[t].owner, ticket[t].commitment>>

\* A claimed ticket was committed, for itself, to a secret omega made win.
ClaimsJustified ==
  \A t \in Tickets : ticket[t] # NoTicket /\ ticket[t].claimed =>
    status = "SEALED" /\ ticket[t].commitment[2] = t /\ ticket[t].commitment[1] \in lucky

\* winners_count counts the claimed tickets, the closed ones included: no claim
\* is counted twice and closing loses none.
WinnersCounted ==
  winners_count = Cardinality({t \in Tickets : ticket[t] # NoTicket /\ ticket[t].claimed})

\* What the treasury got for ticket t.
Received(t) == IF ticket[t] = NoTicket THEN 0 ELSE ticket[t].paid + ticket[t].skim

RentSplit(t) ==
  ticket[t].state = "closed" =>
    /\ ticket[t].refund + ticket[t].skim = TicketRent
    /\ ticket[t].skim > 0 => "CLOSE_SKIM" \in economics.mode

\* No lamport of the draw is lost or minted: the treasury got the entry fees
\* and the skims, and the rent of a closed ticket went to its owner and to the
\* treasury in full, at the rate the draw announced.
RentConserved ==
  /\ \A t \in Tickets : RentSplit(t)
  /\ treasury = SumFunction([t \in Tickets |-> Received(t)])

\* Nobody enters a draw with an entry fee without paying it.
EntryFeePaid ==
  "ENTRY" \in economics.mode =>
    \A t \in Tickets : ticket[t] # NoTicket => ticket[t].paid = economics.entry

\* With a claim window at least as long as the seal window, a draw is never
\* sealed too late to be claimed.
SealedInTime ==
  status = "SEALED" /\ window.claim_deadline >= window.expiry =>
    omega.at <= window.claim_deadline

\* Who is in and who won: every ticket was paid for, every claim is justified by
\* its own commitment, and every claim is counted once.
TicketsSound == SortitionTypeOK /\ EntryFeePaid /\ ClaimsJustified /\ WinnersCounted

\* What omega is worth: nobody knew a part of it when registering, it binds the
\* registrations and the chain's slots, and it came in time to be used.
OmegaSound == CommitBeforeEntropy /\ OmegaBindsTheDraw /\ SealedInTime

\* A step leaves what ticket t stands for alone: the economics of the draw, its
\* owner and commitment, a claim once made, and everything once it is closed.
TermsKept(t) ==
  ticket[t] # NoTicket =>
    /\ economics' = economics
    /\ ticket'[t].owner = ticket[t].owner
    /\ ticket'[t].commitment = ticket[t].commitment
    /\ ticket[t].claimed => ticket'[t].claimed
    /\ ticket[t].state = "closed" => ticket'[t] = ticket[t]

\* What a participant signed up for does not change: once a ticket exists the
\* economics are fixed, a ticket's owner and commitment never change, a claim
\* is never taken back and a closed ticket never comes back.
TermsOfTicketsFixed == [][\A t \in Tickets : TermsKept(t)]_vars

\* The rent of every ticket comes back, whether or not anyone seals the draw or
\* claims: closing needs no status and no signature of the owner.
RentReturned ==
  \A t \in Tickets :
    ticket[t].state = "open" ~> ticket[t].state = "closed"

=============================================================================
