--------------------------- MODULE SortitionProofs ---------------------------
(***************************************************************************)
(* Proofs about Sortition for every value of its constants.                *)
(***************************************************************************)
EXTENDS Sortition, SlotHashesProofs, Sums

\* What create_sortition_draw froze.
WindowOK ==
  /\ window \in Windows
  /\ window.registration_deadline < window.targets[1]
  /\ window.targets[1] <= window.targets[2] /\ window.targets[2] <= window.targets[3]
  /\ window.expiry = ExpirySlot(window.targets)
  /\ window.expiry - window.targets[1] <= MaxEntries
  /\ window.targets[3] < window.claim_deadline

\* A ticket was registered in time, is folded into the snapshot, paid the entry
\* fee if there is one, and is closed only after the claim window.
TicketOK(t) ==
  /\ status # "NONE"
  /\ ticket[t].at <= window.registration_deadline
  /\ \E i \in DOMAIN snapshot : snapshot[i] = <<t, ticket[t].owner, ticket[t].commitment>>
  /\ "ENTRY" \in economics.mode => ticket[t].paid = economics.entry
  /\ ticket[t].state = "closed" => clock > window.claim_deadline
  /\ ticket[t].claimed =>
       status = "SEALED" /\ ticket[t].commitment[2] = t /\ ticket[t].commitment[1] \in lucky

\* What sealing fixed: omega is of the registrations and the canonical slots.
SealOK ==
  /\ omega \in Omegas
  /\ omega.snapshot = snapshot
  /\ omega.slots \in ResolveSlotHashes(blocks, window.targets)
  /\ omega.at <= window.expiry

SortitionInv ==
  /\ SortitionTypeOK
  /\ \A b \in blocks : b < clock
  /\ status # "NONE" => WindowOK
  /\ \A t \in Tickets : ticket[t] # NoTicket => TicketOK(t)
  /\ status = "SEALED" => SealOK

-----------------------------------------------------------------------------
\* The skim is a part of the rent: nobody's rent becomes negative.
LEMMA SkimWithinRent ==
  ASSUME SortitionTypeOK
  PROVE  Skim(TicketRent) \in Nat /\ TicketRent - Skim(TicketRent) \in Nat
<1>1. economics.skim \in Nat /\ economics.skim <= 10000 /\ TicketRent \in Nat
  <2> DEFINE Fits(r) == r \in Nat /\ r <= 10000
  <2>1. \A r \in Rates : Fits(r)
    BY DEF Rates
  <2>2. economics.skim \in Rates
    BY DEF SortitionTypeOK, Economics
  <2> HIDE DEF Fits
  <2>3. Fits(economics.skim)
    BY <2>1, <2>2
  <2> QED
    BY <2>3, SortitionAmountsAssumption DEF Fits
<1> DEFINE Part(r, s) == (r * s) \div 10000
<1>2. ASSUME NEW r \in Nat, NEW s \in Nat, s <= 10000
      PROVE  Part(r, s) \in Nat /\ r - Part(r, s) \in Nat
  <2>1. r * s \in Nat /\ r * s <= r * 10000
    BY <1>2
  <2> DEFINE p == r * s
  <2>2. p \in Nat /\ p <= r * 10000
    BY <2>1
  <2> HIDE DEF p
  <2>3. p \div 10000 \in Nat /\ r - (p \div 10000) \in Nat
    BY <1>2, <2>2
  <2> QED
    BY <2>3 DEF p
<1>3. CASE "CLOSE_SKIM" \in economics.mode
  <2> DEFINE s == economics.skim
  <2>1. s \in Nat /\ s <= 10000
    BY <1>1
  <2>2. Skim(TicketRent) = Part(TicketRent, IF s > 10000 THEN 10000 ELSE s)
    BY <1>3 DEF Skim
  <2> HIDE DEF s
  <2>3. (IF s > 10000 THEN 10000 ELSE s) = s
    BY <2>1
  <2> HIDE DEF Part
  <2>4. Skim(TicketRent) = Part(TicketRent, s)
    BY <2>2, <2>3
  <2> QED
    BY <1>1, <1>2, <2>1, <2>4
<1>4. CASE "CLOSE_SKIM" \notin economics.mode
  BY <1>1, <1>4 DEF Skim
<1> QED
  BY <1>3, <1>4

-----------------------------------------------------------------------------
(* One lemma per handler. *)

\* A new block lies after every block: omega, once fixed, stays canonical.
LEMMA TickInv == ASSUME SortitionInv, Tick PROVE SortitionInv'
<1> USE DEF Tick, drawVars
<1>1. clock \in Nat /\ blocks \in SUBSET Nat /\ \A b \in blocks : b < clock
  BY DEF SortitionInv, SortitionTypeOK
<1>2. clock' \in Nat /\ clock' > clock /\ blocks' = blocks \cup {clock}
  BY <1>1, SortitionBoundsAssumption
<1>3. SortitionTypeOK'
  BY <1>1, <1>2 DEF SortitionInv, SortitionTypeOK
<1>4. \A b \in blocks' : b < clock'
  BY <1>1, <1>2
<1>5. (status # "NONE" => WindowOK)'
  BY DEF SortitionInv, WindowOK
<1>6. ASSUME NEW t \in Tickets, ticket'[t] # NoTicket PROVE TicketOK(t)'
  <2>1. TicketOK(t) /\ WindowOK
    BY <1>6 DEF SortitionInv, TicketOK
  <2>2. window.claim_deadline \in Nat
    BY <2>1 DEF WindowOK, Windows
  <2> QED
    BY <1>1, <1>2, <2>1, <2>2 DEF TicketOK
<1>7. ASSUME status' = "SEALED" PROVE SealOK'
  <2>1. SealOK /\ window.targets \in [1..3 -> Nat]
    BY <1>7 DEF SortitionInv, WindowOK, Windows
  <2>2. omega.slots \in ResolveSlotHashes(blocks \cup {clock}, window.targets)
    BY <1>1, <2>1, ResolveStable DEF SealOK
  <2> QED
    BY <1>2, <2>1, <2>2 DEF SealOK
<1> QED
  BY <1>3, <1>4, <1>5, <1>6, <1>7 DEF SortitionInv

\* Creating a draw: the registration window ends before the first target.
LEMMA CreateInv ==
  ASSUME SortitionInv, NEW a \in Actors, NEW r \in RegDurations, NEW c \in ClaimDurations,
         CreateSortitionDraw(a, r, c)
  PROVE  SortitionInv'
<1> DEFINE targets == TargetSlots(clock, TargetOffsets)
           w == [authority |-> a, targets |-> targets, registration_deadline |-> clock + r,
                 expiry |-> ExpirySlot(targets), claim_deadline |-> targets[3] + c]
<1>1. /\ clock \in Nat /\ r \in Nat /\ c \in Nat /\ c > 0 /\ r < TargetOffsets[1]
  BY SortitionAmountsAssumption DEF SortitionInv, SortitionTypeOK, CreateSortitionDraw, RegistrationFits
<1>2. /\ targets \in [1..3 -> Nat]
      /\ targets[1] = clock + TargetOffsets[1] /\ targets[2] = clock + TargetOffsets[2]
      /\ targets[3] = clock + TargetOffsets[3]
  BY <1>1, SortitionOffsetsAssumption DEF IsOffsets, TargetSlots
<1>3. /\ ExpirySlot(targets) \in Nat /\ targets[3] + c \in Nat /\ clock + r \in Nat
      /\ clock + r < targets[1] /\ targets[1] <= targets[2] /\ targets[2] <= targets[3]
      /\ targets[3] < targets[3] + c
      /\ ExpirySlot(targets) - targets[1] <= MaxEntries
  BY <1>1, <1>2, SortitionOffsetsAssumption, ExpiryAfterAssumption, MaxEntriesAssumption
  DEF ExpirySlot, IsOffsets
<1>4. window' = w /\ status = "NONE" /\ status' = "REGISTERING"
  BY DEF CreateSortitionDraw
<1>5. UNCHANGED <<clock, blocks, economics, snapshot, omega, lucky, winners_count, ticket, treasury>>
  BY DEF CreateSortitionDraw, chainVars
<1> HIDE DEF targets
<1>6. w \in Windows
  BY <1>2, <1>3 DEF Windows
<1>7. WindowOK'
  BY <1>3, <1>4, <1>6 DEF WindowOK
<1>8. SortitionTypeOK'
  BY <1>4, <1>5, <1>6 DEF SortitionInv, SortitionTypeOK
<1>9. \A t \in Tickets : ticket[t] = NoTicket
  BY <1>4 DEF SortitionInv, TicketOK
<1> QED
  BY <1>4, <1>5, <1>7, <1>8, <1>9 DEF SortitionInv

\* The economics are set before the first ticket, so every ticket knows them.
LEMMA EconomicsInv ==
  ASSUME SortitionInv, NEW a \in Actors, NEW mode \in FeeModes, NEW entry \in EntryFees,
         NEW skim \in SkimRates, InitSortitionEconomics(a, mode, entry, skim)
  PROVE  SortitionInv' /\ \A t \in Tickets : ticket[t] = NoTicket
<1> USE DEF InitSortitionEconomics, EconomicsOpen
<1>1. UNCHANGED <<clock, blocks, status, window, snapshot, omega, lucky, winners_count,
                  ticket, treasury>>
  BY DEF chainVars
<1>2. ASSUME NEW t \in Tickets, ticket[t] # NoTicket PROVE FALSE
  BY <1>2 DEF SortitionInv, TicketOK
<1>3. economics' \in Economics
  <2>1. entry \in Nat /\ skim \in Rates /\ mode \in SUBSET {"ENTRY", "CLOSE_SKIM"}
    BY SortitionAmountsAssumption, SortitionModesAssumption DEF Rates
  <2> QED
    BY <2>1 DEF Economics
<1>4. SortitionTypeOK'
  BY <1>1, <1>3 DEF SortitionInv, SortitionTypeOK
<1> QED
  BY <1>1, <1>2, <1>4 DEF SortitionInv, WindowOK

\* A ticket that exists is an account; one that is closed ended its registration.
LEMMA TicketFacts ==
  ASSUME SortitionInv, NEW t \in Tickets, ticket[t] # NoTicket
  PROVE  /\ ticket[t] \in TicketAccounts /\ TicketOK(t) /\ WindowOK
         /\ ticket[t].state = "closed" => ~RegistrationOpen
<1>1. ticket[t] \in TicketAccounts /\ TicketOK(t) /\ WindowOK
  BY DEF SortitionInv, SortitionTypeOK, TicketOK
<1>2. ASSUME ticket[t].state = "closed" PROVE ~RegistrationOpen
  <2>1. clock > window.claim_deadline /\ clock \in Nat
    BY <1>1, <1>2 DEF TicketOK, SortitionInv, SortitionTypeOK
  <2>2. /\ window.targets[1] \in Nat /\ window.targets[2] \in Nat /\ window.targets[3] \in Nat
        /\ window.registration_deadline \in Nat /\ window.claim_deadline \in Nat
    BY <1>1 DEF WindowOK, Windows
  <2>3. window.registration_deadline < window.claim_deadline
    BY <1>1, <2>2 DEF WindowOK
  <2> QED
    BY <2>1, <2>2, <2>3 DEF RegistrationOpen
<1> QED
  BY <1>1, <1>2

\* Registering: the ticket did not exist, closed ones included.
LEMMA RegisterInv ==
  ASSUME SortitionInv, NEW a \in Actors, NEW t \in Tickets, NEW c \in Commitments,
         NEW fee \in Nat, "ENTRY" \in economics.mode => fee = economics.entry,
         Register(a, t, c, fee)
  PROVE  SortitionInv' /\ ticket[t] = NoTicket
<1> USE DEF Register
<1> DEFINE new == [state |-> "open", owner |-> a, commitment |-> c, claimed |-> FALSE,
                   at |-> clock, paid |-> fee, refund |-> 0, skim |-> 0]
<1>1. /\ status = "REGISTERING" /\ clock <= window.registration_deadline
      /\ ticket' = [ticket EXCEPT ![t] = new] /\ snapshot' = Append(snapshot, <<t, a, c>>)
      /\ treasury' = treasury + fee
      /\ UNCHANGED <<clock, blocks, status, window, economics, omega, lucky, winners_count>>
  BY DEF RegistrationOpen, chainVars
<1>2. ticket[t] = NoTicket
  BY TicketFacts DEF TicketAccounts
<1>3. new \in TicketAccounts
  BY DEF SortitionInv, SortitionTypeOK, TicketAccounts
<1>4. /\ ticket \in [Tickets -> TicketAccounts \cup {NoTicket}] /\ treasury \in Nat
      /\ snapshot \in Seq(Registrations) /\ <<t, a, c>> \in Registrations
  BY DEF SortitionInv, SortitionTypeOK, Registrations
<1> HIDE DEF new
<1>5. /\ ticket' \in [Tickets -> TicketAccounts \cup {NoTicket}] /\ treasury' \in Nat
      /\ snapshot' \in Seq(Registrations)
  <2>1. treasury' \in Nat
    BY <1>1, <1>4
  <2>2. snapshot' \in Seq(Registrations)
    BY <1>1, <1>4
  <2> HIDE DEF Register
  <2>3. ticket' \in [Tickets -> TicketAccounts \cup {NoTicket}]
    BY <1>1, <1>3, <1>4
  <2> QED
    BY <2>1, <2>2, <2>3
<1>6. SortitionTypeOK'
  BY <1>1, <1>5 DEF SortitionInv, SortitionTypeOK
<1>7. (status # "NONE" => WindowOK)'
  BY <1>1 DEF SortitionInv, WindowOK
<1>8. /\ \A i \in DOMAIN snapshot : i \in DOMAIN snapshot' /\ snapshot'[i] = snapshot[i]
      /\ \E i \in DOMAIN snapshot' : snapshot'[i] = <<t, a, c>>
  <2>1. Len(snapshot) + 1 \in DOMAIN snapshot' /\ snapshot'[Len(snapshot) + 1] = <<t, a, c>>
    BY <1>1, <1>4
  <2>2. \A i \in DOMAIN snapshot : i \in DOMAIN snapshot' /\ snapshot'[i] = snapshot[i]
    <3> HIDE DEF Register
    <3> QED
      BY <1>1, <1>4
  <2> QED
    BY <2>1, <2>2, Zenon
<1>9. ASSUME NEW u \in Tickets, ticket'[u] # NoTicket PROVE TicketOK(u)'
  <2>1. CASE u = t
    <3>1. ticket'[u] = new
      BY <1>1, <1>4, <2>1
    <3> QED
      BY <1>1, <1>8, <2>1, <3>1 DEF TicketOK, new
  <2>2. CASE u # t
    <3>1. ticket'[u] = ticket[u]
      BY <1>1, <1>4, <2>2
    <3>2. TicketOK(u)
      BY <1>9, <3>1 DEF SortitionInv
    <3> QED
      BY <1>1, <1>8, <3>1, <3>2 DEF TicketOK
  <2> QED
    BY <2>1, <2>2
<1> QED
  BY <1>1, <1>2, <1>6, <1>7, <1>9 DEF SortitionInv

\* Sealing: what the sysvar gives is what the chain gives.
LEMMA SealInv == ASSUME SortitionInv, SealSortitionDraw PROVE SortitionInv'
<1> USE DEF SealSortitionDraw
<1>1. /\ clock \in Nat /\ blocks \in SUBSET (0..(clock - 1)) /\ blocks \in SUBSET Nat
      /\ snapshot \in Seq(Registrations)
  BY DEF SortitionInv, SortitionTypeOK
<1>2. WindowOK /\ window.targets \in [1..3 -> Nat] /\ clock <= ExpirySlot(window.targets)
  BY DEF SortitionInv, WindowOK, Windows, SealWindow
<1>3. ResolveSlotHashes(Sysvar(blocks), window.targets) = ResolveSlotHashes(blocks, window.targets)
  BY <1>1, <1>2, WindowFitsSysvar DEF WindowOK
<1>4. PICK slots \in ResolveSlotHashes(blocks, window.targets) :
        omega' = [slots |-> slots, snapshot |-> snapshot, at |-> clock]
  BY <1>3
<1>5. slots \in Nat \X Nat \X Nat
  BY <1>1, <1>2, <1>4, ResolvedShape
<1>6. omega' \in Omegas
  BY <1>1, <1>4, <1>5 DEF Omegas
<1>7. UNCHANGED <<clock, blocks, window, economics, snapshot, winners_count, ticket, treasury>>
      /\ status = "REGISTERING" /\ status' = "SEALED" /\ lucky' \in SUBSET Secrets
  BY DEF chainVars
<1>8. SortitionTypeOK'
  BY <1>6, <1>7 DEF SortitionInv, SortitionTypeOK
<1>9. SealOK'
  BY <1>2, <1>4, <1>6, <1>7 DEF SealOK, WindowOK
<1>10. WindowOK'
  BY <1>2, <1>7 DEF WindowOK
<1>11. ASSUME NEW t \in Tickets, ticket'[t] # NoTicket PROVE TicketOK(t)'
  BY <1>7, <1>11 DEF SortitionInv, TicketOK
<1> QED
  BY <1>7, <1>8, <1>9, <1>10, <1>11 DEF SortitionInv

\* Claiming: the secret opens the ticket's own commitment and is lucky.
LEMMA ClaimInv ==
  ASSUME SortitionInv, NEW a \in Actors, NEW t \in Tickets, NEW s \in Secrets,
         ClaimSortitionTicket(a, t, s)
  PROVE  /\ SortitionInv' /\ ticket[t] \in TicketAccounts
         /\ ticket[t].state = "open"
<1> USE DEF ClaimSortitionTicket
<1>1. /\ UNCHANGED <<clock, blocks, status, window, economics, snapshot, omega, lucky, treasury>>
      /\ status = "SEALED" /\ winners_count' = winners_count + 1
      /\ ticket' = [ticket EXCEPT ![t].claimed = TRUE]
  BY DEF chainVars
<1>2. ticket[t] \in TicketAccounts /\ TicketOK(t) /\ ticket[t].state = "open"
  BY TicketFacts DEF NoTicket
<1>3. ticket \in [Tickets -> TicketAccounts \cup {NoTicket}] /\ winners_count \in Nat
  BY DEF SortitionInv, SortitionTypeOK
<1> DEFINE new == [ticket[t] EXCEPT !.claimed = TRUE]
<1>4. /\ new \in TicketAccounts /\ new.state = ticket[t].state /\ new.owner = ticket[t].owner
      /\ new.commitment = ticket[t].commitment /\ new.at = ticket[t].at
      /\ new.paid = ticket[t].paid
  BY <1>2 DEF TicketAccounts
<1>5. ticket' = [ticket EXCEPT ![t] = new]
  BY <1>1
<1> HIDE DEF new
<1>6. SortitionTypeOK'
  <2>1. ticket' \in [Tickets -> TicketAccounts \cup {NoTicket}] /\ winners_count' \in Nat
    <3> HIDE DEF ClaimSortitionTicket
    <3>1. winners_count' \in Nat
      BY <1>1, <1>3
    <3>2. ticket' \in [Tickets -> TicketAccounts \cup {NoTicket}]
      BY <1>3, <1>4, <1>5
    <3> QED
      BY <3>1, <3>2
  <2> QED
    BY <1>1, <2>1 DEF SortitionInv, SortitionTypeOK
<1>7. ASSUME NEW u \in Tickets, ticket'[u] # NoTicket PROVE TicketOK(u)'
  <2>1. CASE u = t
    <3>1. ticket'[u] = new
      BY <1>3, <1>5, <2>1
    <3>2. ticket[t].commitment[2] = t /\ ticket[t].commitment[1] \in lucky
      BY DEF OpensCommitment
    <3> QED
      BY <1>1, <1>2, <1>4, <2>1, <3>1, <3>2 DEF TicketOK
  <2>2. CASE u # t
    <3>1. ticket'[u] = ticket[u]
      BY <1>3, <1>5, <2>2
    <3>2. TicketOK(u)
      BY <1>7, <3>1 DEF SortitionInv
    <3> QED
      BY <1>1, <3>1, <3>2 DEF TicketOK
  <2> QED
    BY <2>1, <2>2
<1>8. WindowOK' /\ SealOK'
  BY <1>1 DEF SortitionInv, WindowOK, SealOK
<1> QED
  BY <1>1, <1>2, <1>6, <1>7, <1>8 DEF SortitionInv

\* Closing: only after the claim window, and the rent splits into two parts.
LEMMA CloseInv ==
  ASSUME SortitionInv, NEW S \in SUBSET Tickets, CloseTickets(S)
  PROVE  /\ SortitionInv'
         /\ \A t \in Tickets : t \notin S => ticket'[t] = ticket[t]
         /\ \A t \in S :
              /\ ticket[t] \in TicketAccounts /\ ticket[t].state = "open"
              /\ ticket'[t] \in TicketAccounts
              /\ ticket'[t].owner = ticket[t].owner
              /\ ticket'[t].commitment = ticket[t].commitment
              /\ ticket'[t].claimed = ticket[t].claimed
<1> DEFINE k == Skim(TicketRent)
           new(t) == [ticket[t] EXCEPT !.state = "closed", !.skim = k, !.refund = TicketRent - k]
<1>1. /\ UNCHANGED <<clock, blocks, status, window, economics, snapshot, omega, lucky, winners_count>>
      /\ status # "NONE" /\ clock > window.claim_deadline
      /\ \A t \in S : ticket[t].state = "open"
      /\ ticket' = [t \in Tickets |-> IF t \in S THEN new(t) ELSE ticket[t]]
      /\ treasury' = treasury + Cardinality(S) * k
  BY DEF CloseTickets, ClosingTime, chainVars, drawVars
<1>2. k \in Nat /\ TicketRent - k \in Nat
  BY SkimWithinRent DEF SortitionInv
<1> HIDE DEF k
<1>3. ASSUME NEW t \in S
      PROVE  /\ ticket[t] \in TicketAccounts /\ ticket[t].state = "open" /\ TicketOK(t)
             /\ new(t) \in TicketAccounts /\ new(t).owner = ticket[t].owner
             /\ new(t).commitment = ticket[t].commitment
             /\ new(t).claimed = ticket[t].claimed /\ new(t).at = ticket[t].at
             /\ new(t).paid = ticket[t].paid
  <2>1. ticket[t] \in TicketAccounts /\ ticket[t].state = "open" /\ TicketOK(t)
    <3>1. t \in Tickets /\ ticket[t].state = "open"
      BY <1>1
    <3>2. ticket[t] # NoTicket
      BY <3>1 DEF NoTicket
    <3> QED
      BY <3>1, <3>2, TicketFacts
  <2> QED
    BY <1>2, <2>1 DEF TicketAccounts
<1> HIDE DEF new
<1>4. /\ \A t \in S : ticket'[t] = new(t)
      /\ \A t \in Tickets : t \notin S => ticket'[t] = ticket[t]
  BY <1>1
<1>5. ticket' \in [Tickets -> TicketAccounts \cup {NoTicket}]
  <2>1. \A t \in Tickets : ticket[t] \in TicketAccounts \cup {NoTicket}
    BY DEF SortitionInv, SortitionTypeOK
  <2> QED
    BY <1>1, <1>3, <2>1
<1>6. treasury' \in Nat
  <2>1. Cardinality(S) \in Nat /\ treasury \in Nat
    BY SortitionTicketsAssumption, FS_Subset, FS_CardinalityType DEF SortitionInv, SortitionTypeOK
  <2>2. Cardinality(S) * k \in Nat
    BY <1>2, <2>1
  <2> QED
    BY <1>1, <2>1, <2>2
<1>7. SortitionTypeOK'
  BY <1>1, <1>5, <1>6 DEF SortitionInv, SortitionTypeOK
<1>8. ASSUME NEW t \in Tickets, ticket'[t] # NoTicket PROVE TicketOK(t)'
  <2>1. CASE t \in S
    BY <1>1, <1>3, <1>4, <2>1 DEF TicketOK
  <2>2. CASE t \notin S
    BY <1>1, <1>4, <1>8, <2>2 DEF TicketOK, SortitionInv
  <2> QED
    BY <2>1, <2>2
<1>9. WindowOK' /\ (status = "SEALED" => SealOK)'
  BY <1>1 DEF SortitionInv, WindowOK, SealOK
<1> QED
  BY <1>1, <1>3, <1>4, <1>7, <1>8, <1>9 DEF SortitionInv

\* The two register handlers are Register with the fee of the draw.
LEMMA RegistersDrawFee ==
  ASSUME SortitionInv, NEW a, NEW t, NEW c,
         RegisterSortitionTicket(a, t, c) \/ RegisterSortitionTicketPaid(a, t, c)
  PROVE  \E fee \in Nat : /\ "ENTRY" \in economics.mode => fee = economics.entry
                          /\ Register(a, t, c, fee)
<1>1. economics.entry \in Nat
  BY DEF SortitionInv, SortitionTypeOK, Economics
<1>2. CASE "ENTRY" \in economics.mode
  <2>1. Register(a, t, c, economics.entry)
    BY <1>2 DEF RegisterSortitionTicket, RegisterSortitionTicketPaid
  <2> QED
    BY <1>1, <2>1
<1>3. CASE "ENTRY" \notin economics.mode
  <2>1. Register(a, t, c, 0)
    BY <1>3 DEF RegisterSortitionTicket, RegisterSortitionTicketPaid
  <2> QED
    BY <1>3, <2>1
<1> QED
  BY <1>2, <1>3

-----------------------------------------------------------------------------
LEMMA InitSortitionInv == ASSUME Init PROVE SortitionInv
<1> USE DEF Init
<1>1. SortitionTypeOK
  <2>1. NoEconomics \in Economics
    BY DEF NoEconomics, Economics, Rates
  <2> QED
    BY <2>1 DEF SortitionTypeOK
<1> QED
  BY <1>1 DEF SortitionInv

LEMMA NextSortitionInv == ASSUME SortitionInv, [Next]_vars PROVE SortitionInv'
<1>1. CASE Tick
  BY <1>1, TickInv
<1>2. ASSUME NEW a \in Actors, NEW r \in RegDurations, NEW c \in ClaimDurations,
             CreateSortitionDraw(a, r, c)
      PROVE  SortitionInv'
  BY <1>2, CreateInv
<1>3. ASSUME NEW a \in Actors, NEW mode \in FeeModes, NEW entry \in EntryFees,
             NEW skim \in SkimRates, InitSortitionEconomics(a, mode, entry, skim)
      PROVE  SortitionInv'
  BY <1>3, EconomicsInv
<1>4. ASSUME NEW a \in Actors, NEW t \in Tickets, NEW c \in Commitments,
             RegisterSortitionTicket(a, t, c) \/ RegisterSortitionTicketPaid(a, t, c)
      PROVE  SortitionInv'
  BY <1>4, RegistersDrawFee, RegisterInv
<1>5. ASSUME NEW a \in Actors, NEW t \in Tickets, NEW s \in Secrets, ClaimSortitionTicket(a, t, s)
      PROVE  SortitionInv'
  BY <1>5, ClaimInv
<1>6. CASE SealSortitionDraw
  BY <1>6, SealInv
<1>7. ASSUME NEW t \in Tickets, CloseSortitionTicket(t) PROVE SortitionInv'
  BY <1>7, CloseInv DEF CloseSortitionTicket
<1>8. ASSUME NEW S \in SUBSET Tickets, SweepSortitionTickets(S) PROVE SortitionInv'
  BY <1>8, CloseInv DEF SweepSortitionTickets
<1>9. CASE UNCHANGED vars
  <2>1. UNCHANGED <<clock, blocks, status, window, economics, snapshot, omega, lucky,
                    winners_count, ticket, treasury>>
    BY <1>9 DEF vars, chainVars, drawVars
  <2>2. SortitionTypeOK' /\ (\A b \in blocks : b < clock)'
    BY <2>1 DEF SortitionInv, SortitionTypeOK
  <2>3. (status # "NONE" => WindowOK)' /\ (status = "SEALED" => SealOK)'
    BY <2>1 DEF SortitionInv, WindowOK, SealOK
  <2>4. (\A t \in Tickets : ticket[t] # NoTicket => TicketOK(t))'
    BY <2>1 DEF SortitionInv, TicketOK
  <2> QED
    BY <2>2, <2>3, <2>4 DEF SortitionInv
<1> QED
  BY <1>1, <1>2, <1>3, <1>4, <1>5, <1>6, <1>7, <1>8, <1>9 DEF Next

\* The inductive invariant holds in every reachable state of a sortition draw.
THEOREM SortitionInvariant == Spec => []SortitionInv
  BY InitSortitionInv, NextSortitionInv, PTL DEF Spec

-----------------------------------------------------------------------------
(* The properties the runs check. *)

\* The draw and its tickets keep the shape state/sortition.rs gives them,
\* whatever the durations, fees and offsets.
THEOREM SortitionTypesAlwaysOK == Spec => []SortitionTypeOK
<1>1. SortitionInv => SortitionTypeOK
  BY DEF SortitionInv
<1> QED
  BY <1>1, SortitionInvariant, PTL

\* No ticket is registered in or after the first slot omega is drawn from: the
\* registration deadline lies before the first target, and the search takes
\* no slot before its target.
THEOREM EntropyAlwaysAfterCommit == Spec => []CommitBeforeEntropy
<1>1. ASSUME SortitionInv PROVE CommitBeforeEntropy
  <2> SUFFICES ASSUME status = "SEALED", NEW t \in Tickets, ticket[t] # NoTicket
               PROVE  ticket[t].at < omega.slots[1]
    BY DEF CommitBeforeEntropy
  <2>1. SealOK /\ ticket[t] \in TicketAccounts /\ TicketOK(t) /\ WindowOK
    BY <1>1, TicketFacts DEF SortitionInv
  <2>2. window.targets \in [1..3 -> Nat] /\ blocks \in SUBSET Nat /\ window.registration_deadline \in Nat
    BY <1>1, <2>1 DEF WindowOK, Windows, SortitionInv, SortitionTypeOK
  <2>3. omega.slots[1] \in Nat /\ omega.slots[1] >= window.targets[1]
    <3>1. omega.slots \in Nat \X Nat \X Nat /\ \A i \in 1..3 : omega.slots[i] >= window.targets[i]
      BY <2>1, <2>2, ResolvedShape DEF SealOK
    <3> QED
      BY <3>1
  <2>4. ticket[t].at \in Nat /\ ticket[t].at <= window.registration_deadline
    BY <2>1 DEF TicketOK, TicketAccounts
  <2> QED
    BY <2>1, <2>2, <2>3, <2>4 DEF WindowOK
<1> QED
  BY <1>1, SortitionInvariant, PTL

\* omega covers every registration and the slots of the whole chain, at the
\* seal and ever after.
THEOREM OmegaAlwaysBinds == Spec => []OmegaBindsTheDraw
<1>1. SortitionInv => OmegaBindsTheDraw
  BY DEF SortitionInv, SealOK, TicketOK, OmegaBindsTheDraw
<1> QED
  BY <1>1, SortitionInvariant, PTL

\* Only a lucky secret committed to for the ticket itself wins.
THEOREM ClaimsAlwaysJustified == Spec => []ClaimsJustified
<1>1. SortitionInv => ClaimsJustified
  BY DEF SortitionInv, TicketOK, ClaimsJustified
<1> QED
  BY <1>1, SortitionInvariant, PTL

\* The legacy register handler lets nobody around an entry fee.
THEOREM EntryFeesAlwaysPaid == Spec => []EntryFeePaid
<1>1. SortitionInv => EntryFeePaid
  BY DEF SortitionInv, TicketOK, EntryFeePaid
<1> QED
  BY <1>1, SortitionInvariant, PTL

\* A claim window as long as the seal window is never over before the seal.
THEOREM SealsAlwaysInTime == Spec => []SealedInTime
<1>1. ASSUME SortitionInv PROVE SealedInTime
  <2> SUFFICES ASSUME status = "SEALED", window.claim_deadline >= window.expiry
               PROVE  omega.at <= window.claim_deadline
    BY DEF SealedInTime
  <2>1. window.claim_deadline \in Nat /\ window.expiry \in Nat /\ omega.at <= window.expiry
    BY <1>1 DEF SortitionInv, WindowOK, Windows, SealOK
  <2>2. omega \in Omegas
    BY <1>1 DEF SortitionInv, SealOK
  <2> QED
    BY <2>1, <2>2 DEF Omegas
<1> QED
  BY <1>1, SortitionInvariant, PTL

\* The tickets a claim succeeded for.
Winners == {t \in Tickets : ticket[t] # NoTicket /\ ticket[t].claimed}

\* No step but a claim changes who has claimed, and none changes the terms of
\* an existing ticket.
LEMMA StepKeepsTerms ==
  ASSUME SortitionInv, [Next]_vars
  PROVE  /\ \A t \in Tickets : TermsKept(t)
         /\ \/ winners_count' = winners_count /\ Winners' = Winners
            \/ /\ winners_count' = winners_count + 1
               /\ \E t \in Tickets : t \notin Winners /\ Winners' = Winners \cup {t}
<1> DEFINE Same == winners_count' = winners_count /\ Winners' = Winners
           Goal == /\ \A t \in Tickets : TermsKept(t)
                   /\ \/ Same
                      \/ /\ winners_count' = winners_count + 1
                         /\ \E t \in Tickets : t \notin Winners /\ Winners' = Winners \cup {t}
<1>0. ticket \in [Tickets -> TicketAccounts \cup {NoTicket}]
  BY DEF SortitionInv, SortitionTypeOK
<1>1. ASSUME UNCHANGED <<economics, ticket, winners_count>> PROVE Goal
  BY <1>1 DEF TermsKept, Winners
<1>2. CASE Tick \/ SealSortitionDraw \/ UNCHANGED vars
  BY <1>1, <1>2 DEF Tick, SealSortitionDraw, vars, drawVars
<1>3. ASSUME NEW a \in Actors, NEW r \in RegDurations, NEW c \in ClaimDurations,
             CreateSortitionDraw(a, r, c)
      PROVE  Goal
  BY <1>1, <1>3 DEF CreateSortitionDraw
<1>4. ASSUME NEW a \in Actors, NEW mode \in FeeModes, NEW entry \in EntryFees,
             NEW skim \in SkimRates, InitSortitionEconomics(a, mode, entry, skim)
      PROVE  Goal
  <2>1. \A t \in Tickets : ticket[t] = NoTicket
    BY <1>4, EconomicsInv
  <2>2. ticket' = ticket /\ winners_count' = winners_count
    BY <1>4 DEF InitSortitionEconomics
  <2> QED
    BY <2>1, <2>2 DEF TermsKept, Winners
<1>5. ASSUME NEW a \in Actors, NEW t \in Tickets, NEW c \in Commitments,
             RegisterSortitionTicket(a, t, c) \/ RegisterSortitionTicketPaid(a, t, c)
      PROVE  Goal
  <2>1. PICK fee \in Nat : /\ "ENTRY" \in economics.mode => fee = economics.entry
                           /\ Register(a, t, c, fee)
    BY <1>5, RegistersDrawFee
  <2>2. ticket[t] = NoTicket
    BY <2>1, RegisterInv
  <2>3. /\ economics' = economics /\ winners_count' = winners_count
        /\ ticket'[t].claimed = FALSE
        /\ \A u \in Tickets : u # t => ticket'[u] = ticket[u]
    BY <1>0, <2>1 DEF Register
  <2>4. \A u \in Tickets : TermsKept(u)
    BY <2>2, <2>3 DEF TermsKept
  <2>5. Winners' = Winners
    BY <2>2, <2>3 DEF Winners
  <2> QED
    BY <2>3, <2>4, <2>5
<1>6. ASSUME NEW a \in Actors, NEW t \in Tickets, NEW s \in Secrets, ClaimSortitionTicket(a, t, s)
      PROVE  Goal
  <2>1. ticket[t] \in TicketAccounts /\ ticket[t].state = "open" /\ ~ticket[t].claimed
    BY <1>6, ClaimInv DEF ClaimSortitionTicket, NotClaimed
  <2>2. /\ economics' = economics /\ winners_count' = winners_count + 1
        /\ ticket' = [ticket EXCEPT ![t] = [ticket[t] EXCEPT !.claimed = TRUE]]
    BY <1>6 DEF ClaimSortitionTicket
  <2>3. /\ ticket'[t].owner = ticket[t].owner /\ ticket'[t].commitment = ticket[t].commitment
        /\ ticket'[t].claimed = TRUE /\ ticket'[t].state = "open"
        /\ \A u \in Tickets : u # t => ticket'[u] = ticket[u]
    BY <1>0, <2>1, <2>2 DEF TicketAccounts
  <2>4. \A u \in Tickets : TermsKept(u)
    BY <2>1, <2>2, <2>3 DEF TermsKept
  <2>5. ticket'[t] # NoTicket
    BY <2>3 DEF NoTicket
  <2>6. t \notin Winners /\ Winners' = Winners \cup {t}
    BY <2>1, <2>3, <2>5 DEF Winners
  <2> QED
    BY <2>2, <2>4, <2>6
<1>7. ASSUME NEW S \in SUBSET Tickets, CloseTickets(S) PROVE Goal
  <2>1. /\ \A t \in Tickets : t \notin S => ticket'[t] = ticket[t]
        /\ \A t \in S :
             /\ ticket[t] \in TicketAccounts /\ ticket[t].state = "open"
             /\ ticket'[t] \in TicketAccounts
             /\ ticket'[t].owner = ticket[t].owner
             /\ ticket'[t].commitment = ticket[t].commitment
             /\ ticket'[t].claimed = ticket[t].claimed
    BY <1>7, CloseInv
  <2>2. economics' = economics /\ winners_count' = winners_count
    BY <1>7 DEF CloseTickets, drawVars
  <2>3. \A t \in Tickets : TermsKept(t)
    BY <2>1, <2>2 DEF TermsKept
  <2>4. NoTicket \notin TicketAccounts
    BY DEF NoTicket, TicketAccounts
  <2>5. Winners' = Winners
    BY <2>1, <2>4 DEF Winners
  <2> QED
    BY <2>2, <2>3, <2>5
<1>8. ASSUME NEW t \in Tickets, CloseSortitionTicket(t) PROVE Goal
  BY <1>7, <1>8 DEF CloseSortitionTicket
<1>9. ASSUME NEW S \in SUBSET Tickets, SweepSortitionTickets(S) PROVE Goal
  BY <1>7, <1>9 DEF SweepSortitionTickets
<1> QED
  BY <1>2, <1>3, <1>4, <1>5, <1>6, <1>8, <1>9 DEF Next

\* What a participant signed up for never changes.
THEOREM TermsAlwaysFixed == Spec => TermsOfTicketsFixed
<1>1. SortitionInv /\ [Next]_vars => [\A t \in Tickets : TermsKept(t)]_vars
  BY StepKeepsTerms
<1> QED
  BY <1>1, SortitionInvariant, PTL DEF Spec, TermsOfTicketsFixed

\* Every claim is counted once and closing loses none, for any number of
\* tickets.
THEOREM WinnersAlwaysCounted == Spec => []WinnersCounted
<1>1. Init => WinnersCounted
  <2>1. Init => Winners = {} /\ winners_count = 0
    BY DEF Init, Winners
  <2> QED
    BY <2>1, FS_EmptySet DEF WinnersCounted, Winners
<1>2. SortitionInv /\ WinnersCounted /\ [Next]_vars => WinnersCounted'
  <2> SUFFICES ASSUME SortitionInv, WinnersCounted, [Next]_vars PROVE WinnersCounted'
    OBVIOUS
  <2>1. winners_count = Cardinality(Winners)
    BY DEF WinnersCounted, Winners
  <2>2. IsFiniteSet(Winners)
    BY SortitionTicketsAssumption, FS_Subset DEF Winners
  <2>3. winners_count' = Cardinality(Winners')
    BY <2>1, <2>2, StepKeepsTerms, FS_AddElement
  <2> QED
    BY <2>3 DEF WinnersCounted, Winners
<1> QED
  BY <1>1, <1>2, SortitionInvariant, PTL DEF Spec

\* Tickets and winners, for any number of tickets, secrets and actors.
THEOREM TicketsAlwaysSound == Spec => []TicketsSound
<1>1. SortitionTypeOK /\ EntryFeePaid /\ ClaimsJustified /\ WinnersCounted => TicketsSound
  BY DEF TicketsSound
<1> QED
  BY <1>1, SortitionTypesAlwaysOK, EntryFeesAlwaysPaid, ClaimsAlwaysJustified,
     WinnersAlwaysCounted, PTL

\* omega, for all durations, offsets and skipped slots.
THEOREM OmegaAlwaysSound == Spec => []OmegaSound
<1>1. CommitBeforeEntropy /\ OmegaBindsTheDraw /\ SealedInTime => OmegaSound
  BY DEF OmegaSound
<1> QED
  BY <1>1, EntropyAlwaysAfterCommit, OmegaAlwaysBinds, SealsAlwaysInTime, PTL

-----------------------------------------------------------------------------
(* The books of the treasury. *)

\* RentConserved, and that nothing was skimmed from a ticket still open.
RentInv ==
  /\ SortitionInv /\ RentConserved
  /\ \A t \in Tickets : ticket[t].state = "open" => ticket[t].skim = 0

Receipts == [t \in Tickets |-> Received(t)]

\* What the treasury got is a whole number, ticket by ticket and in all.
LEMMA ReceiptsType ==
  ASSUME SortitionInv, SortitionInv'
  PROVE  /\ Receipts \in [Tickets -> Int] /\ Receipts' \in [Tickets -> Int]
         /\ SumFunction(Receipts) \in Int
<1>1. ASSUME NEW t \in Tickets PROVE Received(t) \in Int /\ Received(t)' \in Int
  <2>1. /\ ticket[t] # NoTicket => ticket[t].paid \in Nat /\ ticket[t].skim \in Nat
        /\ ticket'[t] # NoTicket => ticket'[t].paid \in Nat /\ ticket'[t].skim \in Nat
    BY DEF SortitionInv, SortitionTypeOK, TicketAccounts
  <2> QED
    BY <2>1 DEF Received
<1>2. Receipts \in [Tickets -> Int] /\ Receipts' \in [Tickets -> Int]
  BY <1>1 DEF Receipts
<1> QED
  BY <1>2, SortitionTicketsAssumption, SumType

\* Steps that leave the tickets, the economics and the treasury alone.
LEMMA IdleRent ==
  ASSUME RentInv, SortitionInv', UNCHANGED <<ticket, treasury>>,
         \A t \in Tickets : ticket[t] # NoTicket => economics' = economics
  PROVE  RentInv'
<1>1. Receipts' = Receipts
  BY DEF Receipts, Received
<1>2. treasury' = SumFunction(Receipts')
  BY <1>1 DEF RentInv, RentConserved, Receipts
<1>3. ASSUME NEW t \in Tickets PROVE RentSplit(t)'
  <2>1. CASE ticket[t] = NoTicket
    BY <2>1 DEF RentSplit, NoTicket
  <2>2. CASE ticket[t] # NoTicket
    BY <2>2 DEF RentInv, RentConserved, RentSplit
  <2> QED
    BY <2>1, <2>2
<1> QED
  BY <1>2, <1>3 DEF RentInv, RentConserved, Receipts

\* A registration adds its fee to the treasury and to its own ticket.
LEMMA RegisterRent ==
  ASSUME RentInv, NEW a \in Actors, NEW t \in Tickets, NEW c \in Commitments,
         NEW fee \in Nat, "ENTRY" \in economics.mode => fee = economics.entry,
         Register(a, t, c, fee)
  PROVE  RentInv'
<1>1. SortitionInv /\ SortitionInv' /\ ticket[t] = NoTicket
  BY RegisterInv DEF RentInv
<1>2. ticket \in [Tickets -> TicketAccounts \cup {NoTicket}] /\ treasury \in Nat
  BY <1>1 DEF SortitionInv, SortitionTypeOK
<1>3. /\ treasury' = treasury + fee /\ economics' = economics
      /\ ticket'[t].state = "open" /\ ticket'[t].paid = fee /\ ticket'[t].skim = 0
      /\ \A u \in Tickets \ {t} : ticket'[u] = ticket[u]
  BY <1>2 DEF Register
<1>4. ticket'[t] # NoTicket
  BY <1>3 DEF NoTicket
<1>5. /\ Receipts[t] = 0 /\ Receipts'[t] = fee
      /\ \A u \in Tickets \ {t} : Receipts[u] = Receipts'[u]
  BY <1>1, <1>3, <1>4 DEF Receipts, Received
<1>6. SumFunction(Receipts') = SumFunction(Receipts) - Receipts[t] + Receipts'[t]
  BY <1>1, <1>5, ReceiptsType, SortitionTicketsAssumption, SumChange
<1>7. SumFunction(Receipts) \in Int /\ treasury = SumFunction(Receipts)
  BY <1>1, ReceiptsType DEF RentInv, RentConserved, Receipts
<1>8. treasury' = SumFunction(Receipts')
  BY <1>3, <1>5, <1>6, <1>7
<1>9. ASSUME NEW u \in Tickets
      PROVE  RentSplit(u)' /\ (ticket'[u].state = "open" => ticket'[u].skim = 0)
  BY <1>3 DEF RentInv, RentConserved, RentSplit
<1> QED
  BY <1>1, <1>8, <1>9 DEF RentInv, RentConserved, Receipts

\* A claim moves no lamport.
LEMMA ClaimRent ==
  ASSUME RentInv, NEW a \in Actors, NEW t \in Tickets, NEW s \in Secrets,
         ClaimSortitionTicket(a, t, s)
  PROVE  RentInv'
<1>1. SortitionInv /\ SortitionInv' /\ ticket[t] \in TicketAccounts /\ ticket[t].state = "open"
  BY ClaimInv DEF RentInv
<1>2. ticket \in [Tickets -> TicketAccounts \cup {NoTicket}]
  BY <1>1 DEF SortitionInv, SortitionTypeOK
<1>3. /\ ticket' = [ticket EXCEPT ![t] = [ticket[t] EXCEPT !.claimed = TRUE]]
      /\ treasury' = treasury /\ economics' = economics
  BY DEF ClaimSortitionTicket
<1>4. /\ ticket'[t].state = "open" /\ ticket'[t].paid = ticket[t].paid
      /\ ticket'[t].skim = ticket[t].skim
      /\ \A u \in Tickets \ {t} : ticket'[u] = ticket[u]
  BY <1>1, <1>2, <1>3 DEF TicketAccounts
<1>5. ticket'[t] # NoTicket /\ ticket[t] # NoTicket
  BY <1>1, <1>4 DEF NoTicket
<1>6. Receipts' = Receipts
  BY <1>4, <1>5 DEF Receipts, Received
<1>7. ASSUME NEW u \in Tickets
      PROVE  RentSplit(u)' /\ (ticket'[u].state = "open" => ticket'[u].skim = 0)
  BY <1>1, <1>3, <1>4 DEF RentInv, RentConserved, RentSplit
<1>8. treasury' = SumFunction(Receipts')
  BY <1>3, <1>6 DEF RentInv, RentConserved, Receipts
<1> QED
  BY <1>1, <1>7, <1>8 DEF RentInv, RentConserved, Receipts

\* Closing one ticket or a batch: what the treasury gets is what the tickets lose.
LEMMA CloseRent ==
  ASSUME RentInv, NEW S \in SUBSET Tickets, CloseTickets(S)
  PROVE  RentInv'
<1> DEFINE k == Skim(TicketRent)
<1>1. SortitionInv /\ SortitionInv' /\ \A t \in S : ticket[t] \in TicketAccounts
  BY CloseInv DEF RentInv
<1>2. k \in Nat /\ TicketRent - k \in Nat /\ TicketRent \in Nat
  BY <1>1, SkimWithinRent, SortitionAmountsAssumption DEF SortitionInv
<1>3. /\ treasury' = treasury + Cardinality(S) * k /\ economics' = economics
      /\ \A t \in Tickets : t \notin S => ticket'[t] = ticket[t]
  BY DEF CloseTickets, drawVars
<1>4. k > 0 => "CLOSE_SKIM" \in economics.mode
  BY DEF Skim
<1> HIDE DEF k
<1>5. ASSUME NEW t \in S
      PROVE  /\ ticket'[t].state = "closed" /\ ticket'[t].skim = k /\ ticket[t].skim = 0
             /\ ticket'[t].paid = ticket[t].paid /\ ticket'[t].refund = TicketRent - k
             /\ ticket[t].paid \in Nat
  <2>1. t \in Tickets /\ ticket[t].state = "open" /\ ticket[t] \in TicketAccounts
    BY <1>1 DEF CloseTickets
  <2>2. ticket'[t] = [ticket[t] EXCEPT !.state = "closed", !.skim = k, !.refund = TicketRent - k]
    BY <2>1 DEF CloseTickets, k
  <2>3. ticket[t].skim = 0
    BY <2>1 DEF RentInv
  <2> QED
    BY <2>1, <2>2, <2>3 DEF TicketAccounts
<1>6. ASSUME NEW t \in S PROVE Received(t)' = Received(t) + k
  <2>1. ticket[t] # NoTicket /\ ticket'[t] # NoTicket
    <3>1. ticket[t].state = "open" /\ ticket'[t].state = "closed"
      BY <1>5 DEF CloseTickets
    <3> QED
      BY <3>1 DEF NoTicket
  <2> QED
    BY <1>2, <1>5, <2>1 DEF Received
<1>7. Receipts' = [t \in Tickets |-> IF t \in S THEN Receipts[t] + k ELSE Receipts[t]]
  <2>1. \A t \in Tickets : Received(t)' = IF t \in S THEN Receipts[t] + k ELSE Receipts[t]
    BY <1>3, <1>6 DEF Received, Receipts
  <2> QED
    BY <2>1 DEF Receipts
<1>8. SumFunction(Receipts') = SumFunction(Receipts) + Cardinality(S) * k
  <2>1. Receipts \in [Tickets -> Int] /\ k \in Int
    BY <1>1, <1>2, ReceiptsType
  <2> HIDE DEF Receipts
  <2> QED
    BY <1>7, <2>1, SortitionTicketsAssumption, SumRaise
<1>9. treasury' = SumFunction(Receipts')
  BY <1>3, <1>8 DEF RentInv, RentConserved, Receipts
<1>10. ASSUME NEW t \in Tickets
       PROVE  RentSplit(t)' /\ (ticket'[t].state = "open" => ticket'[t].skim = 0)
  <2>1. CASE t \in S
    BY <1>2, <1>3, <1>4, <1>5, <2>1 DEF RentSplit
  <2>2. CASE t \notin S
    BY <1>3, <2>2 DEF RentInv, RentConserved, RentSplit
  <2> QED
    BY <2>1, <2>2
<1> QED
  BY <1>1, <1>9, <1>10 DEF RentInv, RentConserved, Receipts

\* Every step keeps the books of the treasury.
LEMMA NextRent == ASSUME RentInv, [Next]_vars PROVE RentInv'
<1>0. SortitionInv /\ SortitionInv'
  BY NextSortitionInv DEF RentInv
<1>1. CASE Tick \/ SealSortitionDraw \/ UNCHANGED vars
  BY <1>0, <1>1, IdleRent DEF Tick, SealSortitionDraw, vars, drawVars
<1>2. ASSUME NEW a \in Actors, NEW r \in RegDurations, NEW c \in ClaimDurations,
             CreateSortitionDraw(a, r, c)
      PROVE  RentInv'
  BY <1>0, <1>2, IdleRent DEF CreateSortitionDraw
<1>3. ASSUME NEW a \in Actors, NEW mode \in FeeModes, NEW entry \in EntryFees,
             NEW skim \in SkimRates, InitSortitionEconomics(a, mode, entry, skim)
      PROVE  RentInv'
  BY <1>0, <1>3, EconomicsInv, IdleRent DEF InitSortitionEconomics
<1>4. ASSUME NEW a \in Actors, NEW t \in Tickets, NEW c \in Commitments,
             RegisterSortitionTicket(a, t, c) \/ RegisterSortitionTicketPaid(a, t, c)
      PROVE  RentInv'
  BY <1>0, <1>4, RegistersDrawFee, RegisterRent
<1>5. ASSUME NEW t \in Tickets, CloseSortitionTicket(t) PROVE RentInv'
  BY <1>5, CloseRent DEF CloseSortitionTicket
<1>6. ASSUME NEW S \in SUBSET Tickets, SweepSortitionTickets(S) PROVE RentInv'
  BY <1>6, CloseRent DEF SweepSortitionTickets
<1> QED
  BY <1>1, <1>2, <1>3, <1>4, <1>5, <1>6, ClaimRent DEF Next

\* A draw that does not exist yet has paid nothing.
LEMMA InitRent == Init => RentInv
<1> SUFFICES ASSUME Init PROVE RentInv
  OBVIOUS
<1>1. SortitionInv
  BY InitSortitionInv
<1>2. [t \in Tickets |-> Received(t)] = [t \in Tickets |-> 0]
  BY DEF Init, Received
<1>3. treasury = SumFunction([t \in Tickets |-> Received(t)])
  BY <1>2, SortitionTicketsAssumption, SumZero DEF Init
<1>4. \A t \in Tickets : RentSplit(t) /\ ticket[t].state # "open"
  BY DEF Init, RentSplit, NoTicket
<1> QED
  BY <1>1, <1>3, <1>4 DEF RentInv, RentConserved

\* Whatever the fees, the rate and the batches tickets are swept in, no lamport of
\* a sortition draw is lost or minted.
THEOREM RentAlwaysConserved == Spec => []RentConserved
<1>1. RentInv /\ [Next]_vars => RentInv'
  BY NextRent
<1>2. RentInv => RentConserved
  BY DEF RentInv
<1> QED
  BY <1>1, <1>2, InitRent, PTL DEF Spec

=============================================================================
