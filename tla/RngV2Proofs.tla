---------------------------- MODULE RngV2Proofs ----------------------------
(***************************************************************************)
(* Proofs about RngV2 for every value of its constants: its types, the     *)
(* entropy of a draw, where its money ends, what backs its resolution,     *)
(* that an ending is final, that the lifecycle implements DrawEscrow, and  *)
(* that the vault covers what it owes.                                     *)
(***************************************************************************)
EXTENDS RngV2, SlotHashesProofs, Sums, Sequences

\* What prepare froze for a draw, and no later handler changes.
FrozenOK(t) ==
  /\ t \in Terms
  /\ t.fee_snapshot <= t.input
  /\ t.targets[1] <= t.targets[2] /\ t.targets[2] <= t.targets[3]
  /\ t.expiry = ExpirySlot(t.targets)
  /\ t.expiry - t.targets[1] <= MaxEntries

Frozen == \A id \in ResolveIds : status[id] # "NONE" => FrozenOK(terms[id])

HeldBounty ==
  \A id \in ResolveIds : status[id] = "PREPARED" => held[id] = terms[id].bounty

Past == \A b \in blocks : b < clock

SealedHasSlots ==
  \A id \in ResolveIds : status[id] = "SEALED" => resolved[id] # <<>>

SlotsOfDraws ==
  \A id \in ResolveIds : resolved[id] # <<>> => status[id] # "NONE"

RngInv ==
  /\ TypeOK /\ Past /\ Frozen /\ HeldBounty
  /\ SealedHasSlots /\ SlotsOfDraws /\ EntropyCanonical

-----------------------------------------------------------------------------

\* A freshly initialized runtime has the types.
LEMMA InitType == Init => TypeOK
<1> SUFFICES ASSUME Init PROVE TypeOK
  OBVIOUS
<1> USE DEF Init
<1>1. review \in Statuses /\ allow \in BOOLEAN
  BY ChoicesAssumption DEF Statuses
<1>2. vault \in Nat /\ external \in Int /\ next_resolve_id \in 0..MaxResolves
  BY AmountsAssumption, BoundsAssumption
<1>3. ledger \in [ResolveIds -> Flows]
  BY DEF NoFlow, Flows
<1>4. clock \in Nat /\ blocks \subseteq Nat
  OBVIOUS
<1> QED
  BY <1>1, <1>2, <1>3, <1>4 DEF TypeOK, DrawStatuses

\* Opening a draw (what every prepare does) preserves the types.
LEMMA OpenType ==
  ASSUME RngInv, NEW a \in Actors, NEW input \in Inputs, NEW bounty \in Bounties \cup {0},
         NEW commit \in Commits \cup {NoSecret}, NEW entropy \in {"SLOT_HASH", "UNICORN_G"},
         NEW offsets, IsOffsets(offsets), NEW attestAfter \in Nat,
         Open(a, input, bounty, commit, entropy, offsets, attestAfter)
  PROVE  TypeOK'
<1> DEFINE id == next_resolve_id
           targets == TargetSlots(clock, offsets)
           t == [actor |-> a, input |-> input, entropy |-> entropy,
                 targets |-> targets, expiry |-> ExpirySlot(targets),
                 attest_deadline |-> ExpirySlot(targets) + attestAfter,
                 commit |-> commit, bounty |-> bounty, fee_snapshot |-> fee]
<1>1. clock \in Nat /\ fee \in Fees /\ vault \in Nat /\ input \in Nat /\ bounty \in Nat
  BY AmountsAssumption DEF RngInv, TypeOK
<1>2. targets \in [1..3 -> Nat] /\ targets[3] \in Nat
  BY <1>1 DEF IsOffsets, TargetSlots
<1>3. ExpirySlot(targets) \in Nat /\ ExpirySlot(targets) + attestAfter \in Nat
  BY <1>2, ExpiryAfterAssumption DEF ExpirySlot
<1>4. t \in Terms
  BY <1>1, <1>2, <1>3 DEF Terms
<1> HIDE DEF t, targets
<1>5. id \in ResolveIds
  BY DEF Open
<1>6. next_resolve_id' \in 0..MaxResolves
  BY <1>5, BoundsAssumption DEF Open, TakeResolveId, ResolveIds
<1>7. vault' \in Nat /\ held' \in [ResolveIds -> Nat]
  BY <1>1, <1>5 DEF Open, RngInv, TypeOK
<1>8. terms' \in [ResolveIds -> Terms \cup {NoTerms}]
  BY <1>4, <1>5 DEF Open, t, targets, RngInv, TypeOK
<1>9. ledger' \in [ResolveIds -> Flows]
  BY <1>1, <1>5 DEF Open, RngInv, TypeOK, Flows, NoFlow
<1>10. status' \in [ResolveIds -> DrawStatuses]
  BY <1>5 DEF Open, RngInv, TypeOK, DrawStatuses
<1> QED
  BY <1>6, <1>7, <1>8, <1>9, <1>10 DEF Open, RngInv, TypeOK, chainVars, configVars

\* Facts about a draw that a handler finds PREPARED or SEALED.
LEMMA DrawFacts ==
  ASSUME RngInv, NEW id \in ResolveIds, status[id] # "NONE"
  PROVE  /\ terms[id] \in Terms /\ FrozenOK(terms[id])
         /\ terms[id].input \in Nat /\ terms[id].bounty \in Nat
         /\ terms[id].fee_snapshot \in Nat
         /\ StakeLessFee(id) \in Nat /\ FeeTaken(id) \in Nat /\ ExpiryRefund(id) \in Nat
         /\ terms[id].targets \in [1..3 -> Nat] /\ terms[id].expiry \in Nat
<1>1. FrozenOK(terms[id])
  BY DEF RngInv, Frozen
<1>2. /\ terms[id] \in Terms
      /\ terms[id].input \in Nat /\ terms[id].bounty \in Nat
      /\ terms[id].fee_snapshot \in Nat
      /\ terms[id].targets \in [1..3 -> Nat] /\ terms[id].expiry \in Nat
  <2>1. terms[id] \in Terms
    BY <1>1 DEF FrozenOK
  <2>2. /\ terms[id].input \in Inputs /\ terms[id].bounty \in Bounties \cup {0}
        /\ terms[id].fee_snapshot \in Fees
        /\ terms[id].targets \in [1..3 -> Nat] /\ terms[id].expiry \in Nat
    BY <2>1 DEF Terms
  <2>3. terms[id].input \in Nat /\ terms[id].fee_snapshot \in Nat
    BY <2>2, AmountsAssumption
  <2>4. terms[id].bounty \in Nat
    <3>1. \A x \in Bounties \cup {0} : x \in Nat
      BY AmountsAssumption
    <3> QED
      BY <2>2, <3>1
  <2> QED
    BY <2>1, <2>2, <2>3, <2>4
<1>3. terms[id].fee_snapshot <= terms[id].input
  BY <1>1 DEF FrozenOK
<1> QED
  BY <1>1, <1>2, <1>3 DEF StakeLessFee, FeeTaken, ExpiryRefund

\* What the search returns now is a triple of slots of the chain.
LEMMA ResolvableShape ==
  ASSUME RngInv, NEW id \in ResolveIds, status[id] # "NONE",
         NEW slots \in Resolvable(id)
  PROVE  slots \in Nat \X Nat \X Nat /\ slots # <<>>
<1>1. Sysvar(blocks) \in SUBSET Nat
  BY DEF RngInv, TypeOK, Sysvar
<1>2. terms[id].targets \in [1..3 -> Nat]
  BY DrawFacts
<1>3. slots \in Nat \X Nat \X Nat
  BY <1>1, <1>2, ResolvedShape DEF Resolvable
<1>4. ASSUME slots = <<>> PROVE FALSE
  <2>1. Len(slots) = 3
    BY <1>3
  <2>2. Len(slots) = 0
    BY <1>4
  <2> QED
    BY <2>1, <2>2
<1> QED
  BY <1>3, <1>4

\* A flow record stays one when an amount in it is set.
LEMMA LedgerUpdate ==
  ASSUME RngInv, NEW id \in ResolveIds, NEW x \in Nat, NEW y \in Nat
  PROVE  /\ [ledger EXCEPT ![id].walletFee = x] \in [ResolveIds -> Flows]
         /\ [ledger EXCEPT ![id].sealer = x] \in [ResolveIds -> Flows]
         /\ [ledger EXCEPT ![id].refund = x, ![id].fee = y] \in [ResolveIds -> Flows]
         /\ [ledger EXCEPT ![id].refund = x, ![id].slash = y] \in [ResolveIds -> Flows]
<1>1. ledger \in [ResolveIds -> Flows] /\ ledger[id] \in Flows
  BY DEF RngInv, TypeOK
<1>2. [ledger[id] EXCEPT !.walletFee = x] \in Flows
  BY <1>1 DEF Flows
<1>3. [ledger[id] EXCEPT !.sealer = x] \in Flows
  BY <1>1 DEF Flows
<1>4. [ledger[id] EXCEPT !.refund = x, !.fee = y] \in Flows
  BY <1>1 DEF Flows
<1>5. [ledger[id] EXCEPT !.refund = x, !.slash = y] \in Flows
  BY <1>1 DEF Flows
<1>6. [ledger EXCEPT ![id].walletFee = x] \in [ResolveIds -> Flows]
  BY <1>1, <1>2
<1>7. [ledger EXCEPT ![id].sealer = x] \in [ResolveIds -> Flows]
  BY <1>1, <1>3
<1>8. [ledger EXCEPT ![id].refund = x, ![id].fee = y] \in [ResolveIds -> Flows]
  BY <1>1, <1>4
<1>9. [ledger EXCEPT ![id].refund = x, ![id].slash = y] \in [ResolveIds -> Flows]
  BY <1>1, <1>5
<1> QED
  BY <1>6, <1>7, <1>8, <1>9

\* A single-phase settle preserves the types.
LEMMA SettleRngV2Type ==
  ASSUME RngInv, NEW a \in Actors, NEW id \in ResolveIds,
         NEW r \in Secrets \cup {NoSecret}, SettleRngV2(a, id, r)
  PROVE  TypeOK'
<1> USE DEF SettleRngV2
<1>1. PICK slots \in Resolvable(id) :
        /\ FixEntropy(id, slots, "hashes")
        /\ Resolve(id, "single_phase", "SLOT_HASH", slots, r, 0)
  OBVIOUS
<1>2. slots \in Nat \X Nat \X Nat
  BY ResolvableShape
<1>3. /\ resolved' \in [ResolveIds -> (Nat \X Nat \X Nat) \cup {<<>>}]
      /\ evidence' \in [ResolveIds -> {"none", "hashes", "vdf"}]
  BY <1>1, <1>2 DEF FixEntropy, RngInv, TypeOK
<1>4. resolution' \in [ResolveIds -> Resolutions \cup {NoResolution}]
  <2>1. [via |-> "single_phase", entropy |-> "SLOT_HASH", slots |-> slots,
         reveal |-> r, bounty |-> 0] \in Resolutions
    BY <1>2 DEF Resolutions
  <2> QED
    BY <1>1, <2>1 DEF Resolve, RngInv, TypeOK
<1>5. ledger' \in [ResolveIds -> Flows]
  <2>1. fee \in Nat
    BY AmountsAssumption DEF RngInv, TypeOK
  <2> QED
    BY <2>1, LedgerUpdate
<1>6. status' \in [ResolveIds -> DrawStatuses] /\ reveal' \in [ResolveIds -> Secrets \cup {NoSecret}]
  BY DEF RngInv, TypeOK, DrawStatuses
<1> QED
  BY <1>3, <1>4, <1>5, <1>6 DEF RngInv, TypeOK, chainVars, configVars

\* A seal preserves the types: the bounty it debits is on the account.
LEMMA SealType ==
  ASSUME RngInv, NEW id \in ResolveIds, NEW entropy, NEW kind \in {"hashes", "vdf"},
         Seal(id, entropy, kind)
  PROVE  TypeOK'
<1> USE DEF Seal
<1>1. PICK slots \in Resolvable(id) : FixEntropy(id, slots, kind)
  OBVIOUS
<1>2. slots \in Nat \X Nat \X Nat
  BY ResolvableShape
<1>3. /\ resolved' \in [ResolveIds -> (Nat \X Nat \X Nat) \cup {<<>>}]
      /\ evidence' \in [ResolveIds -> {"none", "hashes", "vdf"}]
  BY <1>1, <1>2 DEF FixEntropy, RngInv, TypeOK
<1>4. terms[id].bounty \in Nat /\ held[id] = terms[id].bounty
  BY DrawFacts DEF RngInv, HeldBounty
<1>5. held' \in [ResolveIds -> Nat]
  BY <1>4 DEF DebitBounty, RngInv, TypeOK
<1>7. ledger' \in [ResolveIds -> Flows]
  BY <1>4, LedgerUpdate
<1>6. status' \in [ResolveIds -> DrawStatuses]
  BY DEF RngInv, TypeOK, DrawStatuses
<1> QED
  BY <1>3, <1>5, <1>6, <1>7 DEF RngInv, TypeOK, chainVars, configVars

\* Paying a stake out leaves a natural balance and a flow record.
LEMMA PayStakeType ==
  ASSUME RngInv, NEW id \in ResolveIds, NEW toActor \in Nat, NEW toTreasury \in Nat,
         PayStake(id, toActor, toTreasury)
  PROVE  vault' \in Nat /\ ledger' \in [ResolveIds -> Flows]
<1>1. vault' \in Nat
  BY DEF PayStake, VaultCanPay, RngInv, TypeOK
<1>2. ledger' \in [ResolveIds -> Flows]
  BY LedgerUpdate DEF PayStake
<1> QED
  BY <1>1, <1>2

\* An attest preserves the types: the stake covers the fee frozen at prepare.
LEMMA AttestWinnersType ==
  ASSUME RngInv, NEW a \in Actors, NEW id \in ResolveIds,
         NEW r \in Secrets \cup {NoSecret}, AttestWinners(a, id, r)
  PROVE  TypeOK'
<1> USE DEF AttestWinners
<1>1. vault' \in Nat /\ ledger' \in [ResolveIds -> Flows]
  BY DrawFacts, PayStakeType
<1>2. resolution' \in [ResolveIds -> Resolutions \cup {NoResolution}]
  <2>1. resolved[id] \in Nat \X Nat \X Nat
    BY DEF RngInv, TypeOK, SealedHasSlots
  <2>2. terms[id].entropy \in {"SLOT_HASH", "UNICORN_G"} /\ terms[id].bounty \in Bounties \cup {0}
    BY DrawFacts DEF Terms
  <2>3. [via |-> "two_phase", entropy |-> terms[id].entropy, slots |-> resolved[id],
         reveal |-> r, bounty |-> terms[id].bounty] \in Resolutions
    BY <2>1, <2>2 DEF Resolutions
  <2> QED
    BY <2>3 DEF Resolve, RngInv, TypeOK
<1>3. status' \in [ResolveIds -> DrawStatuses] /\ reveal' \in [ResolveIds -> Secrets \cup {NoSecret}]
  BY DEF RngInv, TypeOK, DrawStatuses
<1> QED
  BY <1>1, <1>2, <1>3 DEF RngInv, TypeOK, chainVars, configVars

\* Cranking a slot spin preserves the types.
LEMMA SettleSlotSpinType ==
  ASSUME RngInv, NEW id \in ResolveIds, NEW win \in Wins, SettleSlotSpin(id, win)
  PROVE  TypeOK'
<1> USE DEF SettleSlotSpin
<1>1. PICK slots \in Resolvable(id) : FixEntropy(id, slots, "hashes")
  OBVIOUS
<1>2. slots \in Nat \X Nat \X Nat
  BY ResolvableShape
<1>3. /\ resolved' \in [ResolveIds -> (Nat \X Nat \X Nat) \cup {<<>>}]
      /\ evidence' \in [ResolveIds -> {"none", "hashes", "vdf"}]
  BY <1>1, <1>2 DEF FixEntropy, RngInv, TypeOK
<1>4. MaxWinCap(terms[id].input) \in Nat
  BY DrawFacts, AmountsAssumption DEF MaxWinCap
<1>5. ClampWin(win, terms[id].input) \in Nat
  BY <1>4, AmountsAssumption DEF ClampWin
<1>6. vault' \in Nat /\ ledger' \in [ResolveIds -> Flows]
  BY <1>5, DrawFacts, PayStakeType
<1>7. status' \in [ResolveIds -> DrawStatuses]
  BY DEF RngInv, TypeOK, DrawStatuses
<1> QED
  BY <1>3, <1>6, <1>7 DEF RngInv, TypeOK, chainVars, configVars

\* An expiry preserves the types: the bounty it slashes is on the account.
LEMMA ExpireRngV2Type ==
  ASSUME RngInv, NEW id \in ResolveIds, ExpireRngV2(id)
  PROVE  TypeOK'
<1> USE DEF ExpireRngV2, Expirable
<1>1. terms[id].bounty \in Nat /\ held[id] = terms[id].bounty /\ ExpiryRefund(id) \in Nat
  BY DrawFacts DEF RngInv, HeldBounty
<1>2. vault' \in Nat /\ held' \in [ResolveIds -> Nat]
  BY <1>1 DEF VaultCanPay, DebitBounty, RngInv, TypeOK
<1>4. ledger' \in [ResolveIds -> Flows]
  BY <1>1, LedgerUpdate
<1>3. status' \in [ResolveIds -> DrawStatuses]
  BY DEF RngInv, TypeOK, DrawStatuses
<1> QED
  BY <1>2, <1>3, <1>4 DEF RngInv, TypeOK, chainVars, configVars

\* The expiry of a sealed draw preserves the types.
LEMMA ExpireSealedRngV2Type ==
  ASSUME RngInv, NEW id \in ResolveIds, ExpireSealedRngV2(id)
  PROVE  TypeOK'
<1> USE DEF ExpireSealedRngV2
<1>1. vault' \in Nat /\ ledger' \in [ResolveIds -> Flows]
  BY DrawFacts, PayStakeType
<1>2. status' \in [ResolveIds -> DrawStatuses]
  BY DEF RngInv, TypeOK, DrawStatuses
<1> QED
  BY <1>1, <1>2 DEF RngInv, TypeOK, chainVars, configVars

\* An atomic rng_v1 resolve preserves the types.
LEMMA AtomicResolveType ==
  ASSUME RngInv, NEW input \in Inputs, NEW payout \in Nat, AtomicResolve(input, payout)
  PROVE  TypeOK'
<1> USE DEF AtomicResolve, StakeAndPay
<1>1. input \in Nat /\ payout \in Nat /\ fee \in Nat /\ vault \in Nat /\ master_seed \in Seeds
  BY AmountsAssumption DEF RngInv, TypeOK
<1>2. vault' \in Nat
  BY <1>1
<1>3. ledger' \in [ResolveIds -> Flows]
  BY <1>1 DEF RngInv, TypeOK, Flows, NoFlow
<1>4. resolution' \in [ResolveIds -> Resolutions \cup {NoResolution}]
  <2>1. [via |-> "atomic", entropy |-> "RNG_V1", slots |-> <<master_seed>>,
         reveal |-> NoSecret, bounty |-> 0] \in Resolutions
    BY <1>1 DEF Resolutions
  <2> QED
    BY <2>1 DEF Resolve, RngInv, TypeOK
<1>5. next_resolve_id' \in 0..MaxResolves
  BY BoundsAssumption DEF TakeResolveId, ResolveIds
<1> QED
  BY <1>2, <1>3, <1>4, <1>5 DEF RngInv, TypeOK, chainVars, configVars

\* A new block preserves the types.
LEMMA TickType == ASSUME RngInv, Tick PROVE TypeOK'
<1>1. clock' \in Nat /\ blocks' \subseteq Nat
  BY BoundsAssumption DEF Tick, RngInv, TypeOK
<1> QED
  BY <1>1 DEF Tick, RngInv, TypeOK, configVars, drawVars

\* No admin operation breaks the types, whatever draws are open.
LEMMA AdministerType == ASSUME RngInv, Administer PROVE TypeOK'
<1> USE DEF RngInv, TypeOK, chainVars, configVars, drawVars
<1>1. ASSUME NEW f \in Fees, NEW al \in AllowChoices, SetProgramConfig(f, al) PROVE TypeOK'
  BY <1>1, ChoicesAssumption DEF SetProgramConfig
<1>2. ASSUME NEW new \in Reviews, ReviewCompiledArtifact(new) PROVE TypeOK'
  BY <1>2, ChoicesAssumption DEF ReviewCompiledArtifact
<1>3. ASSUME NEW p \in Pauses, AdminPause(p) PROVE TypeOK'
  BY <1>3, ChoicesAssumption DEF AdminPause
<1>4. ASSUME NEW seed \in Seeds, RefreshMasterSeed(seed) PROVE TypeOK'
  BY <1>4 DEF RefreshMasterSeed
<1>5. ASSUME NEW e \in {"enabled", "disabled"},
             InitializeUnicornGConfig(e) \/ SetUnicornGConfig(e)
      PROVE  TypeOK'
  BY <1>5 DEF InitializeUnicornGConfig, SetUnicornGConfig
<1>6. ASSUME NEW l \in Withdrawals, AdminWithdraw(l) PROVE TypeOK'
  BY <1>6, AmountsAssumption DEF AdminWithdraw, VaultCanPay
<1>7. ASSUME NEW l \in Fundings, FundVault(l) PROVE TypeOK'
  BY <1>7, AmountsAssumption DEF FundVault
<1> QED
  BY <1>1, <1>2, <1>3, <1>4, <1>5, <1>6, <1>7 DEF Administer

-----------------------------------------------------------------------------
(* The sysvar and the entropy of a draw. *)

\* In the window of a draw the sysvar search is the search over the chain.
LEMMA WindowComplete ==
  ASSUME RngInv, NEW id \in ResolveIds, status[id] # "NONE", InWindow(id)
  PROVE  Resolvable(id) = ResolveSlotHashes(blocks, terms[id].targets)
<1> DEFINE ts == terms[id].targets
<1>1. /\ ts \in [1..3 -> Nat] /\ ts[1] <= ts[2] /\ ts[2] <= ts[3]
      /\ terms[id].expiry = ExpirySlot(ts) /\ ExpirySlot(ts) - ts[1] <= MaxEntries
  BY DrawFacts DEF FrozenOK
<1>2. clock \in Nat /\ clock <= ExpirySlot(ts)
  BY <1>1 DEF InWindow, RngInv, TypeOK
<1>3. blocks \in SUBSET (0..(clock - 1))
  BY DEF RngInv, TypeOK, Past
<1> HIDE DEF ts
<1>4. ResolveSlotHashes(Sysvar(blocks), ts) = ResolveSlotHashes(blocks, ts)
  BY <1>1, <1>2, <1>3, WindowFitsSysvar
<1> QED
  BY <1>4 DEF Resolvable, ts

\* SysvarComplete and EntropyAfterTargets follow from the invariant.
LEMMA InvImpliesEntropy == RngInv => SysvarComplete /\ EntropyAfterTargets
<1> SUFFICES ASSUME RngInv PROVE SysvarComplete /\ EntropyAfterTargets
  OBVIOUS
<1>1. SysvarComplete
  BY WindowComplete DEF SysvarComplete
<1>2. ASSUME NEW id \in ResolveIds, resolved[id] # <<>>
      PROVE  /\ \A i \in 1..3 : resolved[id][i] >= terms[id].targets[i]
             /\ resolved[id][1] < resolved[id][2]
             /\ resolved[id][2] < resolved[id][3]
             /\ resolved[id][3] < clock
  <2>1. status[id] # "NONE" /\ resolved[id] \in ResolveSlotHashes(blocks, terms[id].targets)
    BY <1>2 DEF RngInv, SlotsOfDraws, EntropyCanonical
  <2>2. terms[id].targets \in [1..3 -> Nat] /\ blocks \in SUBSET Nat
    BY <2>1, DrawFacts DEF RngInv, TypeOK
  <2>3. /\ resolved[id][3] \in blocks
        /\ \A i \in 1..3 : resolved[id][i] >= terms[id].targets[i]
        /\ resolved[id][1] < resolved[id][2] /\ resolved[id][2] < resolved[id][3]
    BY <2>1, <2>2, ResolvedShape
  <2>4. resolved[id][3] < clock
    BY <2>3 DEF RngInv, Past
  <2> QED
    BY <2>3, <2>4
<1> QED
  BY <1>1, <1>2 DEF EntropyAfterTargets

-----------------------------------------------------------------------------
(* The rest of the invariant, one lemma per kind of step. *)

RestInv == Past /\ Frozen /\ HeldBounty /\ SealedHasSlots /\ SlotsOfDraws /\ EntropyCanonical

\* Atomic resolves and administration do not touch the draws.
LEMMA DrawsUntouched ==
  ASSUME RngInv, UNCHANGED <<chainVars, status, terms, resolved, held>>
  PROVE  RestInv'
BY DEF RngInv, RestInv, chainVars, Past, Frozen, HeldBounty, SealedHasSlots, SlotsOfDraws,
       EntropyCanonical

\* A new block preserves the rest of the invariant: it lies after every block,
\* so no draw's entropy changes.
LEMMA TickRest == ASSUME RngInv, Tick PROVE RestInv'
<1> USE DEF Tick
<1>1. clock \in Nat /\ blocks \in SUBSET Nat /\ \A b \in blocks : b < clock
  BY DEF RngInv, TypeOK, Past
<1>2. Past'
  BY <1>1, BoundsAssumption DEF Past
<1>3. Frozen' /\ HeldBounty' /\ SealedHasSlots' /\ SlotsOfDraws'
  BY DEF RngInv, drawVars, Frozen, HeldBounty, SealedHasSlots, SlotsOfDraws
<1>4. EntropyCanonical'
  <2> SUFFICES ASSUME NEW id \in ResolveIds, resolved[id] # <<>>
               PROVE  resolved[id] \in ResolveSlotHashes(blocks \cup {clock}, terms[id].targets)
    BY DEF EntropyCanonical, drawVars
  <2>1. status[id] # "NONE" /\ resolved[id] \in ResolveSlotHashes(blocks, terms[id].targets)
    BY DEF RngInv, SlotsOfDraws, EntropyCanonical
  <2>2. terms[id].targets \in [1..3 -> Nat]
    BY <2>1, DrawFacts
  <2> QED
    BY <1>1, <2>1, <2>2, ResolveStable
<1> QED
  BY <1>2, <1>3, <1>4 DEF RestInv

\* Opening a draw preserves the rest of the invariant.
LEMMA OpenRest ==
  ASSUME RngInv, NEW a \in Actors, NEW input \in Inputs, NEW bounty \in Bounties \cup {0},
         NEW commit \in Commits \cup {NoSecret}, NEW entropy \in {"SLOT_HASH", "UNICORN_G"},
         NEW offsets, IsOffsets(offsets), NEW attestAfter \in Nat,
         Open(a, input, bounty, commit, entropy, offsets, attestAfter)
  PROVE  RestInv'
<1> DEFINE id == next_resolve_id
           targets == TargetSlots(clock, offsets)
           t == [actor |-> a, input |-> input, entropy |-> entropy,
                 targets |-> targets, expiry |-> ExpirySlot(targets),
                 attest_deadline |-> ExpirySlot(targets) + attestAfter,
                 commit |-> commit, bounty |-> bounty, fee_snapshot |-> fee]
<1>1. /\ clock \in Nat /\ fee \in Fees /\ fee \in Nat /\ input \in Nat
      /\ id \in ResolveIds /\ fee <= input
  BY AmountsAssumption DEF RngInv, TypeOK, Open
<1>2. /\ targets \in [1..3 -> Nat] /\ targets[3] \in Nat
      /\ targets[1] = clock + offsets[1] /\ targets[2] = clock + offsets[2]
      /\ targets[3] = clock + offsets[3]
  BY <1>1 DEF IsOffsets, TargetSlots
<1>3. /\ ExpirySlot(targets) \in Nat /\ ExpirySlot(targets) + attestAfter \in Nat
      /\ targets[1] <= targets[2] /\ targets[2] <= targets[3]
      /\ ExpirySlot(targets) - targets[1] <= MaxEntries
  BY <1>1, <1>2, ExpiryAfterAssumption, MaxEntriesAssumption DEF ExpirySlot, IsOffsets
<1> HIDE DEF targets
<1>4. FrozenOK(t)
  BY <1>1, <1>2, <1>3 DEF FrozenOK, Terms
<1>5. terms' = [terms EXCEPT ![id] = t]
  BY DEF Open, targets
<1> HIDE DEF t
<1>6. /\ status' = [status EXCEPT ![id] = "PREPARED"] /\ status[id] = "NONE"
      /\ held' = [held EXCEPT ![id] = bounty]
      /\ UNCHANGED <<blocks, clock, resolved>>
  BY DEF Open, chainVars
<1>7. t.bounty = bounty
  BY DEF t
<1>8. /\ status \in [ResolveIds -> DrawStatuses] /\ held \in [ResolveIds -> Nat]
      /\ terms \in [ResolveIds -> Terms \cup {NoTerms}]
  BY DEF RngInv, TypeOK
<1>9. Past'
  BY <1>6 DEF RngInv, Past
<1>10. Frozen'
  BY <1>1, <1>4, <1>5, <1>6, <1>8 DEF RngInv, Frozen
<1>11. HeldBounty'
  BY <1>1, <1>5, <1>6, <1>7, <1>8 DEF RngInv, HeldBounty
<1>12. SealedHasSlots' /\ SlotsOfDraws'
  BY <1>1, <1>6, <1>8 DEF RngInv, SealedHasSlots, SlotsOfDraws
<1>13. EntropyCanonical'
  BY <1>1, <1>5, <1>6, <1>8 DEF RngInv, SlotsOfDraws, EntropyCanonical
<1> QED
  BY <1>9, <1>10, <1>11, <1>12, <1>13 DEF RestInv

\* A handler that fixes the entropy of a prepared draw inside its window.
LEMMA FixEntropyRest ==
  ASSUME RngInv, NEW id \in ResolveIds, status[id] = "PREPARED", InWindow(id),
         NEW slots \in Resolvable(id), NEW kind, FixEntropy(id, slots, kind),
         NEW to \in {"SETTLED", "SEALED", "CLOSED"},
         status' = [status EXCEPT ![id] = to],
         UNCHANGED <<chainVars, terms>>,
         \A other \in ResolveIds \ {id} : held'[other] = held[other]
  PROVE  RestInv'
<1>1. slots \in ResolveSlotHashes(blocks, terms[id].targets) /\ slots # <<>>
  BY WindowComplete, ResolvableShape
<1>2. /\ status \in [ResolveIds -> DrawStatuses]
      /\ resolved \in [ResolveIds -> (Nat \X Nat \X Nat) \cup {<<>>}]
  BY DEF RngInv, TypeOK
<1>3. resolved' = [resolved EXCEPT ![id] = slots] /\ UNCHANGED <<clock, blocks, terms>>
  BY DEF FixEntropy, chainVars
<1>4. Past' /\ Frozen'
  BY <1>2, <1>3 DEF RngInv, Past, Frozen
<1>5. HeldBounty'
  BY <1>2, <1>3 DEF RngInv, HeldBounty
<1>6. SealedHasSlots' /\ SlotsOfDraws'
  BY <1>1, <1>2, <1>3 DEF RngInv, SealedHasSlots, SlotsOfDraws
<1>7. EntropyCanonical'
  BY <1>1, <1>2, <1>3 DEF RngInv, EntropyCanonical
<1> QED
  BY <1>4, <1>5, <1>6, <1>7 DEF RestInv

\* A handler that ends an open draw and leaves its slots as they are.
LEMMA EndDrawRest ==
  ASSUME RngInv, NEW id \in ResolveIds, status[id] # "NONE",
         NEW to \in {"SETTLED", "EXPIRED", "EXPIRED_SEALED"},
         status' = [status EXCEPT ![id] = to],
         UNCHANGED <<chainVars, terms, resolved>>,
         \A other \in ResolveIds \ {id} : held'[other] = held[other]
  PROVE  RestInv'
<1>1. status \in [ResolveIds -> DrawStatuses]
  BY DEF RngInv, TypeOK
<1>2. UNCHANGED <<clock, blocks, terms, resolved>>
  BY DEF chainVars
<1>3. Past' /\ Frozen' /\ HeldBounty'
  BY <1>1, <1>2 DEF RngInv, Past, Frozen, HeldBounty
<1>4. SealedHasSlots' /\ SlotsOfDraws' /\ EntropyCanonical'
  BY <1>1, <1>2 DEF RngInv, SealedHasSlots, SlotsOfDraws, EntropyCanonical
<1> QED
  BY <1>3, <1>4 DEF RestInv

-----------------------------------------------------------------------------
(* The invariant is inductive. *)

\* Every prepare handler preserves the invariant.
LEMMA PrepareInv == ASSUME RngInv, Prepare PROVE RngInv'
<1>1. ASSUME NEW a \in Actors, NEW input \in Inputs, NEW bounty \in Bounties,
             NEW commit \in Commits \cup {NoSecret}, PrepareRngV2(a, input, bounty, commit)
      PROVE  TypeOK' /\ RestInv'
  BY <1>1, OpenType, OpenRest, OffsetsAssumption, AttestAfterAssumption DEF PrepareRngV2
<1>2. ASSUME NEW a \in Actors, NEW input \in Inputs, NEW bounty \in Bounties,
             NEW commit \in Commits \cup {NoSecret},
             PrepareRngV2Unicorn(a, input, bounty, commit)
      PROVE  TypeOK' /\ RestInv'
  BY <1>2, OpenType, OpenRest, OffsetsAssumption, AttestAfterAssumption DEF PrepareRngV2Unicorn
<1>3. ASSUME NEW a \in Actors, NEW input \in Inputs, PrepareSlotSpin(a, input)
      PROVE  TypeOK' /\ RestInv'
  BY <1>3, OpenType, OpenRest, OffsetsAssumption DEF PrepareSlotSpin
<1> QED
  BY <1>1, <1>2, <1>3 DEF Prepare, RngInv, RestInv

\* Every handler that moves an open draw on preserves the invariant.
LEMMA ConcludeInv == ASSUME RngInv, NEW id \in ResolveIds, Conclude(id) PROVE RngInv'
<1>0. held \in [ResolveIds -> Nat]
  BY DEF RngInv, TypeOK
<1>1. ASSUME NEW a \in Actors, NEW r \in Secrets \cup {NoSecret}, SettleRngV2(a, id, r)
      PROVE  TypeOK' /\ RestInv'
  <2>1. PICK slots \in Resolvable(id) : FixEntropy(id, slots, "hashes")
    BY <1>1 DEF SettleRngV2
  <2> QED
    BY <1>1, <2>1, SettleRngV2Type, FixEntropyRest DEF SettleRngV2
<1>2. ASSUME NEW entropy, NEW kind \in {"hashes", "vdf"}, Seal(id, entropy, kind)
      PROVE  TypeOK' /\ RestInv'
  <2>1. PICK slots \in Resolvable(id) : FixEntropy(id, slots, kind)
    BY <1>2 DEF Seal
  <2>2. \A other \in ResolveIds \ {id} : held'[other] = held[other]
    BY <1>0, <1>2 DEF Seal, DebitBounty
  <2> QED
    BY <1>2, <2>1, <2>2, SealType, FixEntropyRest DEF Seal
<1>3. ASSUME NEW a \in Actors, NEW r \in Secrets \cup {NoSecret}, AttestWinners(a, id, r)
      PROVE  TypeOK' /\ RestInv'
  BY <1>3, AttestWinnersType, EndDrawRest DEF AttestWinners
<1>4. ASSUME NEW win \in Wins, SettleSlotSpin(id, win)
      PROVE  TypeOK' /\ RestInv'
  <2>1. PICK slots \in Resolvable(id) : FixEntropy(id, slots, "hashes")
    BY <1>4 DEF SettleSlotSpin
  <2> QED
    BY <1>4, <2>1, SettleSlotSpinType, FixEntropyRest DEF SettleSlotSpin
<1>5. ASSUME ExpireRngV2(id)
      PROVE  TypeOK' /\ RestInv'
  <2>1. \A other \in ResolveIds \ {id} : held'[other] = held[other]
    BY <1>0, <1>5 DEF ExpireRngV2, DebitBounty
  <2> QED
    BY <1>5, <2>1, ExpireRngV2Type, EndDrawRest DEF ExpireRngV2, Expirable
<1>6. ASSUME ExpireSealedRngV2(id)
      PROVE  TypeOK' /\ RestInv'
  BY <1>6, ExpireSealedRngV2Type, EndDrawRest DEF ExpireSealedRngV2
<1> QED
  BY <1>1, <1>2, <1>3, <1>4, <1>5, <1>6
  DEF Conclude, SealRandomness, SealRandomnessUnicorn, RngInv, RestInv

\* Whatever the format, an atomic resolve pays one of the amounts its artifact
\* may pay.
LEMMA AtomicStep ==
  ASSUME TypeOK, Atomic
  PROVE  \E input \in Inputs, payout \in Payouts[format] \cap Nat : AtomicResolve(input, payout)
<1>1. PICK input \in Inputs, payout \in Payouts[format] : AtomicResolve(input, payout)
  BY DEF Atomic, ResolveOutcome, ResolveOutcomeV4, ResolveOutcomeV121
<1>2. Payouts[format] \in SUBSET Nat
  BY AmountsAssumption DEF TypeOK
<1> QED
  BY <1>1, <1>2

\* Atomic resolves preserve the invariant.
LEMMA AtomicInv == ASSUME RngInv, Atomic PROVE RngInv'
<1>1. PICK input \in Inputs, payout \in Nat : AtomicResolve(input, payout)
  BY AtomicStep DEF RngInv
<1>2. RestInv'
  BY <1>1, DrawsUntouched DEF AtomicResolve
<1> QED
  BY <1>1, <1>2, AtomicResolveType DEF RngInv, RestInv

\* Admin operations preserve the invariant.
LEMMA AdministerInv == ASSUME RngInv, Administer PROVE RngInv'
<1>1. UNCHANGED <<chainVars, status, terms, resolved, held>>
  BY DEF Administer, SetProgramConfig, ReviewCompiledArtifact, AdminPause, RefreshMasterSeed,
         InitializeUnicornGConfig, SetUnicornGConfig, AdminWithdraw, FundVault, drawVars
<1> QED
  BY <1>1, AdministerType, DrawsUntouched DEF RngInv, RestInv

\* The invariant holds initially.
LEMMA InitInv == Init => RngInv
<1> SUFFICES ASSUME Init PROVE RngInv
  OBVIOUS
<1>1. Past /\ Frozen /\ HeldBounty /\ SealedHasSlots /\ SlotsOfDraws /\ EntropyCanonical
  BY DEF Init, Past, Frozen, HeldBounty, SealedHasSlots, SlotsOfDraws, EntropyCanonical
<1> QED
  BY <1>1, InitType DEF RngInv

\* Every step preserves the invariant.
LEMMA NextInv == RngInv /\ [Next]_vars => RngInv'
<1> SUFFICES ASSUME RngInv, [Next]_vars PROVE RngInv'
  OBVIOUS
<1>1. CASE Tick
  BY <1>1, TickType, TickRest DEF RngInv, RestInv
<1>2. CASE Prepare
  BY <1>2, PrepareInv
<1>3. CASE \E id \in ResolveIds : Conclude(id)
  BY <1>3, ConcludeInv
<1>4. CASE Atomic
  BY <1>4, AtomicInv
<1>5. CASE Administer
  BY <1>5, AdministerInv
<1>6. CASE UNCHANGED vars
  <2>1. TypeOK'
    BY <1>6 DEF vars, chainVars, configVars, drawVars, RngInv, TypeOK
  <2>2. RestInv'
    BY <1>6, DrawsUntouched DEF vars, drawVars
  <2> QED
    BY <2>1, <2>2 DEF RngInv, RestInv
<1> QED
  BY <1>1, <1>2, <1>3, <1>4, <1>5, <1>6 DEF Next

\* The inductive invariant: what prepare froze stays well formed, the bounty of
\* a prepared draw is on its account, and entropy is canonical.
THEOREM RngInvariant == Spec => []RngInv
BY InitInv, NextInv, PTL DEF Spec

\* Every account keeps the shape its Rust type gives it; in particular no
\* handler drives the vault, a bounty or a refund below zero, whatever the
\* fees, stakes and bounties and however the handlers interleave.
THEOREM TypeCorrect == Spec => []TypeOK
<1>1. RngInv => TypeOK
  BY DEF RngInv
<1> QED
  BY <1>1, RngInvariant, PTL

\* In the settlement window resolve_slot_hashes never misses an entry that was
\* evicted, for every sysvar size and every offsets that satisfy the bound the
\* unit test of rng_v2.rs asserts.
THEOREM SysvarAlwaysComplete == Spec => []SysvarComplete
BY InvImpliesEntropy, RngInvariant, PTL

\* The entropy of a draw is a function of the chain and its targets: it does
\* not depend on who settled or sealed it, nor when.
THEOREM EntropyAlwaysCanonical == Spec => []EntropyCanonical
<1>1. RngInv => EntropyCanonical
  BY DEF RngInv
<1> QED
  BY <1>1, RngInvariant, PTL

\* Three distinct blocks, all produced after the draw was prepared.
THEOREM EntropyAlwaysAfterTargets == Spec => []EntropyAfterTargets
BY InvImpliesEntropy, RngInvariant, PTL

\* Together: the entropy of a draw is fixed by the chain alone, for every sysvar
\* size, every number of draws and every pattern of skipped slots.
THEOREM EntropyAlwaysSound == Spec => []EntropySound
<1>1. SysvarComplete /\ EntropyCanonical /\ EntropyAfterTargets => EntropySound
  BY DEF EntropySound
<1> QED
  BY <1>1, SysvarAlwaysComplete, EntropyAlwaysCanonical, EntropyAlwaysAfterTargets, PTL

-----------------------------------------------------------------------------
(* Where the money of a draw ends, and what backs its resolution. *)

\* What a seal leaves for the attest to record.
SealBacked(id) ==
  status[id] = "SEALED" => evidence[id] = EvidenceOf(terms[id].entropy)

\* A draw under way has no resolution yet.
Unresolved(id) ==
  status[id] \in {"PREPARED", "SEALED"} => resolution[id] = NoResolution

DrawOK(id) ==
  /\ id >= next_resolve_id => Unused(id)
  /\ StakePlaced(id) /\ BountyPlaced(id) /\ Backed(id)
  /\ SealBacked(id) /\ Unresolved(id)

EndInv == RngInv /\ \A id \in ResolveIds : DrawOK(id)

\* Nothing of the draw id changes.
Untouched(id) ==
  /\ status'[id] = status[id] /\ terms'[id] = terms[id]
  /\ resolved'[id] = resolved[id] /\ evidence'[id] = evidence[id]
  /\ held'[id] = held[id] /\ resolution'[id] = resolution[id]
  /\ ledger'[id] = ledger[id]

Only(id) == \A other \in ResolveIds \ {id} : Untouched(other)

(***************************************************************************)
(* The ways a step can change one draw, whichever handler takes it.        *)
(***************************************************************************)
Opens(id) ==
  /\ status[id] = "NONE" /\ status'[id] = "PREPARED" /\ resolved' = resolved
  /\ ledger'[id].stake \in Nat /\ ledger'[id].refund = 0

ResolvesAtomically(id) ==
  status[id] = "NONE" /\ status'[id] = "NONE" /\ resolved' = resolved

Seals(id) ==
  /\ status[id] = "PREPARED" /\ status'[id] = "SEALED"
  /\ resolved'[id] # <<>>
  /\ ledger'[id].stake = ledger[id].stake /\ ledger'[id].refund = ledger[id].refund

Ends(id) ==
  /\ status[id] \in {"PREPARED", "SEALED"} /\ status'[id] \in {"SETTLED", "CLOSED"}
  /\ resolved'[id] # <<>>
  /\ status[id] = "SEALED" => resolved'[id] = resolved[id]
  /\ ledger'[id].stake = ledger[id].stake /\ ledger'[id].refund \in Nat

Refunds(id) ==
  /\ status[id] \in {"PREPARED", "SEALED"} /\ status'[id] \in {"EXPIRED", "EXPIRED_SEALED"}
  /\ resolved' = resolved
  /\ ledger'[id].stake = ledger[id].stake /\ ledger'[id].refund = ledger[id].stake

Changes(id) ==
  Opens(id) \/ ResolvesAtomically(id) \/ Seals(id) \/ Ends(id) \/ Refunds(id)

-----------------------------------------------------------------------------
(* Steps that leave a draw alone. *)

\* A draw that is left alone stays as it should be while ids are handed out.
LEMMA UntouchedOK ==
  ASSUME EndInv, NEW id \in ResolveIds, Untouched(id),
         next_resolve_id' \in Nat, next_resolve_id' >= next_resolve_id
  PROVE  DrawOK(id)'
<1>1. next_resolve_id \in Nat /\ id \in Nat
  BY BoundsAssumption DEF EndInv, RngInv, TypeOK, ResolveIds
<1>2. DrawOK(id)
  BY DEF EndInv
<1>3. /\ id >= next_resolve_id' => Unused(id)'
      /\ StakePlaced(id)' /\ BountyPlaced(id)' /\ SealBacked(id)' /\ Unresolved(id)'
  BY <1>1, <1>2 DEF DrawOK, Untouched, Unused, StakePlaced, BountyPlaced, SealBacked, Unresolved
<1>4. Backed(id)'
  BY <1>1, <1>2 DEF DrawOK, Untouched, Backed, ValidReveal
<1> QED
  BY <1>3, <1>4 DEF DrawOK

\* The step of one draw leaves the others alone.
LEMMA OneDraw ==
  ASSUME EndInv, RngInv', NEW id \in ResolveIds, DrawOK(id)', Only(id),
         next_resolve_id' \in Nat, next_resolve_id' >= next_resolve_id
  PROVE  EndInv'
<1>1. \A other \in ResolveIds \ {id} : DrawOK(other)'
  BY UntouchedOK DEF Only
<1> QED
  BY <1>1 DEF EndInv

-----------------------------------------------------------------------------
(* One lemma per handler. *)

\* Opening a draw: its id was unused, and its stake and bounty are where they
\* belong.
LEMMA OpenOK ==
  ASSUME EndInv, RngInv', NEW a \in Actors, NEW input \in Inputs,
         NEW bounty \in Bounties \cup {0}, NEW commit, NEW entropy, NEW offsets,
         NEW attestAfter,
         Open(a, input, bounty, commit, entropy, offsets, attestAfter)
  PROVE  EndInv' /\ \E id \in ResolveIds : Only(id) /\ Opens(id)
<1>0. PICK id \in ResolveIds : id = next_resolve_id
  BY DEF Open
<1>1. id \in ResolveIds /\ id \in Nat /\ next_resolve_id' = id + 1 /\ id = next_resolve_id
  BY <1>0, BoundsAssumption DEF Open, TakeResolveId, ResolveIds
<1>2. DrawOK(id) /\ Unused(id)
  BY <1>1 DEF EndInv, DrawOK
<1>3. /\ status \in [ResolveIds -> DrawStatuses] /\ terms \in [ResolveIds -> Terms \cup {NoTerms}]
      /\ held \in [ResolveIds -> Nat] /\ ledger \in [ResolveIds -> Flows]
  BY DEF EndInv, RngInv, TypeOK
<1>4. Only(id)
  BY <1>1, <1>3 DEF Only, Open, Untouched
<1>5. /\ status'[id] = "PREPARED" /\ terms'[id].input = input /\ terms'[id].bounty = bounty
      /\ held'[id] = bounty /\ resolution'[id] = NoResolution
      /\ ledger'[id] = [NoFlow EXCEPT !.stake = input]
  BY <1>1, <1>2, <1>3 DEF Open, Unused
<1>6. /\ ledger'[id].stake = input /\ ledger'[id].refund = 0 /\ ledger'[id].fee = 0
      /\ ledger'[id].sealer = 0 /\ ledger'[id].slash = 0
  BY <1>5 DEF NoFlow
<1>7. bounty \in Nat
  <2>1. \A x \in Bounties \cup {0} : x \in Nat
    BY AmountsAssumption
  <2> QED
    BY <2>1
<1>8. StakePlaced(id)' /\ BountyPlaced(id)' /\ SealBacked(id)' /\ Unresolved(id)'
  BY <1>1, <1>5, <1>6, <1>7 DEF StakePlaced, BountyPlaced, SealBacked, Unresolved
<1>9. Backed(id)'
  BY <1>1, <1>5 DEF Backed, NoResolution
<1>10. DrawOK(id)'
  BY <1>1, <1>8, <1>9 DEF DrawOK
<1>11. Opens(id)
  <2>1. input \in Nat
    BY AmountsAssumption
  <2> QED
    BY <1>1, <1>2, <1>5, <1>6, <2>1 DEF Opens, Unused, Open
<1> QED
  BY <1>1, <1>4, <1>10, <1>11, OneDraw

\* A single-phase settle: the stake stays in the vault, the resolution records
\* the slots and the reveal.
LEMMA SettleRngV2OK ==
  ASSUME EndInv, RngInv', NEW a, NEW id \in ResolveIds, NEW r, SettleRngV2(a, id, r)
  PROVE  EndInv' /\ Only(id) /\ Ends(id)
<1> USE DEF SettleRngV2
<1>1. PICK slots \in Resolvable(id) :
        /\ FixEntropy(id, slots, "hashes")
        /\ Resolve(id, "single_phase", "SLOT_HASH", slots, r, 0)
  OBVIOUS
<1>2. slots # <<>>
  BY ResolvableShape DEF EndInv
<1>3. DrawOK(id) /\ next_resolve_id \in Nat /\ id \in Nat
  BY BoundsAssumption DEF EndInv, RngInv, TypeOK, ResolveIds
<1>4. /\ status \in [ResolveIds -> DrawStatuses] /\ ledger \in [ResolveIds -> Flows]
      /\ resolved \in [ResolveIds -> (Nat \X Nat \X Nat) \cup {<<>>}]
      /\ evidence \in [ResolveIds -> {"none", "hashes", "vdf"}]
      /\ resolution \in [ResolveIds -> Resolutions \cup {NoResolution}]
  BY DEF EndInv, RngInv, TypeOK
<1>5. Only(id)
  BY <1>1, <1>4 DEF Only, Untouched, FixEntropy, Resolve
<1>6. /\ status'[id] = "SETTLED" /\ terms' = terms /\ held' = held
      /\ resolved'[id] = slots /\ next_resolve_id' = next_resolve_id
      /\ resolution'[id] = [via |-> "single_phase", entropy |-> "SLOT_HASH", slots |-> slots,
                            reveal |-> r, bounty |-> 0]
  BY <1>1, <1>4 DEF FixEntropy, Resolve
<1>7. /\ ledger'[id].stake = ledger[id].stake /\ ledger'[id].refund = ledger[id].refund
      /\ ledger'[id].fee = ledger[id].fee /\ ledger'[id].sealer = ledger[id].sealer
      /\ ledger'[id].slash = ledger[id].slash
  BY <1>4 DEF Flows
<1>8. id < next_resolve_id
  BY <1>3 DEF DrawOK, Unused
<1>9. StakePlaced(id)' /\ BountyPlaced(id)' /\ SealBacked(id)' /\ Unresolved(id)'
  BY <1>3, <1>6, <1>7 DEF DrawOK, StakePlaced, BountyPlaced, SealBacked, Unresolved
<1>10. Backed(id)'
  BY <1>2, <1>6 DEF Backed, ValidReveal
<1>11. DrawOK(id)'
  BY <1>3, <1>6, <1>8, <1>9, <1>10 DEF DrawOK
<1>12. Ends(id)
  <2>1. ledger'[id].refund = 0
    BY <1>3, <1>7 DEF DrawOK, StakePlaced
  <2> QED
    BY <1>2, <1>6, <1>7, <2>1 DEF Ends
<1> QED
  BY <1>3, <1>5, <1>6, <1>11, <1>12, OneDraw

\* A seal: the bounty goes to the sealer, the evidence fits the source the draw
\* was prepared for.
LEMMA SealOK ==
  ASSUME EndInv, RngInv', NEW id \in ResolveIds, NEW entropy \in {"SLOT_HASH", "UNICORN_G"},
         Seal(id, entropy, EvidenceOf(entropy))
  PROVE  EndInv' /\ Only(id) /\ Seals(id)
<1> USE DEF Seal
<1>1. PICK slots \in Resolvable(id) : FixEntropy(id, slots, EvidenceOf(entropy))
  OBVIOUS
<1>2. DrawOK(id) /\ next_resolve_id \in Nat /\ id \in Nat /\ terms[id].bounty \in Nat
  <2>1. terms[id].bounty \in Nat
    BY DrawFacts DEF EndInv
  <2> QED
    BY <2>1, BoundsAssumption DEF EndInv, RngInv, TypeOK, ResolveIds
<1>3. /\ status \in [ResolveIds -> DrawStatuses] /\ ledger \in [ResolveIds -> Flows]
      /\ resolved \in [ResolveIds -> (Nat \X Nat \X Nat) \cup {<<>>}]
      /\ evidence \in [ResolveIds -> {"none", "hashes", "vdf"}]
      /\ held \in [ResolveIds -> Nat]
  BY DEF EndInv, RngInv, TypeOK
<1>4. Only(id)
  BY <1>1, <1>3 DEF Only, Untouched, FixEntropy, DebitBounty
<1>5. /\ status'[id] = "SEALED" /\ terms' = terms /\ resolution' = resolution
      /\ evidence'[id] = EvidenceOf(terms[id].entropy)
      /\ held'[id] = held[id] - terms[id].bounty /\ next_resolve_id' = next_resolve_id
  BY <1>1, <1>3 DEF FixEntropy, DebitBounty, SourceIs
<1>6. /\ ledger'[id].stake = ledger[id].stake /\ ledger'[id].refund = ledger[id].refund
      /\ ledger'[id].fee = ledger[id].fee /\ ledger'[id].sealer = terms[id].bounty
      /\ ledger'[id].slash = ledger[id].slash
  BY <1>3 DEF Flows
<1>7. ledger[id].sealer \in Nat /\ ledger[id].slash \in Nat /\ held[id] \in Nat
  BY <1>3 DEF Flows
<1>8. id < next_resolve_id
  BY <1>2 DEF DrawOK, Unused
<1>9. StakePlaced(id)' /\ SealBacked(id)' /\ Unresolved(id)'
  BY <1>2, <1>5, <1>6 DEF DrawOK, StakePlaced, SealBacked, Unresolved
<1>10. BountyPlaced(id)'
  <2>1. /\ held[id] + ledger[id].sealer + ledger[id].slash = terms[id].bounty
        /\ held[id] = terms[id].bounty
    BY <1>2 DEF DrawOK, BountyPlaced
  <2>2. ledger[id].slash = 0 /\ held'[id] = 0
    BY <1>2, <1>5, <1>7, <2>1
  <2> QED
    BY <1>2, <1>5, <1>6, <2>2 DEF BountyPlaced
<1>11. Backed(id)'
  BY <1>2, <1>5 DEF DrawOK, Unresolved, Backed, NoResolution
<1>12. DrawOK(id)'
  BY <1>2, <1>5, <1>8, <1>9, <1>10, <1>11 DEF DrawOK
<1>13. Seals(id)
  <2>1. slots # <<>>
    BY ResolvableShape DEF EndInv
  <2>2. resolved'[id] = slots
    BY <1>1, <1>3 DEF FixEntropy
  <2> QED
    BY <1>5, <1>6, <2>1, <2>2 DEF Seals
<1> QED
  BY <1>2, <1>4, <1>5, <1>12, <1>13, OneDraw

\* What a payout does to the books of a draw.
LEMMA PayStakeBooks ==
  ASSUME EndInv, NEW id \in ResolveIds, NEW toActor, NEW toTreasury,
         PayStake(id, toActor, toTreasury)
  PROVE  /\ \A other \in ResolveIds \ {id} : ledger'[other] = ledger[other]
         /\ ledger'[id].stake = ledger[id].stake /\ ledger'[id].refund = toActor
         /\ ledger'[id].fee = toTreasury /\ ledger'[id].sealer = ledger[id].sealer
         /\ ledger'[id].slash = ledger[id].slash
<1>1. ledger \in [ResolveIds -> Flows]
  BY DEF EndInv, RngInv, TypeOK
<1> QED
  BY <1>1 DEF PayStake, Flows

\* An attest: the stake is split by the frozen fee, and the resolution is backed
\* by what the seal left.
LEMMA AttestWinnersOK ==
  ASSUME EndInv, RngInv', NEW a, NEW id \in ResolveIds, NEW r, AttestWinners(a, id, r)
  PROVE  EndInv' /\ Only(id) /\ Ends(id)
<1> USE DEF AttestWinners
<1>1. /\ DrawOK(id) /\ next_resolve_id \in Nat /\ id \in Nat
      /\ terms[id].input \in Nat /\ terms[id].fee_snapshot \in Nat
  <2>1. terms[id].input \in Nat /\ terms[id].fee_snapshot \in Nat
    BY DrawFacts DEF EndInv
  <2> QED
    BY <2>1, BoundsAssumption DEF EndInv, RngInv, TypeOK, ResolveIds
<1>2. /\ status \in [ResolveIds -> DrawStatuses]
      /\ resolution \in [ResolveIds -> Resolutions \cup {NoResolution}]
  BY DEF EndInv, RngInv, TypeOK
<1>3. Only(id)
  BY <1>2, PayStakeBooks DEF Only, Untouched, Resolve
<1>4. /\ status'[id] = "SETTLED" /\ terms' = terms /\ held' = held
      /\ resolved' = resolved /\ evidence' = evidence /\ next_resolve_id' = next_resolve_id
      /\ resolution'[id] = [via |-> "two_phase", entropy |-> terms[id].entropy,
                            slots |-> resolved[id], reveal |-> r, bounty |-> terms[id].bounty]
  BY <1>2 DEF Resolve
<1>5. resolved[id] # <<>>
  BY DEF EndInv, RngInv, SealedHasSlots
<1>6. /\ ledger'[id].stake = ledger[id].stake
      /\ ledger'[id].refund = terms[id].input - terms[id].fee_snapshot
      /\ ledger'[id].fee = terms[id].fee_snapshot
      /\ ledger'[id].sealer = ledger[id].sealer /\ ledger'[id].slash = ledger[id].slash
  BY PayStakeBooks DEF StakeLessFee, FeeTaken
<1>7. id < next_resolve_id
  BY <1>1 DEF DrawOK, Unused
<1>8. StakePlaced(id)' /\ BountyPlaced(id)' /\ SealBacked(id)' /\ Unresolved(id)'
  BY <1>1, <1>4, <1>6 DEF DrawOK, StakePlaced, BountyPlaced, SealBacked, Unresolved
<1>9. Backed(id)'
  <2>1. ledger[id].sealer = terms[id].bounty /\ evidence[id] = EvidenceOf(terms[id].entropy)
    BY <1>1 DEF DrawOK, BountyPlaced, SealBacked
  <2> QED
    BY <1>4, <1>5, <1>6, <2>1 DEF Backed, ValidReveal
<1>10. DrawOK(id)'
  BY <1>1, <1>4, <1>7, <1>8, <1>9 DEF DrawOK
<1>11. Ends(id)
  <2>1. StakeLessFee(id) \in Nat
    BY DrawFacts DEF EndInv
  <2> QED
    BY <1>4, <1>5, <1>6, <2>1 DEF Ends, StakeLessFee
<1> QED
  BY <1>1, <1>3, <1>4, <1>10, <1>11, OneDraw

\* Cranking a spin: at most the capped win leaves, and the frozen fee.
LEMMA SettleSlotSpinOK ==
  ASSUME EndInv, RngInv', NEW id \in ResolveIds, NEW win \in Wins, SettleSlotSpin(id, win)
  PROVE  EndInv' /\ Only(id) /\ Ends(id)
<1> USE DEF SettleSlotSpin
<1>1. PICK slots \in Resolvable(id) : FixEntropy(id, slots, "hashes")
  OBVIOUS
<1>2. DrawOK(id) /\ next_resolve_id \in Nat /\ id \in Nat
  BY BoundsAssumption DEF EndInv, RngInv, TypeOK, ResolveIds
<1>3. /\ status \in [ResolveIds -> DrawStatuses]
      /\ resolved \in [ResolveIds -> (Nat \X Nat \X Nat) \cup {<<>>}]
      /\ evidence \in [ResolveIds -> {"none", "hashes", "vdf"}]
  BY DEF EndInv, RngInv, TypeOK
<1>4. Only(id)
  BY <1>1, <1>3, PayStakeBooks DEF Only, Untouched, FixEntropy
<1>5. /\ status'[id] = "CLOSED" /\ terms' = terms /\ held' = held
      /\ resolution' = resolution /\ next_resolve_id' = next_resolve_id
  BY <1>3
<1>6. /\ ledger'[id].stake = ledger[id].stake
      /\ ledger'[id].refund = ClampWin(win, terms[id].input)
      /\ ledger'[id].fee = terms[id].fee_snapshot
      /\ ledger'[id].sealer = ledger[id].sealer /\ ledger'[id].slash = ledger[id].slash
  BY PayStakeBooks DEF FeeTaken
<1>7. ClampWin(win, terms[id].input) <= MaxWinCap(terms[id].input)
  <2>1. terms[id].input \in Nat
    BY DrawFacts DEF EndInv
  <2>2. MaxWinCap(terms[id].input) \in Int
    BY <2>1, AmountsAssumption DEF MaxWinCap
  <2>3. win \in Nat
    BY AmountsAssumption
  <2> QED
    BY <2>2, <2>3 DEF ClampWin
<1>8. id < next_resolve_id
  BY <1>2 DEF DrawOK, Unused
<1>9. StakePlaced(id)' /\ BountyPlaced(id)' /\ SealBacked(id)' /\ Unresolved(id)'
  BY <1>2, <1>5, <1>6, <1>7 DEF DrawOK, StakePlaced, BountyPlaced, SealBacked, Unresolved, MaxWinCap
<1>10. Backed(id)'
  BY <1>2, <1>5 DEF DrawOK, Unresolved, Backed, NoResolution
<1>11. DrawOK(id)'
  BY <1>2, <1>5, <1>8, <1>9, <1>10 DEF DrawOK
<1>12. Ends(id)
  <2>1. slots # <<>>
    BY ResolvableShape DEF EndInv
  <2>2. resolved'[id] = slots
    BY <1>1, <1>3 DEF FixEntropy
  <2>3. ledger'[id].refund \in Nat
    BY DEF RngInv, TypeOK, Flows
  <2> QED
    BY <1>5, <1>6, <2>1, <2>2, <2>3 DEF Ends
<1> QED
  BY <1>2, <1>4, <1>5, <1>11, <1>12, OneDraw

\* The expiry of a prepared draw: the stake goes back, the bounty is slashed.
LEMMA ExpireRngV2OK ==
  ASSUME EndInv, RngInv', NEW id \in ResolveIds, ExpireRngV2(id)
  PROVE  EndInv' /\ Only(id) /\ Refunds(id)
<1> USE DEF ExpireRngV2, Expirable
<1>1. DrawOK(id) /\ next_resolve_id \in Nat /\ id \in Nat /\ terms[id].bounty \in Nat
  <2>1. terms[id].bounty \in Nat
    BY DrawFacts DEF EndInv
  <2> QED
    BY <2>1, BoundsAssumption DEF EndInv, RngInv, TypeOK, ResolveIds
<1>2. /\ status \in [ResolveIds -> DrawStatuses] /\ ledger \in [ResolveIds -> Flows]
      /\ held \in [ResolveIds -> Nat]
  BY DEF EndInv, RngInv, TypeOK
<1>3. Only(id)
  BY <1>2 DEF Only, Untouched, DebitBounty
<1>4. /\ status'[id] = "EXPIRED" /\ terms' = terms /\ resolution' = resolution
      /\ held'[id] = held[id] - terms[id].bounty /\ next_resolve_id' = next_resolve_id
  BY <1>2 DEF DebitBounty
<1>5. /\ ledger'[id].stake = ledger[id].stake /\ ledger'[id].refund = terms[id].input
      /\ ledger'[id].fee = ledger[id].fee /\ ledger'[id].sealer = ledger[id].sealer
      /\ ledger'[id].slash = terms[id].bounty
  BY <1>2 DEF Flows, ExpiryRefund
<1>6. ledger[id].sealer \in Nat /\ ledger[id].slash \in Nat /\ held[id] \in Nat
  BY <1>2 DEF Flows
<1>7. id < next_resolve_id
  BY <1>1 DEF DrawOK, Unused
<1>8. StakePlaced(id)' /\ SealBacked(id)' /\ Unresolved(id)'
  BY <1>1, <1>4, <1>5 DEF DrawOK, StakePlaced, SealBacked, Unresolved
<1>9. BountyPlaced(id)'
  <2>1. /\ held[id] + ledger[id].sealer + ledger[id].slash = terms[id].bounty
        /\ held[id] = terms[id].bounty
    BY <1>1 DEF DrawOK, BountyPlaced
  <2>2. ledger[id].sealer = 0 /\ held'[id] = 0
    BY <1>1, <1>4, <1>6, <2>1
  <2> QED
    BY <1>1, <1>4, <1>5, <2>2 DEF BountyPlaced
<1>10. Backed(id)'
  BY <1>1, <1>4 DEF DrawOK, Unresolved, Backed, NoResolution
<1>11. DrawOK(id)'
  BY <1>1, <1>4, <1>7, <1>8, <1>9, <1>10 DEF DrawOK
<1>12. Refunds(id)
  BY <1>1, <1>4, <1>5 DEF Refunds, DrawOK, StakePlaced
<1> QED
  BY <1>1, <1>3, <1>4, <1>11, <1>12, OneDraw

\* The expiry of a sealed draw: the stake goes back, the sealer keeps the bounty.
LEMMA ExpireSealedRngV2OK ==
  ASSUME EndInv, RngInv', NEW id \in ResolveIds, ExpireSealedRngV2(id)
  PROVE  EndInv' /\ Only(id) /\ Refunds(id)
<1> USE DEF ExpireSealedRngV2
<1>1. DrawOK(id) /\ next_resolve_id \in Nat /\ id \in Nat
  BY BoundsAssumption DEF EndInv, RngInv, TypeOK, ResolveIds
<1>2. status \in [ResolveIds -> DrawStatuses]
  BY DEF EndInv, RngInv, TypeOK
<1>3. Only(id)
  BY <1>2, PayStakeBooks DEF Only, Untouched
<1>4. /\ status'[id] = "EXPIRED_SEALED" /\ terms' = terms /\ resolution' = resolution
      /\ held' = held /\ next_resolve_id' = next_resolve_id
  BY <1>2
<1>5. /\ ledger'[id].stake = ledger[id].stake /\ ledger'[id].refund = terms[id].input
      /\ ledger'[id].fee = 0 /\ ledger'[id].sealer = ledger[id].sealer
      /\ ledger'[id].slash = ledger[id].slash
  BY PayStakeBooks DEF ExpiryRefund
<1>6. id < next_resolve_id
  BY <1>1 DEF DrawOK, Unused
<1>7. StakePlaced(id)' /\ BountyPlaced(id)' /\ SealBacked(id)' /\ Unresolved(id)'
  BY <1>1, <1>4, <1>5 DEF DrawOK, StakePlaced, BountyPlaced, SealBacked, Unresolved
<1>8. Backed(id)'
  BY <1>1, <1>4 DEF DrawOK, Unresolved, Backed, NoResolution
<1>9. DrawOK(id)'
  BY <1>1, <1>4, <1>6, <1>7, <1>8 DEF DrawOK
<1>10. Refunds(id)
  BY <1>1, <1>4, <1>5 DEF Refunds, DrawOK, StakePlaced
<1> QED
  BY <1>1, <1>3, <1>4, <1>9, <1>10, OneDraw

\* An atomic resolve: its id was unused, and opens no draw.
LEMMA AtomicResolveOK ==
  ASSUME EndInv, RngInv', NEW input, NEW payout, AtomicResolve(input, payout)
  PROVE  EndInv' /\ \E id \in ResolveIds : Only(id) /\ ResolvesAtomically(id)
<1> USE DEF AtomicResolve
<1>0. PICK id \in ResolveIds : id = next_resolve_id
  OBVIOUS
<1>1. id \in Nat /\ next_resolve_id' = id + 1
  BY <1>0, BoundsAssumption DEF TakeResolveId, ResolveIds
<1>2. Unused(id)
  BY <1>0, <1>1 DEF EndInv, DrawOK
<1>3. /\ ledger \in [ResolveIds -> Flows]
      /\ resolution \in [ResolveIds -> Resolutions \cup {NoResolution}]
  BY DEF EndInv, RngInv, TypeOK
<1>4. Only(id)
  BY <1>0, <1>3 DEF Only, Untouched, Resolve
<1>5. /\ status'[id] = "NONE"
      /\ resolution'[id] = [via |-> "atomic", entropy |-> "RNG_V1", slots |-> <<master_seed>>,
                            reveal |-> NoSecret, bounty |-> 0]
  BY <1>0, <1>2, <1>3 DEF Resolve, Unused
<1>6. StakePlaced(id)' /\ BountyPlaced(id)' /\ SealBacked(id)' /\ Unresolved(id)'
  BY <1>5 DEF StakePlaced, BountyPlaced, SealBacked, Unresolved
<1>7. Backed(id)'
  BY <1>1, <1>5 DEF Backed
<1>8. DrawOK(id)'
  BY <1>1, <1>6, <1>7 DEF DrawOK
<1>9. ResolvesAtomically(id)
  BY <1>2, <1>5 DEF ResolvesAtomically, Unused
<1> QED
  BY <1>0, <1>1, <1>4, <1>8, <1>9, OneDraw

-----------------------------------------------------------------------------
(* Every step, and the theorems. *)

\* A step leaves every draw alone or changes one of them, and preserves the
\* invariant.
LEMMA NextEnd ==
  ASSUME EndInv, [Next]_vars
  PROVE  /\ EndInv'
         /\ \/ \A id \in ResolveIds : Untouched(id)
            \/ \E id \in ResolveIds : Only(id) /\ Changes(id)
<1>1. RngInv'
  BY NextInv DEF EndInv
<1> USE DEF Changes
<1>2. ASSUME UNCHANGED drawVars, UNCHANGED next_resolve_id
      PROVE  EndInv' /\ \A id \in ResolveIds : Untouched(id)
  <2>1. \A id \in ResolveIds : Untouched(id)
    BY <1>2 DEF drawVars, Untouched
  <2>2. next_resolve_id' \in Nat /\ next_resolve_id' >= next_resolve_id
    BY <1>2, BoundsAssumption DEF EndInv, RngInv, TypeOK
  <2>3. \A id \in ResolveIds : DrawOK(id)'
    BY <2>1, <2>2, UntouchedOK
  <2> QED
    BY <1>1, <2>1, <2>3 DEF EndInv
<1>3. CASE Tick \/ Administer \/ UNCHANGED vars
  <2>1. UNCHANGED drawVars /\ UNCHANGED next_resolve_id
    BY <1>3 DEF Tick, Administer, SetProgramConfig, ReviewCompiledArtifact, AdminPause,
                RefreshMasterSeed, InitializeUnicornGConfig, SetUnicornGConfig,
                AdminWithdraw, FundVault, vars
  <2> QED
    BY <1>2, <2>1
<1>4. CASE Prepare
  <2>1. ASSUME NEW a \in Actors, NEW input \in Inputs, NEW bounty \in Bounties,
               NEW commit \in Commits \cup {NoSecret},
               \/ PrepareRngV2(a, input, bounty, commit)
               \/ PrepareRngV2Unicorn(a, input, bounty, commit)
        PROVE  EndInv' /\ \E id \in ResolveIds : Only(id) /\ Opens(id)
    BY <1>1, <2>1, OpenOK DEF PrepareRngV2, PrepareRngV2Unicorn
  <2>2. ASSUME NEW a \in Actors, NEW input \in Inputs, PrepareSlotSpin(a, input)
        PROVE  EndInv' /\ \E id \in ResolveIds : Only(id) /\ Opens(id)
    BY <1>1, <2>2, OpenOK DEF PrepareSlotSpin
  <2> QED
    BY <1>4, <2>1, <2>2 DEF Prepare
<1>5. ASSUME NEW id \in ResolveIds, Conclude(id)
      PROVE  EndInv' /\ Only(id) /\ Changes(id)
  <2>1. ASSUME SealRandomness(id) PROVE EndInv' /\ Only(id) /\ Seals(id)
    BY <1>1, <2>1, SealOK DEF SealRandomness, EvidenceOf
  <2>2. ASSUME SealRandomnessUnicorn(id) PROVE EndInv' /\ Only(id) /\ Seals(id)
    BY <1>1, <2>2, SealOK DEF SealRandomnessUnicorn, EvidenceOf
  <2> QED
    BY <1>1, <1>5, <2>1, <2>2, SettleRngV2OK, AttestWinnersOK, SettleSlotSpinOK,
       ExpireRngV2OK, ExpireSealedRngV2OK
    DEF Conclude
<1>6. CASE Atomic
  <2>1. PICK input \in Inputs, payout \in Nat : AtomicResolve(input, payout)
    BY <1>6, AtomicStep DEF EndInv, RngInv
  <2> QED
    BY <1>1, <2>1, AtomicResolveOK
<1> QED
  BY <1>3, <1>4, <1>5, <1>6 DEF Next

\* A fresh runtime satisfies the invariant.
LEMMA InitEnd == Init => EndInv
<1> SUFFICES ASSUME Init, NEW id \in ResolveIds PROVE DrawOK(id)
  BY InitInv DEF EndInv
<1>1. status[id] = "NONE" /\ resolution[id] = NoResolution /\ ledger[id] = NoFlow
  BY DEF Init
<1>2. Backed(id)
  BY <1>1 DEF Backed, NoResolution
<1> QED
  BY <1>1, <1>2 DEF DrawOK, Unused, StakePlaced, BountyPlaced, SealBacked, Unresolved

\* The inductive invariant about endings.
THEOREM EndInvariant == Spec => []EndInv
<1>1. EndInv /\ [Next]_vars => EndInv'
  BY NextEnd
<1> QED
  BY <1>1, InitEnd, PTL DEF Spec

\* No init constraint of a prepare or a resolve ever fails on an id in use.
THEOREM IdsAlwaysFresh == Spec => []FreshIds
<1>1. EndInv => FreshIds
  BY DEF EndInv, DrawOK, FreshIds
<1> QED
  BY <1>1, EndInvariant, PTL

\* In every status, whatever the fees did since prepare, the stake is where the
\* handlers owe it to be: in the vault, back with the actor, or split.
THEOREM StakesAlwaysPlaced == Spec => []StakeDisposition
<1>1. EndInv => StakeDisposition
  BY DEF EndInv, DrawOK, StakeDisposition
<1> QED
  BY <1>1, EndInvariant, PTL

\* A bounty is paid at most once and never lost from the books.
THEOREM BountiesAlwaysPlaced == Spec => []BountyDisposition
<1>1. EndInv => BountyDisposition
  BY DEF EndInv, DrawOK, BountyDisposition
<1> QED
  BY <1>1, EndInvariant, PTL

\* Stake and bounty of every draw are accounted for in every status, for every
\* number of draws and whatever the amounts.
THEOREM FundsAlwaysPlaced == Spec => []FundsPlaced
<1>1. StakeDisposition /\ BountyDisposition => FundsPlaced
  BY DEF FundsPlaced
<1> QED
  BY <1>1, StakesAlwaysPlaced, BountiesAlwaysPlaced, PTL

\* Every resolution of a draw is backed by the seal, the slots and the reveal it
\* records.
THEOREM ResolutionsAlwaysBacked == Spec => []ResolutionBacked
<1>1. EndInv => ResolutionBacked
  BY DEF EndInv, DrawOK, ResolutionBacked
<1> QED
  BY <1>1, EndInvariant, PTL

\* Fresh ids and backed resolutions together.
THEOREM ResolutionsAlwaysSound == Spec => []ResolutionsSound
<1>1. FreshIds /\ ResolutionBacked => ResolutionsSound
  BY DEF ResolutionsSound
<1> QED
  BY <1>1, IdsAlwaysFresh, ResolutionsAlwaysBacked, PTL

\* No late settle, seal, attest, expiry or crank touches a concluded draw.
THEOREM EndingsAreFinal == Spec => ConcludedIsFinal
<1>1. ASSUME EndInv, [Next]_vars, NEW id \in ResolveIds,
             status[id] \in {"SETTLED", "EXPIRED", "EXPIRED_SEALED", "CLOSED"}
      PROVE  /\ status'[id] = status[id] /\ resolved'[id] = resolved[id]
             /\ resolution'[id] = resolution[id] /\ ledger'[id] = ledger[id]
  <2>1. Untouched(id)
    BY <1>1, NextEnd DEF Only, Changes, Opens, ResolvesAtomically, Seals, Ends, Refunds
  <2> QED
    BY <2>1 DEF Untouched
<1>2. EndInv /\ [Next]_vars =>
        [\A id \in ResolveIds :
           status[id] \in {"SETTLED", "EXPIRED", "EXPIRED_SEALED", "CLOSED"} =>
             /\ status'[id] = status[id] /\ resolved'[id] = resolved[id]
             /\ resolution'[id] = resolution[id] /\ ledger'[id] = ledger[id]]_vars
  BY <1>1
<1> QED
  BY <1>2, EndInvariant, PTL DEF Spec, ConcludedIsFinal

-----------------------------------------------------------------------------
(* Refinement. *)

phaseOf == [id \in ResolveIds |-> PhaseOf(status[id])]
stakeOf == [id \in ResolveIds |-> EscrowFlow(id, "stake")]
backOf == [id \in ResolveIds |-> EscrowFlow(id, "refund")]

\* A fresh runtime is an empty escrow.
LEMMA InitEscrow == Init => Escrow!Init
BY DEF Init, Escrow!Init, PhaseOf, EscrowFlow

\* A draw that is left alone is left alone in the escrow.
LEMMA UntouchedEscrow ==
  ASSUME NEW id \in ResolveIds, Untouched(id)
  PROVE  /\ phaseOf'[id] = phaseOf[id] /\ resolved'[id] = resolved[id]
         /\ stakeOf'[id] = stakeOf[id] /\ backOf'[id] = backOf[id]
BY DEF Untouched, phaseOf, stakeOf, backOf, PhaseOf, EscrowFlow

\* What a change of one draw is in the escrow.
LEMMA ChangeEscrow ==
  ASSUME EndInv, EndInv', NEW id \in ResolveIds, Only(id), Changes(id)
  PROVE  Escrow!Next \/ UNCHANGED Escrow!escrowVars
<1>0. /\ resolved \in [ResolveIds -> (Nat \X Nat \X Nat) \cup {<<>>}]
      /\ resolved' \in [ResolveIds -> (Nat \X Nat \X Nat) \cup {<<>>}]
      /\ ledger[id] \in Flows /\ ledger'[id] \in Flows
      /\ status[id] \in DrawStatuses /\ status'[id] \in DrawStatuses
  BY DEF EndInv, RngInv, TypeOK
<1>1. \A other \in ResolveIds \ {id} :
        /\ phaseOf'[other] = phaseOf[other] /\ resolved'[other] = resolved[other]
        /\ stakeOf'[other] = stakeOf[other] /\ backOf'[other] = backOf[other]
  BY UntouchedEscrow DEF Only
<1>2. /\ phaseOf' = [phaseOf EXCEPT ![id] = phaseOf'[id]]
      /\ resolved' = [resolved EXCEPT ![id] = resolved'[id]]
      /\ stakeOf' = [stakeOf EXCEPT ![id] = stakeOf'[id]]
      /\ backOf' = [backOf EXCEPT ![id] = backOf'[id]]
  BY <1>0, <1>1 DEF phaseOf, stakeOf, backOf
<1>3. /\ phaseOf[id] = PhaseOf(status[id]) /\ phaseOf'[id] = PhaseOf(status'[id])
      /\ status[id] # "NONE" => stakeOf[id] = ledger[id].stake /\ backOf[id] = ledger[id].refund
      /\ status[id] = "NONE" => stakeOf[id] = 0 /\ backOf[id] = 0
      /\ status'[id] # "NONE" => stakeOf'[id] = ledger'[id].stake /\ backOf'[id] = ledger'[id].refund
      /\ status'[id] = "NONE" => stakeOf'[id] = 0 /\ backOf'[id] = 0
  BY DEF phaseOf, stakeOf, backOf, EscrowFlow
<1>4. UNCHANGED Escrow!escrowVars <=>
        phaseOf' = phaseOf /\ resolved' = resolved /\ stakeOf' = stakeOf /\ backOf' = backOf
  BY DEF Escrow!escrowVars, phaseOf, stakeOf, backOf
<1>5. /\ phaseOf'[id] = phaseOf[id] => phaseOf' = phaseOf
      /\ stakeOf'[id] = stakeOf[id] => stakeOf' = stakeOf
      /\ backOf'[id] = backOf[id] => backOf' = backOf
  <2>1. /\ phaseOf = [phaseOf EXCEPT ![id] = phaseOf[id]]
        /\ stakeOf = [stakeOf EXCEPT ![id] = stakeOf[id]]
        /\ backOf = [backOf EXCEPT ![id] = backOf[id]]
    BY DEF phaseOf, stakeOf, backOf
  <2> QED
    BY <1>2, <2>1
<1>6. CASE Opens(id)
  <2>1. phaseOf[id] = "none" /\ phaseOf'[id] = "staked"
    BY <1>3, <1>6 DEF Opens, PhaseOf
  <2>2. stakeOf'[id] \in Nat /\ backOf' = backOf /\ resolved' = resolved
    BY <1>3, <1>5, <1>6 DEF Opens
  <2>3. phaseOf' = [phaseOf EXCEPT ![id] = "staked"]
    BY <1>2, <2>1
  <2>4. Escrow!Stake(id)
    BY <1>2, <2>1, <2>2, <2>3 DEF Escrow!Stake, Escrow!OnlyAt, phaseOf, stakeOf, backOf
  <2> QED
    BY <2>4 DEF Escrow!Next
<1>7. CASE ResolvesAtomically(id)
  <2>1. phaseOf'[id] = phaseOf[id] /\ stakeOf'[id] = stakeOf[id] /\ backOf'[id] = backOf[id]
    BY <1>3, <1>7 DEF ResolvesAtomically
  <2> QED
    BY <1>4, <1>5, <1>7, <2>1 DEF ResolvesAtomically
<1>8. CASE Seals(id)
  <2>1. phaseOf[id] = "staked" /\ phaseOf'[id] = "decided"
    BY <1>3, <1>8 DEF Seals, PhaseOf
  <2>2. resolved'[id] # <<>> /\ stakeOf' = stakeOf /\ backOf' = backOf
    BY <1>3, <1>5, <1>8 DEF Seals
  <2>3. phaseOf' = [phaseOf EXCEPT ![id] = "decided"]
    BY <1>2, <2>1
  <2>4. Escrow!Decide(id)
    BY <1>2, <2>1, <2>2, <2>3 DEF Escrow!Decide, Escrow!OnlyAt, phaseOf, stakeOf, backOf
  <2> QED
    BY <2>4 DEF Escrow!Next
<1>9. CASE Ends(id)
  <2>1. phaseOf[id] \in {"staked", "decided"} /\ phaseOf'[id] = "resolved"
    BY <1>3, <1>9 DEF Ends, PhaseOf
  <2>2. /\ resolved'[id] # <<>> /\ stakeOf' = stakeOf /\ backOf'[id] \in Nat
        /\ phaseOf[id] = "decided" => resolved'[id] = resolved[id]
    BY <1>3, <1>5, <1>9 DEF Ends, PhaseOf
  <2>3. phaseOf' = [phaseOf EXCEPT ![id] = "resolved"]
    BY <1>2, <2>1
  <2>4. Escrow!Resolve(id)
    BY <1>2, <2>1, <2>2, <2>3 DEF Escrow!Resolve, Escrow!OnlyAt, phaseOf, stakeOf, backOf
  <2> QED
    BY <2>4 DEF Escrow!Next
<1>10. CASE Refunds(id)
  <2>1. phaseOf[id] \in {"staked", "decided"} /\ phaseOf'[id] = "refunded"
    BY <1>3, <1>10 DEF Refunds, PhaseOf
  <2>2. resolved' = resolved /\ stakeOf' = stakeOf /\ backOf'[id] = stakeOf[id]
    BY <1>3, <1>5, <1>10 DEF Refunds
  <2>3. /\ phaseOf' = [phaseOf EXCEPT ![id] = "refunded"]
        /\ backOf' = [backOf EXCEPT ![id] = stakeOf[id]]
    BY <1>2, <2>1, <2>2
  <2>4. Escrow!Refund(id)
    BY <2>1, <2>2, <2>3 DEF Escrow!Refund, phaseOf, stakeOf, backOf
  <2> QED
    BY <2>4 DEF Escrow!Next
<1> QED
  BY <1>6, <1>7, <1>8, <1>9, <1>10 DEF Changes

\* The handlers implement the escrow: one stake per draw, entropy fixed once,
\* one ending, and a refund returns the whole stake.
THEOREM LifecycleImplementsEscrow == Spec => ImplementsEscrow
<1>1. EndInv /\ EndInv' /\ [Next]_vars => [Escrow!Next]_Escrow!escrowVars
  <2> SUFFICES ASSUME EndInv, EndInv', [Next]_vars
               PROVE  Escrow!Next \/ UNCHANGED Escrow!escrowVars
    OBVIOUS
  <2>1. CASE \A id \in ResolveIds : Untouched(id)
    <3>1. \A id \in ResolveIds :
            /\ phaseOf'[id] = phaseOf[id] /\ resolved'[id] = resolved[id]
            /\ stakeOf'[id] = stakeOf[id] /\ backOf'[id] = backOf[id]
      BY <2>1, UntouchedEscrow
    <3>2. /\ resolved \in [ResolveIds -> (Nat \X Nat \X Nat) \cup {<<>>}]
          /\ resolved' \in [ResolveIds -> (Nat \X Nat \X Nat) \cup {<<>>}]
      BY DEF EndInv, RngInv, TypeOK
    <3>3. phaseOf' = phaseOf /\ resolved' = resolved /\ stakeOf' = stakeOf /\ backOf' = backOf
      BY <3>1, <3>2 DEF phaseOf, stakeOf, backOf
    <3> QED
      BY <3>3 DEF Escrow!escrowVars, phaseOf, stakeOf, backOf
  <2>2. CASE \E id \in ResolveIds : Only(id) /\ Changes(id)
    BY <2>2, ChangeEscrow
  <2> QED
    BY <2>1, <2>2, NextEnd
<1> QED
  BY <1>1, InitEscrow, EndInvariant, PTL DEF Spec, ImplementsEscrow, Escrow!Spec

-----------------------------------------------------------------------------
(* The books of the vault. *)

\* What an id that opened no draw, and a spin, may have cost the vault.
CostOK(id) ==
  /\ status[id] = "NONE" =>
       ledger[id].fee = 0 /\ ledger[id].refund \in Payouts[format] \cup {0}
  /\ status[id] = "CLOSED" => format = "slot"

BooksInv == EndInv /\ VaultLedger /\ \A id \in ResolveIds : CostOK(id)

\* What the step does to the vault, beyond funding it and withdrawing from it, is
\* what it writes into the flows of id.
Balanced(id) == vault' - external' = vault - external - InVault(id) + InVault(id)'

Lamports == [id \in ResolveIds |-> InVault(id)]

\* The ids are finitely many, and each has a whole number of lamports in the vault,
\* before a step and after it.
LEMMA LamportsType ==
  ASSUME TypeOK, TypeOK'
  PROVE  /\ IsFiniteSet(ResolveIds)
         /\ Lamports \in [ResolveIds -> Int] /\ Lamports' \in [ResolveIds -> Int]
<1>1. IsFiniteSet(ResolveIds)
  BY BoundsAssumption, FS_Interval DEF ResolveIds
<1>2. ASSUME NEW id \in ResolveIds PROVE InVault(id) \in Int /\ InVault(id)' \in Int
  <2>1. ledger[id] \in Flows /\ ledger'[id] \in Flows
    BY DEF TypeOK
  <2> QED
    BY <2>1 DEF Flows, InVault
<1> QED
  BY <1>1, <1>2 DEF Lamports

\* Steps that touch one draw and balance keep the ledger of the vault.
LEMMA OneDrawBooks ==
  ASSUME TypeOK, TypeOK', VaultLedger, NEW id \in ResolveIds, Only(id), Balanced(id)
  PROVE  VaultLedger'
<1>1. /\ IsFiniteSet(ResolveIds)
      /\ Lamports \in [ResolveIds -> Int] /\ Lamports' \in [ResolveIds -> Int]
  BY LamportsType
<1>2. \A other \in ResolveIds \ {id} : Lamports[other] = Lamports'[other]
  BY DEF Only, Untouched, Lamports, InVault
<1>3. Lamports[id] = InVault(id) /\ Lamports'[id] = InVault(id)'
  BY DEF Lamports
<1>4. SumFunction(Lamports') = SumFunction(Lamports) - Lamports[id] + Lamports'[id]
  <2> HIDE DEF Lamports
  <2> QED
    BY <1>1, <1>2, SumChange
<1>5. SumFunction(Lamports) \in Int /\ SumFunction(Lamports') \in Int
  BY <1>1, SumType
<1>6. Lamports[id] \in Int /\ Lamports'[id] \in Int
  BY <1>1
<1>7. vault = external + SumFunction(Lamports)
  BY DEF VaultLedger, Lamports
<1>8. vault' = external' + SumFunction(Lamports')
  <2>1. vault \in Int /\ vault' \in Int /\ external \in Int /\ external' \in Int
    BY DEF TypeOK
  <2>2. vault' - external' = vault - external - Lamports[id] + Lamports'[id]
    BY <1>3 DEF Balanced
  <2> QED
    BY <1>4, <1>5, <1>6, <1>7, <2>1, <2>2
<1> QED
  BY <1>8 DEF VaultLedger, Lamports

\* Steps that leave every draw alone move the vault only with the fundings and
\* withdrawals.
LEMMA NoDrawBooks ==
  ASSUME TypeOK, TypeOK', VaultLedger, UNCHANGED drawVars,
         vault' - external' = vault - external
  PROVE  VaultLedger'
<1>1. Lamports' = Lamports
  BY DEF drawVars, Lamports, InVault
<1>2. SumFunction(Lamports) \in Int
  BY LamportsType, SumType
<1>3. vault = external + SumFunction(Lamports)
  BY DEF VaultLedger, Lamports
<1>4. vault' = external' + SumFunction(Lamports')
  BY <1>1, <1>2, <1>3 DEF TypeOK
<1> QED
  BY <1>4 DEF VaultLedger, Lamports

\* What an id costs stays what it was when the step leaves it alone.
LEMMA OneDrawCosts ==
  ASSUME BooksInv, NEW id \in ResolveIds, Only(id), CostOK(id)', UNCHANGED format
  PROVE  \A x \in ResolveIds : CostOK(x)'
BY DEF BooksInv, Only, Untouched, CostOK

\* A payout out of the vault is what it enters into the flows of its draw.
LEMMA PayStakeBalanced ==
  ASSUME EndInv, NEW id \in ResolveIds, status[id] \in {"PREPARED", "SEALED"},
         NEW toActor \in Nat, NEW toTreasury \in Nat,
         PayStake(id, toActor, toTreasury), UNCHANGED external
  PROVE  Balanced(id)
<1>1. ledger[id].stake \in Nat /\ ledger[id].refund = 0 /\ ledger[id].fee = 0
  <2>1. ledger[id] \in Flows
    BY DEF EndInv, RngInv, TypeOK
  <2> QED
    BY <2>1 DEF EndInv, DrawOK, StakePlaced, Flows
<1>2. /\ ledger'[id].stake = ledger[id].stake /\ ledger'[id].refund = toActor
      /\ ledger'[id].fee = toTreasury
  BY PayStakeBooks
<1>3. vault' = vault - toActor - toTreasury /\ vault \in Nat /\ external \in Int
  BY DEF PayStake, EndInv, RngInv, TypeOK
<1> QED
  BY <1>1, <1>2, <1>3 DEF Balanced, InVault

\* The payout of an atomic resolve, and its stake, are what it enters.
LEMMA AtomicBooks ==
  ASSUME BooksInv, EndInv', NEW input \in Inputs, NEW payout \in Payouts[format] \cap Nat,
         AtomicResolve(input, payout)
  PROVE  BooksInv'
<1> USE DEF AtomicResolve
<1>0. PICK id \in ResolveIds : id = next_resolve_id
  OBVIOUS
<1>1. TypeOK /\ TypeOK' /\ VaultLedger /\ id \in Nat /\ DrawOK(id) /\ input \in Nat
  BY BoundsAssumption, AmountsAssumption DEF BooksInv, EndInv, RngInv, ResolveIds
<1>2. Unused(id)
  BY <1>0, <1>1 DEF DrawOK
<1>3. ledger'[id] = [NoFlow EXCEPT !.stake = input, !.refund = payout, !.walletFee = fee]
  BY <1>0, <1>1 DEF TypeOK
<1>4. /\ ledger'[id].stake = input /\ ledger'[id].refund = payout /\ ledger'[id].fee = 0
      /\ ledger[id].stake = 0 /\ ledger[id].refund = 0 /\ ledger[id].fee = 0
  <2>1. ledger[id] = NoFlow
    BY <1>2 DEF Unused
  <2> HIDE DEF AtomicResolve
  <2> QED
    BY <1>3, <2>1 DEF NoFlow
<1>5. vault' = vault + input - payout /\ external' = external
  BY DEF StakeAndPay
<1>6. Balanced(id)
  <2>1. vault \in Int /\ external \in Int
    BY <1>1 DEF TypeOK
  <2> HIDE DEF AtomicResolve
  <2> QED
    BY <1>1, <1>4, <1>5, <2>1 DEF Balanced, InVault
<1>7. Only(id)
  BY <1>0, <1>1 DEF Only, Untouched, Resolve, TypeOK
<1>8. status'[id] = "NONE" /\ format' = format
  BY <1>2 DEF Unused, configVars
<1>9. CostOK(id)'
  BY <1>4, <1>8 DEF CostOK
<1>10. VaultLedger'
  BY <1>1, <1>6, <1>7, OneDrawBooks
<1> QED
  BY <1>7, <1>8, <1>9, <1>10, OneDrawCosts DEF BooksInv

\* A prepare puts into the vault what it enters as the stake.
LEMMA OpenBooks ==
  ASSUME BooksInv, EndInv', NEW a, NEW input \in Inputs, NEW bounty, NEW commit, NEW entropy,
         NEW offsets, NEW attestAfter,
         Open(a, input, bounty, commit, entropy, offsets, attestAfter)
  PROVE  BooksInv'
<1>0. PICK id \in ResolveIds : id = next_resolve_id
  BY DEF Open
<1>1. TypeOK /\ TypeOK' /\ VaultLedger /\ id \in Nat /\ DrawOK(id) /\ input \in Nat
  BY BoundsAssumption, AmountsAssumption DEF BooksInv, EndInv, RngInv, ResolveIds
<1>2. ledger[id] = NoFlow /\ ledger'[id] = [NoFlow EXCEPT !.stake = input]
  <2>1. Unused(id)
    BY <1>0, <1>1 DEF DrawOK
  <2> QED
    BY <1>0, <1>1, <2>1 DEF Unused, Open, TypeOK
<1>3. /\ ledger'[id].stake = input /\ ledger'[id].refund = 0 /\ ledger'[id].fee = 0
      /\ ledger[id].stake = 0 /\ ledger[id].refund = 0 /\ ledger[id].fee = 0
  BY <1>2 DEF NoFlow
<1>4. vault' = vault + input /\ external' = external /\ vault \in Int /\ external \in Int
  BY <1>1 DEF Open, TypeOK
<1>5. Balanced(id)
  BY <1>1, <1>3, <1>4 DEF Balanced, InVault
<1>6. Only(id)
  BY <1>0, <1>1 DEF Only, Untouched, Open, TypeOK
<1>7. status'[id] = "PREPARED" /\ format' = format
  BY <1>0, <1>1 DEF Open, TypeOK, configVars
<1>8. CostOK(id)'
  BY <1>7 DEF CostOK
<1>9. VaultLedger'
  BY <1>1, <1>5, <1>6, OneDrawBooks
<1> QED
  BY <1>6, <1>7, <1>8, <1>9, OneDrawCosts DEF BooksInv

\* A settle or a seal moves nothing in or out of the vault.
LEMMA QuietBooks ==
  ASSUME BooksInv, EndInv', NEW id \in ResolveIds, Only(id),
         status'[id] \in {"SETTLED", "SEALED"}, UNCHANGED <<format, vault, external>>,
         /\ ledger'[id].stake = ledger[id].stake /\ ledger'[id].refund = ledger[id].refund
         /\ ledger'[id].fee = ledger[id].fee
  PROVE  BooksInv'
<1>1. TypeOK /\ TypeOK' /\ VaultLedger
  BY DEF BooksInv, EndInv, RngInv
<1>2. Balanced(id)
  <2>1. vault \in Int /\ external \in Int /\ ledger[id] \in Flows
    BY <1>1 DEF TypeOK
  <2>2. InVault(id) \in Int /\ InVault(id)' = InVault(id)
    BY <2>1 DEF InVault, Flows
  <2> QED
    BY <2>1, <2>2 DEF Balanced
<1>3. CostOK(id)'
  BY DEF CostOK
<1>4. VaultLedger'
  BY <1>1, <1>2, OneDrawBooks
<1> QED
  BY <1>3, <1>4, OneDrawCosts DEF BooksInv

\* A payout keeps the books.
LEMMA PayoutBooks ==
  ASSUME BooksInv, EndInv', NEW id \in ResolveIds, Only(id),
         status'[id] \in {"SETTLED", "EXPIRED", "EXPIRED_SEALED", "CLOSED"},
         status'[id] = "CLOSED" => format = "slot",
         UNCHANGED format, Balanced(id)
  PROVE  BooksInv'
<1>1. TypeOK /\ TypeOK' /\ VaultLedger
  BY DEF BooksInv, EndInv, RngInv
<1>2. CostOK(id)'
  BY DEF CostOK
<1>3. VaultLedger'
  BY <1>1, OneDrawBooks
<1> QED
  BY <1>2, <1>3, OneDrawCosts DEF BooksInv

\* Every way to conclude a draw keeps the books.
LEMMA ConcludeBooks ==
  ASSUME BooksInv, EndInv', NEW id \in ResolveIds, Conclude(id)
  PROVE  BooksInv'
<1>1. EndInv /\ RngInv /\ RngInv' /\ TypeOK /\ TypeOK' /\ ledger[id] \in Flows
  BY DEF BooksInv, EndInv, RngInv, TypeOK
<1>2. status \in [ResolveIds -> DrawStatuses] /\ ledger \in [ResolveIds -> Flows]
  BY <1>1 DEF TypeOK
<1>3. ASSUME NEW a \in Actors, NEW r \in Secrets \cup {NoSecret}, SettleRngV2(a, id, r)
      PROVE  BooksInv'
  <2>1. Only(id)
    BY <1>1, <1>3, SettleRngV2OK
  <2>2. /\ ledger'[id].stake = ledger[id].stake /\ ledger'[id].refund = ledger[id].refund
        /\ ledger'[id].fee = ledger[id].fee
    BY <1>2, <1>3 DEF SettleRngV2, Flows
  <2>3. status'[id] \in {"SETTLED", "SEALED"} /\ UNCHANGED <<format, vault, external>>
    BY <1>2, <1>3 DEF SettleRngV2, configVars
  <2> QED
    BY <2>1, <2>2, <2>3, QuietBooks
<1>4. ASSUME NEW entropy \in {"SLOT_HASH", "UNICORN_G"}, Seal(id, entropy, EvidenceOf(entropy))
      PROVE  BooksInv'
  <2>1. Only(id)
    BY <1>1, <1>4, SealOK
  <2>2. /\ ledger'[id].stake = ledger[id].stake /\ ledger'[id].refund = ledger[id].refund
        /\ ledger'[id].fee = ledger[id].fee
    BY <1>2, <1>4 DEF Seal, Flows
  <2>3. status'[id] \in {"SETTLED", "SEALED"} /\ UNCHANGED <<format, vault, external>>
    BY <1>2, <1>4 DEF Seal, configVars
  <2> QED
    BY <2>1, <2>2, <2>3, QuietBooks
<1>5. ASSUME NEW a \in Actors, NEW r \in Secrets \cup {NoSecret}, AttestWinners(a, id, r)
      PROVE  BooksInv'
  <2>1. Only(id)
    BY <1>1, <1>5, AttestWinnersOK
  <2>2. /\ status[id] = "SEALED" /\ PayStake(id, StakeLessFee(id), FeeTaken(id))
        /\ UNCHANGED <<external, format>> /\ status'[id] = "SETTLED"
    BY <1>2, <1>5 DEF AttestWinners, configVars
  <2>3. Balanced(id)
    BY <1>1, <2>2, DrawFacts, PayStakeBalanced
  <2> QED
    BY <2>1, <2>2, <2>3, PayoutBooks
<1>6. ASSUME NEW win \in Wins, SettleSlotSpin(id, win) PROVE BooksInv'
  <2>1. Only(id)
    BY <1>1, <1>6, SettleSlotSpinOK
  <2>2. /\ status[id] = "PREPARED" /\ UNCHANGED <<external, format>> /\ format = "slot"
        /\ PayStake(id, ClampWin(win, terms[id].input), FeeTaken(id)) /\ status'[id] = "CLOSED"
    BY <1>2, <1>6 DEF SettleSlotSpin, configVars
  <2>3. FeeTaken(id) \in Nat /\ ClampWin(win, terms[id].input) \in Nat
    <3>1. FeeTaken(id) \in Nat /\ terms[id].input \in Nat
      BY <1>1, <2>2, DrawFacts
    <3>2. MaxWinCap(terms[id].input) \in Nat
      BY <3>1, AmountsAssumption DEF MaxWinCap
    <3> QED
      BY <3>1, <3>2, AmountsAssumption DEF ClampWin
  <2>4. Balanced(id)
    BY <1>1, <2>2, <2>3, PayStakeBalanced
  <2> QED
    BY <2>1, <2>2, <2>4, PayoutBooks
<1>7. ASSUME ExpireRngV2(id) PROVE BooksInv'
  <2>1. Only(id)
    BY <1>1, <1>7, ExpireRngV2OK
  <2>2. /\ status[id] = "PREPARED" /\ UNCHANGED <<external, format>>
        /\ vault' = vault - terms[id].input /\ status'[id] = "EXPIRED"
    BY <1>2, <1>7 DEF ExpireRngV2, Expirable, ExpiryRefund, configVars
  <2>3. /\ ledger'[id].stake = ledger[id].stake /\ ledger'[id].refund = terms[id].input
        /\ ledger'[id].fee = ledger[id].fee
    BY <1>2, <1>7 DEF ExpireRngV2, ExpiryRefund, Flows
  <2>4. /\ ledger[id].refund = 0 /\ ledger[id].fee = 0 /\ ledger[id].stake = terms[id].input
        /\ terms[id].input \in Nat /\ vault \in Int /\ external \in Int
    BY <1>1, <2>2, DrawFacts DEF EndInv, DrawOK, StakePlaced, TypeOK
  <2>5. Balanced(id)
    BY <2>2, <2>3, <2>4 DEF Balanced, InVault
  <2> QED
    BY <2>1, <2>2, <2>5, PayoutBooks
<1>8. ASSUME ExpireSealedRngV2(id) PROVE BooksInv'
  <2>1. Only(id)
    BY <1>1, <1>8, ExpireSealedRngV2OK
  <2>2. /\ status[id] = "SEALED" /\ PayStake(id, ExpiryRefund(id), 0)
        /\ UNCHANGED <<external, format>> /\ status'[id] = "EXPIRED_SEALED"
    BY <1>2, <1>8 DEF ExpireSealedRngV2, configVars
  <2>3. Balanced(id)
    BY <1>1, <2>2, DrawFacts, PayStakeBalanced
  <2> QED
    BY <2>1, <2>2, <2>3, PayoutBooks
<1>9. SealRandomness(id) \/ SealRandomnessUnicorn(id) =>
        \E entropy \in {"SLOT_HASH", "UNICORN_G"} : Seal(id, entropy, EvidenceOf(entropy))
  BY DEF SealRandomness, SealRandomnessUnicorn, EvidenceOf
<1> QED
  BY <1>3, <1>4, <1>5, <1>6, <1>7, <1>8, <1>9 DEF Conclude

\* Every step keeps the books.
LEMMA NextBooks == ASSUME BooksInv, [Next]_vars PROVE BooksInv'
<1>1. EndInv /\ EndInv' /\ TypeOK /\ TypeOK' /\ VaultLedger
  BY NextEnd DEF BooksInv, EndInv, RngInv
<1>2. ASSUME UNCHANGED drawVars, UNCHANGED format, vault' - external' = vault - external
      PROVE  BooksInv'
  <2>1. VaultLedger'
    BY <1>1, <1>2, NoDrawBooks
  <2>2. \A id \in ResolveIds : CostOK(id)'
    BY <1>2 DEF BooksInv, CostOK, drawVars
  <2> QED
    BY <1>1, <2>1, <2>2 DEF BooksInv
<1>3. CASE Tick \/ UNCHANGED vars
  <2>1. UNCHANGED drawVars /\ UNCHANGED format /\ UNCHANGED vault /\ UNCHANGED external
    BY <1>3 DEF Tick, vars, configVars
  <2> QED
    BY <1>2, <2>1
<1>4. CASE Administer
  <2>1. UNCHANGED drawVars /\ UNCHANGED format
    BY <1>4 DEF Administer, SetProgramConfig, ReviewCompiledArtifact, AdminPause,
                RefreshMasterSeed, InitializeUnicornGConfig, SetUnicornGConfig,
                AdminWithdraw, FundVault, configVars
  <2>2. vault' - external' = vault - external
    <3>1. vault \in Int /\ external \in Int
      BY <1>1 DEF TypeOK
    <3>2. CASE UNCHANGED <<vault, external>>
      BY <3>2
    <3>3. ASSUME NEW l \in Withdrawals, AdminWithdraw(l) PROVE vault' - external' = vault - external
      BY <3>1, <3>3, AmountsAssumption DEF AdminWithdraw
    <3>4. ASSUME NEW l \in Fundings, FundVault(l) PROVE vault' - external' = vault - external
      BY <3>1, <3>4, AmountsAssumption DEF FundVault
    <3> QED
      BY <1>4, <3>2, <3>3, <3>4
      DEF Administer, SetProgramConfig, ReviewCompiledArtifact, AdminPause,
          RefreshMasterSeed, InitializeUnicornGConfig, SetUnicornGConfig
  <2> QED
    BY <1>2, <2>1, <2>2
<1>5. CASE Prepare
  BY <1>1, <1>5, OpenBooks DEF Prepare, PrepareRngV2, PrepareRngV2Unicorn, PrepareSlotSpin
<1>6. CASE Atomic
  BY <1>1, <1>6, AtomicStep, AtomicBooks
<1> QED
  BY <1>1, <1>3, <1>4, <1>5, <1>6, ConcludeBooks DEF Next

\* The books of a fresh runtime.
LEMMA InitBooks == Init => BooksInv
<1> SUFFICES ASSUME Init PROVE BooksInv
  OBVIOUS
<1>1. EndInv /\ IsFiniteSet(ResolveIds)
  BY InitEnd, BoundsAssumption, FS_Interval DEF ResolveIds
<1>2. [id \in ResolveIds |-> InVault(id)] = [id \in ResolveIds |-> 0]
  <2>1. ASSUME NEW id \in ResolveIds PROVE InVault(id) = 0
    BY DEF Init, InVault, NoFlow
  <2> QED
    BY <2>1
<1>3. VaultLedger
  <2>1. SumFunction([id \in ResolveIds |-> InVault(id)]) = 0
    BY <1>1, <1>2, SumZero
  <2> QED
    BY <2>1, AmountsAssumption DEF VaultLedger, Init
<1>4. \A id \in ResolveIds : CostOK(id)
  BY DEF Init, CostOK, NoFlow
<1> QED
  BY <1>1, <1>3, <1>4 DEF BooksInv

\* The inductive invariant about the vault.
THEOREM BooksInvariant == Spec => []BooksInv
<1>1. BooksInv /\ [Next]_vars => BooksInv'
  BY NextBooks
<1> QED
  BY <1>1, InitBooks, PTL DEF Spec

\* In a runtime that pays nothing, what an open draw may claim is in the vault
\* under its own id.
LEMMA OpenStakeInVault ==
  ASSUME BooksInv, ParsesForRngV2, NEW id \in ResolveIds
  PROVE  OpenStake(id) \in Int /\ InVault(id) \in Int /\ OpenStake(id) <= InVault(id)
<1>1. ledger[id] \in Flows /\ status[id] \in DrawStatuses /\ DrawOK(id) /\ CostOK(id)
  BY DEF BooksInv, EndInv, RngInv, TypeOK
<1>2. ledger[id].stake \in Nat /\ ledger[id].refund \in Nat /\ ledger[id].fee \in Nat
  BY <1>1 DEF Flows
<1>3. InVault(id) \in Int
  BY <1>2 DEF InVault
<1>4. status[id] # "NONE" => terms[id].input \in Nat
  BY DrawFacts DEF BooksInv, EndInv
<1>5. OpenStake(id) \in Int
  BY <1>4 DEF OpenStake
<1>6. status[id] # "CLOSED"
  BY <1>1 DEF CostOK, ParsesForRngV2
<1>7. CASE status[id] = "NONE"
  <2>1. ledger[id].refund = 0 /\ ledger[id].fee = 0
    BY <1>1, <1>7 DEF CostOK, ParsesForRngV2
  <2> QED
    BY <1>2, <1>3, <1>5, <1>7, <2>1 DEF OpenStake, InVault
<1>8. CASE status[id] \in {"PREPARED", "SEALED"}
  <2>1. ledger[id].stake = terms[id].input /\ ledger[id].refund = 0 /\ ledger[id].fee = 0
    BY <1>1, <1>8 DEF DrawOK, StakePlaced
  <2> QED
    BY <1>2, <1>3, <1>5, <1>8, <2>1 DEF OpenStake, InVault
<1>9. CASE status[id] \in {"SETTLED", "EXPIRED", "EXPIRED_SEALED"}
  <2>1. OpenStake(id) = 0
    BY <1>9 DEF OpenStake
  <2>2. \/ ledger[id].refund + ledger[id].fee = ledger[id].stake
        \/ ledger[id].refund = 0 /\ ledger[id].fee = 0
    BY <1>1, <1>2, <1>9 DEF DrawOK, StakePlaced
  <2> QED
    BY <1>2, <1>3, <1>5, <2>1, <2>2 DEF InVault
<1> QED
  BY <1>1, <1>3, <1>5, <1>6, <1>7, <1>8, <1>9 DEF DrawStatuses

\* The vault holds exactly what was put in and not taken out, and while the
\* authority has not withdrawn more than was funded it covers every open stake
\* above its rent: for any number of draws, spins and resolves, in any order.
THEOREM VaultAlwaysSound == Spec => []VaultSound
<1>1. ASSUME BooksInv PROVE VaultSound
  <2>1. VaultLedger /\ IsFiniteSet(ResolveIds)
    BY <1>1, BoundsAssumption, FS_Interval DEF BooksInv, ResolveIds
  <2>2. SUFFICES ASSUME ParsesForRngV2, external >= Rent PROVE vault >= Rent + OpenStakes
    BY <2>1 DEF VaultSound, StakesCovered
  <2> DEFINE Claims == [id \in ResolveIds |-> OpenStake(id)]
             Holds == [id \in ResolveIds |-> InVault(id)]
  <2>3. Claims \in [ResolveIds -> Int] /\ Holds \in [ResolveIds -> Int]
    BY <1>1, <2>2, OpenStakeInVault
  <2>4. \A id \in ResolveIds : Claims[id] <= Holds[id]
    BY <1>1, <2>2, OpenStakeInVault
  <2>5. vault = external + SumFunction(Holds) /\ OpenStakes = SumFunction(Claims)
    BY <2>1 DEF VaultLedger, OpenStakes
  <2> HIDE DEF Claims, Holds
  <2>6. /\ SumFunction(Claims) <= SumFunction(Holds)
        /\ SumFunction(Claims) \in Int /\ SumFunction(Holds) \in Int
    BY <2>1, <2>3, <2>4, SumMonotone, SumType
  <2>7. external \in Int /\ Rent \in Int
    BY <1>1, AmountsAssumption DEF BooksInv, EndInv, RngInv, TypeOK
  <2> QED
    BY <2>2, <2>5, <2>6, <2>7
<1> QED
  BY <1>1, BooksInvariant, PTL

\* Each open draw can be refunded in full right now, leaving the vault rent-exempt.
RefundsPayable ==
  ParsesForRngV2 /\ external >= Rent =>
    \A id \in ResolveIds : status[id] \in {"PREPARED", "SEALED"} => VaultCanPay(ExpiryRefund(id))

\* The transfer in expire_rng_v2 and expire_sealed_rng_v2 never fails for want of
\* lamports in a payout-free runtime whose authority has not overdrawn it: no other
\* draw, however it ends, can use up the stake an expiry owes.
THEOREM RefundsAlwaysPayable == Spec => []RefundsPayable
<1>1. ASSUME BooksInv, VaultSound PROVE RefundsPayable
  <2> SUFFICES ASSUME ParsesForRngV2, external >= Rent, NEW id \in ResolveIds,
                      status[id] \in {"PREPARED", "SEALED"}
               PROVE  VaultCanPay(ExpiryRefund(id))
    BY DEF RefundsPayable
  <2> DEFINE Claims == [x \in ResolveIds |-> OpenStake(x)]
  <2>1. ASSUME NEW x \in ResolveIds PROVE OpenStake(x) \in Nat
    BY <1>1, DrawFacts DEF BooksInv, EndInv, OpenStake
  <2>2. IsFiniteSet(ResolveIds) /\ Claims \in [ResolveIds -> Nat]
    <3>1. IsFiniteSet(ResolveIds)
      BY BoundsAssumption, FS_Interval DEF ResolveIds
    <3> QED
      BY <2>1, <3>1
  <2>3. Claims[id] = terms[id].input /\ OpenStakes = SumFunction(Claims)
    BY DEF OpenStake, OpenStakes
  <2> HIDE DEF Claims
  <2>4. SumFunction(Claims) \in Nat /\ Claims[id] <= SumFunction(Claims)
    BY <2>2, SumAtLeast
  <2>5. vault >= Rent + OpenStakes
    BY <1>1 DEF VaultSound, StakesCovered
  <2>6. vault \in Nat /\ Rent \in Nat /\ terms[id].input \in Nat
    BY <1>1, AmountsAssumption, DrawFacts DEF BooksInv, EndInv, RngInv, TypeOK
  <2> QED
    BY <2>3, <2>4, <2>5, <2>6 DEF VaultCanPay, RentOK, ExpiryRefund
<1> QED
  BY <1>1, BooksInvariant, VaultAlwaysSound, PTL

=============================================================================
