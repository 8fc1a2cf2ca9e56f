------------------------------- MODULE RngV2 -------------------------------
(***************************************************************************)
(* The draw lifecycle of one runtime of the outcome program                *)
(* (programs/outcome/src/instructions): rng_v2 draws in one phase          *)
(* (prepare, settle) and in two (prepare, seal, attest), their expiries,   *)
(* slot spins, the Unicorn-G variants, the atomic rng_v1 resolves, and the *)
(* admin operations that run against open draws.  All of them share the    *)
(* runtime's vault, its next_resolve_id and the accounts addressed by      *)
(* (runtime, resolve_id).                                                  *)
(*                                                                         *)
(* A transaction is atomic, so a handler is one action: a failed require   *)
(* or a failed transfer rolls everything back and is a step that does not  *)
(* happen.  Transactions of different signers, and the admin's, interleave *)
(* in any order and any slot.                                              *)
(*                                                                         *)
(* A runtime is bound to one artifact for ever (no handler assigns         *)
(* OutcomeConfig.compiled_artifact_hash after it is initialised), so the   *)
(* artifact's format is chosen once, in Init, and what it pays is a        *)
(* constant; its review status is neither.                                 *)
(***************************************************************************)
EXTENDS SlotHashes, ArtifactStatus, FiniteSetsExt

CONSTANTS
  Actors,           \* keys that sign transactions
  Formats,          \* artifact formats a runtime may be bound to: "compact" (fmt
                    \* 1/2/3/5/8), "scale4" (4/6), "scale7", "slot"
  Payouts,          \* per format, what one rng_v1 resolve of the artifact may pay
  Wins,             \* what replay_spin may return for a spin
  MaxWinMultiplier, \* the slot artifact's cap on a win, in 1/10000 of the bet
  Inputs,           \* the input band min_input_lamports..max_input_lamports
  Bounties, Fees,   \* amounts a caller, or the admin, may choose
  AllowChoices, Reviews, Pauses, \* what the admin sets allow, review, is_paused to
  Commits,          \* operator commits: hashes, of a secret or of nothing known
  Secrets,          \* values the operator can reveal; hash(s) is written s
  NoSecret,         \* no commit, no reveal
  Seeds,            \* master seeds of rng_v1
  Withdrawals,      \* amounts admin_withdraw is called with
  Fundings,         \* amounts anyone may transfer into the vault
  Rent,             \* rent-exempt minimum of the vault account
  DrawOffsets, UnicornOffsets, SpinOffsets, \* target offsets per kind of prepare
  AttestAfter,      \* RNG_V2_ATTEST_DEADLINE_AFTER_EXPIRY (480)
  Gaming, UnicornG, \* build features of the program
  MaxResolves,      \* bound: resolve ids used
  MaxSlot,          \* bound: last slot of a behaviour
  MaxSkip,          \* bound: consecutive skipped slots
  LastPrepare,      \* bound: last slot in which a prepare lands
  MaxExternal       \* bound: lamports moved in or out by FundVault/AdminWithdraw

ResolveIds == 0..(MaxResolves - 1)

ASSUME AmountsAssumption ==
  /\ Payouts \in [Formats -> SUBSET Nat] /\ Wins \subseteq Nat /\ MaxWinMultiplier \in Nat
  /\ Inputs \subseteq Nat /\ Bounties \subseteq Nat /\ Fees \subseteq Nat
  /\ Withdrawals \subseteq Nat \ {0} /\ Fundings \subseteq Nat \ {0}
  /\ Rent \in Nat
ASSUME ChoicesAssumption ==
  AllowChoices \subseteq BOOLEAN /\ Reviews \subseteq Statuses /\ Pauses \subseteq BOOLEAN
ASSUME CommitsAssumption == Secrets \subseteq Commits /\ NoSecret \notin Commits
ASSUME OffsetsAssumption ==
  IsOffsets(DrawOffsets) /\ IsOffsets(UnicornOffsets) /\ IsOffsets(SpinOffsets)
ASSUME AttestAfterAssumption == AttestAfter \in Nat
ASSUME FeaturesAssumption == Gaming \in BOOLEAN /\ UnicornG \in BOOLEAN
ASSUME BoundsAssumption ==
  MaxResolves \in Nat /\ MaxSlot \in Nat /\ MaxSkip \in Nat /\ LastPrepare \in Nat
  /\ MaxExternal \in Nat

VARIABLES
  clock,           \* Clock::get().slot of the executing transaction
  blocks,          \* the slots before clock in which a block was produced
  fee, allow,      \* ProgramConfig.fee_lamports, .allow_unreviewed_binding
  unicorn,         \* UnicornGConfig: "absent", "enabled" or "disabled"
  format, review,  \* the bound artifact's format and status
  is_paused, master_seed, next_resolve_id, \* OutcomeConfig
  vault,           \* lamports of the vault
  status,          \* RngV2State.status per resolve id; "NONE" before prepare
  terms,           \* the fields of RngV2State no handler writes after prepare
  resolved,        \* RngV2State.resolved_slots, <<>> while zeroed
  evidence,        \* RngV2State.slot_hashes: "none" while zeroed, "hashes" of the
                   \* resolved slots, "vdf" for a proved Unicorn-G output
  reveal,          \* RngV2State.operator_reveal, NoSecret while zeroed
  held,            \* lamports on the RngV2State account above its rent
  resolution,      \* the OutcomeResolution account, NoResolution until it exists
  external,        \* history: rent and fundings minus withdrawals of the vault
  ledger           \* history: lamports moved on behalf of each resolve id

chainVars == <<clock, blocks>>
configVars == <<fee, allow, unicorn, format, review, is_paused, master_seed>>
drawVars == <<status, terms, resolved, evidence, reveal, held, resolution, ledger>>
vars == <<chainVars, configVars, next_resolve_id, vault, external, drawVars>>

NoTerms == [actor |-> NoSecret]
NoResolution == [via |-> "none"]

\* What moved for a resolve id: wallet -> vault, vault -> actor, vault ->
\* protocol treasury, wallet -> protocol treasury, state account -> sealer,
\* state account -> protocol treasury.
NoFlow == [stake |-> 0, refund |-> 0, fee |-> 0,
           walletFee |-> 0, sealer |-> 0, slash |-> 0]

-----------------------------------------------------------------------------
(* Guards the handlers share. *)

\* An account must end a transaction empty or rent-exempt.
RentOK(lamports) == lamports = 0 \/ lamports >= Rent

\* A transfer out of the vault: covered, and leaving a valid balance.
VaultCanPay(lamports) == vault >= lamports /\ RentOK(vault - lamports)

Bindable == StatusAllowsBinding(review, allow)

\* parse_for_rng_v2 takes compact and fmt-7 artifacts that pay nothing.
ParsesForRngV2 == format \in {"compact", "scale7"} /\ Payouts[format] = {0}

\* Mutant of InWindow: the expiry slot is not checked.
WindowNeverCloses(id) == terms[id].targets[3] < clock

\* The settle / seal window: after the last target, up to the expiry slot.
InWindow(id) == terms[id].targets[3] < clock /\ clock <= terms[id].expiry

\* The refund window of expire_rng_v2; its mutants forget the status check,
\* and stop while the runtime is paused.
ExpiresAnything(id) == status[id] # "NONE" /\ clock > terms[id].expiry
ExpiresUnpaused(id) == ~is_paused /\ status[id] = "PREPARED" /\ clock > terms[id].expiry
Expirable(id) == status[id] = "PREPARED" /\ clock > terms[id].expiry

\* Mutant of ValidReveal: a committed secret may be left out.
RevealOptional(commit, r) == r = NoSecret \/ (r \in Secrets /\ r = commit)

\* validate_operator_reveal
ValidReveal(commit, r) == IF commit = NoSecret THEN r = NoSecret
                                               ELSE r \in Secrets /\ r = commit

\* The slots resolve_slot_hashes returns now: at most one triple.
Resolvable(id) == ResolveSlotHashes(Sysvar(blocks), terms[id].targets)

\* max_win_cap: the multiplier is in ten-thousandths, rounded to the nearest.
MaxWinCap(input) == (input * MaxWinMultiplier + 5000) \div 10000

\* Mutant of ClampWin: the win is paid as replayed.
WinUnclamped(win, input) == win
ClampWin(win, input) == IF win <= MaxWinCap(input) THEN win ELSE MaxWinCap(input)

\* The fee attest_winners and settle_slot_spin take: the one frozen at prepare.
\* Mutant: the fee of the program config as it is now.
FeeNow(id) == fee
FeeTaken(id) == terms[id].fee_snapshot

\* What attest_winners gives back.  Mutant: the fee is paid on top of the stake.
WholeStake(id) == terms[id].input
StakeLessFee(id) == terms[id].input - terms[id].fee_snapshot

\* What an expiry gives back.  Mutant: it keeps the fee.
RefundLessFee(id) == terms[id].input - terms[id].fee_snapshot
ExpiryRefund(id) == terms[id].input

\* The bounty leaves the state account.  Mutant: the debit is forgotten.
BountyNotDebited(id) == UNCHANGED held
DebitBounty(id) == held' = [held EXCEPT ![id] = @ - terms[id].bounty]

\* The id of a new draw or resolve is used up.  Mutant: it is handed out again.
ResolveIdKept(id) == UNCHANGED next_resolve_id
TakeResolveId(id) == next_resolve_id' = id + 1

-----------------------------------------------------------------------------
Init ==
  /\ clock = 1 /\ blocks = {0}
  /\ fee \in Fees /\ allow \in AllowChoices /\ unicorn = "absent"
  /\ format \in Formats /\ review \in Statuses /\ StatusAllowsBinding(review, allow)
  /\ is_paused = FALSE /\ master_seed \in Seeds
  /\ next_resolve_id = 0
  /\ vault = Rent /\ external = Rent
  /\ status = [id \in ResolveIds |-> "NONE"]
  /\ terms = [id \in ResolveIds |-> NoTerms]
  /\ resolved = [id \in ResolveIds |-> <<>>]
  /\ evidence = [id \in ResolveIds |-> "none"]
  /\ reveal = [id \in ResolveIds |-> NoSecret]
  /\ held = [id \in ResolveIds |-> 0]
  /\ resolution = [id \in ResolveIds |-> NoResolution]
  /\ ledger = [id \in ResolveIds |-> NoFlow]

\* The chain moves to the next produced block, skipping up to MaxSkip slots.
Tick ==
  /\ \E s \in (clock + 1)..(clock + 1 + MaxSkip) :
       s <= MaxSlot /\ clock' = s
  /\ blocks' = blocks \cup {clock}
  /\ UNCHANGED <<configVars, next_resolve_id, vault, external, drawVars>>

-----------------------------------------------------------------------------
(* Opening a draw. *)

\* What every prepare handler does: freeze the terms, stake the input, put the
\* bounty on the state account, take the next resolve id.
Open(a, input, bounty, commit, entropy, offsets, attestAfter) ==
  LET id == next_resolve_id
      targets == TargetSlots(clock, offsets)
  IN
  /\ id \in ResolveIds /\ clock <= LastPrepare
  /\ ~is_paused /\ input \in Inputs /\ Bindable
  /\ input >= fee
  /\ status[id] = "NONE"
  /\ RentOK(vault + input)
  /\ vault' = vault + input
  /\ status' = [status EXCEPT ![id] = "PREPARED"]
  /\ terms' = [terms EXCEPT ![id] =
       [actor |-> a, input |-> input, entropy |-> entropy,
        targets |-> targets, expiry |-> ExpirySlot(targets),
        attest_deadline |-> ExpirySlot(targets) + attestAfter,
        commit |-> commit, bounty |-> bounty, fee_snapshot |-> fee]]
  /\ held' = [held EXCEPT ![id] = bounty]
  /\ ledger' = [ledger EXCEPT ![id] = [NoFlow EXCEPT !.stake = input]]
  /\ TakeResolveId(id)
  /\ UNCHANGED <<chainVars, configVars, external,
                 resolved, evidence, reveal, resolution>>

PrepareRngV2(a, input, bounty, commit) ==
  /\ ~Gaming /\ ParsesForRngV2
  /\ Open(a, input, bounty, commit, "SLOT_HASH", DrawOffsets, AttestAfter)

PrepareRngV2Unicorn(a, input, bounty, commit) ==
  /\ UnicornG /\ unicorn = "enabled" /\ ParsesForRngV2
  /\ Open(a, input, bounty, commit, "UNICORN_G", UnicornOffsets, AttestAfter)

\* The vault must cover the largest win before the bet lands; no bounty, no
\* commit, and the attest deadline is the expiry slot.
PrepareSlotSpin(a, input) ==
  /\ format = "slot"
  /\ vault >= MaxWinCap(input)
  /\ Open(a, input, 0, NoSecret, "SLOT_HASH", SpinOffsets, 0)

-----------------------------------------------------------------------------
(* Settling, sealing and attesting. *)

\* Mutants of PayStake: the balance is not checked; the treasury's part is not
\* taken out of the vault.
PayUnchecked(id, toActor, toTreasury) ==
  /\ vault' = vault - toActor - toTreasury
  /\ ledger' = [ledger EXCEPT ![id].refund = toActor, ![id].fee = toTreasury]
FeeMinted(id, toActor, toTreasury) ==
  /\ VaultCanPay(toActor)
  /\ vault' = vault - toActor
  /\ ledger' = [ledger EXCEPT ![id].refund = toActor, ![id].fee = toTreasury]

\* The stake leaves the vault: split between the actor and the treasury.
PayStake(id, toActor, toTreasury) ==
  /\ VaultCanPay(toActor + toTreasury)
  /\ vault' = vault - toActor - toTreasury
  /\ ledger' = [ledger EXCEPT ![id].refund = toActor, ![id].fee = toTreasury]

FixEntropy(id, slots, kind) ==
  /\ resolved' = [resolved EXCEPT ![id] = slots]
  /\ evidence' = [evidence EXCEPT ![id] = kind]

\* The entropy source a seal handler requires.  Mutant: it is not compared.
AnySource(id, entropy) == TRUE
SourceIs(id, entropy) == terms[id].entropy = entropy

Resolve(id, via, entropy, slots, r, bounty) ==
  /\ resolution[id] = NoResolution
  /\ resolution' = [resolution EXCEPT ![id] =
       [via |-> via, entropy |-> entropy, slots |-> slots,
        reveal |-> r, bounty |-> bounty]]

\* settle_rng_v2: signed by the draw's actor, who pays the current fee from
\* its wallet.  Neither the entropy source nor the bounty is looked at.
SettleRngV2(a, id, r) ==
  /\ ~Gaming /\ ~is_paused
  /\ status[id] = "PREPARED" /\ a = terms[id].actor
  /\ InWindow(id) /\ ValidReveal(terms[id].commit, r)
  /\ Bindable /\ ParsesForRngV2
  /\ \E slots \in Resolvable(id) :
       /\ FixEntropy(id, slots, "hashes")
       /\ Resolve(id, "single_phase", "SLOT_HASH", slots, r, 0)
  /\ reveal' = [reveal EXCEPT ![id] = r]
  /\ status' = [status EXCEPT ![id] = "SETTLED"]
  /\ ledger' = [ledger EXCEPT ![id].walletFee = fee]
  /\ UNCHANGED <<chainVars, configVars, next_resolve_id, vault, external,
                 terms, held>>

\* The seal both entropy sources share: fix the slots, pay the sealer.
Seal(id, entropy, kind) ==
  /\ status[id] = "PREPARED" /\ SourceIs(id, entropy)
  /\ InWindow(id)
  /\ \E slots \in Resolvable(id) : FixEntropy(id, slots, kind)
  /\ DebitBounty(id)
  /\ ledger' = [ledger EXCEPT ![id].sealer = terms[id].bounty]
  /\ status' = [status EXCEPT ![id] = "SEALED"]
  /\ UNCHANGED <<chainVars, configVars, next_resolve_id, vault, external,
                 terms, reveal, resolution>>

\* seal_randomness: anyone, paused or not, whatever the artifact's format.
SealRandomness(id) == ~Gaming /\ Seal(id, "SLOT_HASH", "hashes")

\* seal_randomness_unicorn: the proof is checked for the y of these slots, so
\* the slots stand for the proved output.
SealRandomnessUnicorn(id) ==
  UnicornG /\ unicorn = "enabled" /\ Seal(id, "UNICORN_G", "vdf")

\* attest_winners: the actor (attester_key is never set), at any later slot;
\* the fee frozen at prepare comes out of the stake.
AttestWinners(a, id, r) ==
  /\ ~Gaming
  /\ status[id] = "SEALED" /\ a = terms[id].actor
  /\ ValidReveal(terms[id].commit, r)
  /\ Bindable /\ ParsesForRngV2
  /\ PayStake(id, StakeLessFee(id), FeeTaken(id))
  /\ Resolve(id, "two_phase", terms[id].entropy, resolved[id], r, terms[id].bounty)
  /\ reveal' = [reveal EXCEPT ![id] = r]
  /\ status' = [status EXCEPT ![id] = "SETTLED"]
  /\ UNCHANGED <<chainVars, configVars, next_resolve_id, external,
                 terms, resolved, evidence, held>>

\* settle_slot_spin: any cranker; pays the clamped win to the actor and closes
\* the state account, which leaves no resolution account behind: terms and
\* slots of a CLOSED draw are history.
SettleSlotSpin(id, win) ==
  /\ ~is_paused /\ format = "slot"
  /\ status[id] = "PREPARED" /\ InWindow(id) /\ Bindable
  /\ \E slots \in Resolvable(id) : FixEntropy(id, slots, "hashes")
  /\ PayStake(id, ClampWin(win, terms[id].input), FeeTaken(id))
  /\ status' = [status EXCEPT ![id] = "CLOSED"]
  /\ UNCHANGED <<chainVars, configVars, next_resolve_id, external,
                 terms, reveal, held, resolution>>

-----------------------------------------------------------------------------
(* Expiry. *)

\* expire_rng_v2: anyone; the stake goes back, the bounty to the treasury.
ExpireRngV2(id) ==
  /\ Expirable(id)
  /\ VaultCanPay(ExpiryRefund(id))
  /\ vault' = vault - ExpiryRefund(id)
  /\ DebitBounty(id)
  /\ ledger' = [ledger EXCEPT ![id].refund = ExpiryRefund(id),
                              ![id].slash = terms[id].bounty]
  /\ status' = [status EXCEPT ![id] = "EXPIRED"]
  /\ UNCHANGED <<chainVars, configVars, next_resolve_id, external,
                 terms, resolved, evidence, reveal, resolution>>

\* expire_sealed_rng_v2: slash_on_sealed_timeout is never set, so the stake
\* goes back to the actor.
ExpireSealedRngV2(id) ==
  /\ ~Gaming
  /\ status[id] = "SEALED" /\ clock > terms[id].attest_deadline
  /\ PayStake(id, ExpiryRefund(id), 0)
  /\ status' = [status EXCEPT ![id] = "EXPIRED_SEALED"]
  /\ UNCHANGED <<chainVars, configVars, next_resolve_id, external,
                 terms, resolved, evidence, reveal, held, resolution>>

-----------------------------------------------------------------------------
(* Atomic rng_v1 resolves: fee from the wallet, stake in, payout out, one    *)
(* resolution, one resolve id, in one transaction.                           *)

\* The stake goes in, the payout out.  Mutant: the vault is not debited.
PayoutMinted(input, payout) == vault' = vault + input
StakeAndPay(input, payout) == vault' = vault + input - payout

AtomicResolve(input, payout) ==
  LET id == next_resolve_id IN
  /\ ~Gaming
  /\ id \in ResolveIds /\ ~is_paused /\ input \in Inputs /\ Bindable
  /\ vault + input >= payout /\ RentOK(vault + input - payout)
  /\ StakeAndPay(input, payout)
  /\ Resolve(id, "atomic", "RNG_V1", <<master_seed>>, NoSecret, 0)
  /\ ledger' = [ledger EXCEPT ![id] =
       [NoFlow EXCEPT !.stake = input, !.refund = payout, !.walletFee = fee]]
  /\ TakeResolveId(id)
  /\ UNCHANGED <<chainVars, configVars, external,
                 status, terms, resolved, evidence, reveal, held>>

ResolveOutcome(input, payout) ==
  format = "compact" /\ AtomicResolve(input, payout)

ResolveOutcomeV4(input, payout) ==
  format \in {"scale4", "scale7"} /\ AtomicResolve(input, payout)

ResolveOutcomeV121(input, payout) ==
  format = "scale7" /\ AtomicResolve(input, payout)

-----------------------------------------------------------------------------
(* Administration, in any slot, whatever draws are open. *)

SetProgramConfig(f, al) ==
  /\ fee' = f /\ allow' = al
  /\ UNCHANGED <<chainVars, unicorn, format, review, is_paused, master_seed,
                 next_resolve_id, vault, external, drawVars>>

\* review_compiled_artifact on the bound artifact, which is finalized.
ReviewCompiledArtifact(new) ==
  /\ MayReview(review, TRUE, new) /\ review' = new
  /\ UNCHANGED <<chainVars, fee, allow, unicorn, format, is_paused, master_seed,
                 next_resolve_id, vault, external, drawVars>>

AdminPause(paused) ==
  /\ is_paused' = paused
  /\ UNCHANGED <<chainVars, fee, allow, unicorn, format, review, master_seed,
                 next_resolve_id, vault, external, drawVars>>

RefreshMasterSeed(seed) ==
  /\ ~Gaming /\ master_seed' = seed
  /\ UNCHANGED <<chainVars, fee, allow, unicorn, format, review, is_paused,
                 next_resolve_id, vault, external, drawVars>>

InitializeUnicornGConfig(enabled) ==
  /\ UnicornG /\ unicorn = "absent" /\ unicorn' = enabled
  /\ UNCHANGED <<chainVars, fee, allow, format, review, is_paused, master_seed,
                 next_resolve_id, vault, external, drawVars>>

SetUnicornGConfig(enabled) ==
  /\ UnicornG /\ unicorn # "absent" /\ unicorn' = enabled
  /\ UNCHANGED <<chainVars, fee, allow, format, review, is_paused, master_seed,
                 next_resolve_id, vault, external, drawVars>>

\* admin_withdraw: any amount the vault holds, whatever it is held for.
AdminWithdraw(lamports) ==
  /\ external - lamports >= Rent - MaxExternal
  /\ VaultCanPay(lamports)
  /\ vault' = vault - lamports /\ external' = external - lamports
  /\ UNCHANGED <<chainVars, configVars, next_resolve_id, drawVars>>

\* A plain system transfer into the vault, by the house or by anyone.
FundVault(lamports) ==
  /\ external + lamports <= Rent + MaxExternal
  /\ RentOK(vault + lamports)
  /\ vault' = vault + lamports /\ external' = external + lamports
  /\ UNCHANGED <<chainVars, configVars, next_resolve_id, drawVars>>

-----------------------------------------------------------------------------
Prepare ==
  \E a \in Actors, input \in Inputs :
    \/ \E bounty \in Bounties, commit \in Commits \cup {NoSecret} :
         \/ PrepareRngV2(a, input, bounty, commit)
         \/ PrepareRngV2Unicorn(a, input, bounty, commit)
    \/ PrepareSlotSpin(a, input)

Conclude(id) ==
  \/ \E a \in Actors, r \in Secrets \cup {NoSecret} :
       SettleRngV2(a, id, r) \/ AttestWinners(a, id, r)
  \/ SealRandomness(id)
  \/ SealRandomnessUnicorn(id)
  \/ \E win \in Wins : SettleSlotSpin(id, win)
  \/ ExpireRngV2(id)
  \/ ExpireSealedRngV2(id)

Atomic ==
  \E input \in Inputs, payout \in Payouts[format] :
    \/ ResolveOutcome(input, payout)
    \/ ResolveOutcomeV4(input, payout)
    \/ ResolveOutcomeV121(input, payout)

Administer ==
  \/ \E f \in Fees, al \in AllowChoices : SetProgramConfig(f, al)
  \/ \E new \in Reviews : ReviewCompiledArtifact(new)
  \/ \E p \in Pauses : AdminPause(p)
  \/ \E seed \in Seeds : RefreshMasterSeed(seed)
  \/ \E e \in {"enabled", "disabled"} :
       InitializeUnicornGConfig(e) \/ SetUnicornGConfig(e)
  \/ \E l \in Withdrawals : AdminWithdraw(l)
  \/ \E l \in Fundings : FundVault(l)

Next ==
  \/ Tick
  \/ Prepare
  \/ \E id \in ResolveIds : Conclude(id)
  \/ Atomic
  \/ Administer

Spec == Init /\ [][Next]_vars

(***************************************************************************)
(* Expiries are permissionless cranks anyone retries, and blocks keep      *)
(* coming: each is weakly fair.  Nothing an operator or the admin does is. *)
(***************************************************************************)
Fairness ==
  /\ WF_vars(Tick)
  /\ \A id \in ResolveIds : WF_vars(ExpireRngV2(id)) /\ WF_vars(ExpireSealedRngV2(id))

FairSpec == Spec /\ Fairness

-----------------------------------------------------------------------------
(* Properties. *)

DrawStatuses ==
  {"NONE", "PREPARED", "SEALED", "SETTLED", "EXPIRED", "EXPIRED_SEALED", "CLOSED"}

Terms ==
  [actor : Actors, input : Inputs, entropy : {"SLOT_HASH", "UNICORN_G"},
   targets : [1..3 -> Nat], expiry : Nat, attest_deadline : Nat,
   commit : Commits \cup {NoSecret}, bounty : Bounties \cup {0}, fee_snapshot : Fees]

Resolutions ==
  [via : {"single_phase", "two_phase", "atomic"},
   entropy : {"SLOT_HASH", "UNICORN_G", "RNG_V1"},
   slots : (Nat \X Nat \X Nat) \cup {<<s>> : s \in Seeds},
   reveal : Secrets \cup {NoSecret}, bounty : Bounties \cup {0}]

Flows ==
  [stake : Nat, refund : Nat, fee : Nat, walletFee : Nat, sealer : Nat, slash : Nat]

\* Every account of the runtime has the shape its Rust type gives it.
TypeOK ==
  /\ clock \in Nat /\ blocks \subseteq Nat
  /\ fee \in Fees /\ allow \in BOOLEAN
  /\ unicorn \in {"absent", "enabled", "disabled"}
  /\ format \in Formats /\ review \in Statuses /\ is_paused \in BOOLEAN /\ master_seed \in Seeds
  /\ next_resolve_id \in 0..MaxResolves
  /\ vault \in Nat /\ external \in Int
  /\ status \in [ResolveIds -> DrawStatuses]
  /\ terms \in [ResolveIds -> Terms \cup {NoTerms}]
  /\ resolved \in [ResolveIds -> (Nat \X Nat \X Nat) \cup {<<>>}]
  /\ evidence \in [ResolveIds -> {"none", "hashes", "vdf"}]
  /\ reveal \in [ResolveIds -> Secrets \cup {NoSecret}]
  /\ held \in [ResolveIds -> Nat]
  /\ resolution \in [ResolveIds -> Resolutions \cup {NoResolution}]
  /\ ledger \in [ResolveIds -> Flows]

Unused(id) == status[id] = "NONE" /\ resolution[id] = NoResolution /\ ledger[id] = NoFlow

\* The ids not handed out yet have no account under them: the init constraint
\* of the next prepare or resolve can never fail, and no draw's accounts are
\* taken over by a later one (next_resolve_id is shared by every handler that
\* opens a draw or writes a resolution).
FreshIds ==
  \A id \in ResolveIds : id >= next_resolve_id => Unused(id)

\* Whoever settles or seals an open draw, in whatever slot of its window, the
\* sysvar still holds every block since its first target: the search over the
\* 512 remembered blocks finds what a search over the whole chain would.
SysvarComplete ==
  \A id \in ResolveIds :
    status[id] = "PREPARED" /\ InWindow(id) =>
      Resolvable(id) = ResolveSlotHashes(blocks, terms[id].targets)

\* The slots a draw took its entropy from are the ones the whole chain, as it
\* is now, gives for its targets: the result does not depend on when the draw
\* was settled, sealed or cranked, nor on how long ago.
EntropyCanonical ==
  \A id \in ResolveIds :
    resolved[id] # <<>> =>
      resolved[id] \in ResolveSlotHashes(blocks, terms[id].targets)

\* The entropy of a draw comes from three different blocks, each at or after
\* its target and so produced after the prepare that froze stake and commit.
EntropyAfterTargets ==
  \A id \in ResolveIds :
    resolved[id] # <<>> =>
      /\ \A i \in 1..3 : resolved[id][i] >= terms[id].targets[i]
      /\ resolved[id][1] < resolved[id][2]
      /\ resolved[id][2] < resolved[id][3]
      /\ resolved[id][3] < clock

\* The entropy of a draw is fixed by the chain alone: the sysvar still shows all
\* of it to whoever settles or seals, the slots found are the ones the chain
\* gives for ever, and every one of them came after the prepare.
EntropySound == SysvarComplete /\ EntropyCanonical /\ EntropyAfterTargets

StakePlaced(id) ==
  LET l == ledger[id] IN
  /\ status[id] # "NONE" => l.stake = terms[id].input
  /\ status[id] \in {"PREPARED", "SEALED"} => l.refund = 0 /\ l.fee = 0
  /\ status[id] \in {"EXPIRED", "EXPIRED_SEALED"} => l.refund = l.stake /\ l.fee = 0
  /\ status[id] = "SETTLED" =>
       IF resolution[id].via = "two_phase"
         THEN l.fee = terms[id].fee_snapshot /\ l.refund + l.fee = l.stake
         ELSE l.refund = 0 /\ l.fee = 0
  /\ status[id] = "CLOSED" =>
       l.fee = terms[id].fee_snapshot /\ l.refund <= MaxWinCap(l.stake)

\* Where a draw's stake is, in every status: in the vault while it is open,
\* back with the actor after an expiry, split by the fee frozen at prepare
\* (whatever the admin set since) after an attest, kept by the vault after a
\* single-phase settle, and at most the capped win and that fee after a spin.
StakeDisposition == \A id \in ResolveIds : StakePlaced(id)

BountyPlaced(id) ==
  LET l == ledger[id] IN
  status[id] # "NONE" =>
    /\ held[id] + l.sealer + l.slash = terms[id].bounty
    /\ l.sealer = 0 \/ l.slash = 0
    /\ status[id] = "PREPARED" => held[id] = terms[id].bounty
    /\ status[id] \in {"SEALED", "EXPIRED_SEALED"} => l.sealer = terms[id].bounty
    /\ status[id] = "EXPIRED" => l.slash = terms[id].bounty

\* A bounty leaves the state account at most once, to the sealer or to the
\* treasury and never both, and what the account holds is what has not left.
BountyDisposition == \A id \in ResolveIds : BountyPlaced(id)

\* At every moment, whatever the order of settles, seals, attests, cranks and
\* changes of the fee, each lamport a draw was opened with is where the status
\* of the draw says it is: the stake and the bounty, once and in full.
FundsPlaced == StakeDisposition /\ BountyDisposition

\* The evidence a seal of an entropy source leaves.
EvidenceOf(entropy) == IF entropy = "UNICORN_G" THEN "vdf" ELSE "hashes"

Backed(id) ==
  LET res == resolution[id] IN
  /\ status[id] = "SETTLED" => res.via \in {"single_phase", "two_phase"}
  /\ res.via \in {"single_phase", "two_phase"} =>
       /\ status[id] = "SETTLED"
       /\ res.slots = resolved[id] /\ res.slots # <<>>
       /\ ValidReveal(terms[id].commit, res.reveal)
       /\ res.via = "two_phase" =>
            /\ ledger[id].sealer = terms[id].bounty
            /\ res.entropy = terms[id].entropy
            /\ evidence[id] = EvidenceOf(res.entropy)
  /\ res.via = "atomic" => status[id] = "NONE" /\ id < next_resolve_id

\* A resolution account exists exactly for the settled draws, and records
\* the slots, the reveal and the lifecycle the draw really went through: a
\* two-phase resolution is backed by a seal of the entropy source the draw was
\* prepared for, and a committed secret is opened.
ResolutionBacked == \A id \in ResolveIds : Backed(id)

\* No handler that opens a draw or writes a resolution meets, or takes over,
\* the accounts of another, and every resolution is backed by what its draw
\* went through.
ResolutionsSound == FreshIds /\ ResolutionBacked

\* What of a resolve id is still in the vault, and what of it an open draw may
\* still claim.
InVault(id) == ledger[id].stake - ledger[id].refund - ledger[id].fee
OpenStake(id) == IF status[id] \in {"PREPARED", "SEALED"} THEN terms[id].input ELSE 0
OpenStakes == SumFunction([id \in ResolveIds |-> OpenStake(id)])

\* The vault holds exactly what was put in and not taken out: no handler mints
\* or loses a lamport, in any interleaving of draws, spins, resolves, expiries,
\* fundings and withdrawals.
VaultLedger == vault = external + SumFunction([id \in ResolveIds |-> InVault(id)])

\* As long as the authority has not withdrawn more than was funded, the vault
\* of a payout-free runtime covers every open stake above its rent: refunds of
\* any subset of the open draws, in any order, never run dry.
StakesCovered ==
  ParsesForRngV2 /\ external >= Rent => vault >= Rent + OpenStakes

\* The books of the vault: they balance, and the open stakes are covered.
VaultSound == VaultLedger /\ StakesCovered

\* A concluded draw stays concluded, with its slots, its resolution and its
\* money as they were: no late settle, seal, attest, expire or crank applies.
ConcludedIsFinal ==
  [][\A id \in ResolveIds :
       status[id] \in {"SETTLED", "EXPIRED", "EXPIRED_SEALED", "CLOSED"} =>
         /\ status'[id] = status[id] /\ resolved'[id] = resolved[id]
         /\ resolution'[id] = resolution[id] /\ ledger'[id] = ledger[id]]_vars

\* Every open draw is concluded: settled in time, or refunded by whoever cranks
\* the expiry, even if its operator disappears, its commit cannot be opened,
\* its artifact is rejected or its runtime is paused for ever.
EventuallyConcluded ==
  \A id \in ResolveIds :
    status[id] \in {"PREPARED", "SEALED"} ~>
      status[id] \in {"SETTLED", "EXPIRED", "EXPIRED_SEALED", "CLOSED"}

-----------------------------------------------------------------------------
(* What a comment of the repository says and the handlers do not keep: it is *)
(* refuted by a run of its own.                                              *)

\* prepare_rng_v2.rs: the bounty is "paid to the sealer on seal_randomness or
\* slashed to treasury on expire".  settle_rng_v2 does neither and leaves it on
\* the state account of a draw that no handler touches again.
BountyPaidOrSlashed ==
  \A id \in ResolveIds :
    status[id] \in {"SETTLED", "EXPIRED", "EXPIRED_SEALED"} => held[id] = 0

-----------------------------------------------------------------------------
(* Refinement: the lifecycle implements DrawEscrow. *)

PhaseOf(st) ==
  CASE st = "NONE" -> "none"
    [] st = "PREPARED" -> "staked"
    [] st = "SEALED" -> "decided"
    [] st \in {"SETTLED", "CLOSED"} -> "resolved"
    [] OTHER -> "refunded"

\* Atomic resolves open no draw: their flows are not part of the escrow.
EscrowFlow(id, field) == IF status[id] = "NONE" THEN 0 ELSE ledger[id][field]

Escrow == INSTANCE DrawEscrow WITH
  Ids <- ResolveIds,
  NoEntropy <- <<>>,
  phase <- [id \in ResolveIds |-> PhaseOf(status[id])],
  entropy <- resolved,
  stake <- [id \in ResolveIds |-> EscrowFlow(id, "stake")],
  back <- [id \in ResolveIds |-> EscrowFlow(id, "refund")]

\* Every behaviour of the handlers is a behaviour of the escrow: one stake per
\* draw, entropy fixed once, one ending, a refund returns the whole stake.
ImplementsEscrow == Escrow!Spec

=============================================================================
