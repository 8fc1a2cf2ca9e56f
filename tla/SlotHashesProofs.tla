-------------------------- MODULE SlotHashesProofs --------------------------
(***************************************************************************)
(* What the entropy search guarantees for every chain, every size of the   *)
(* sysvar and every choice of target offsets: it has at most one result,   *)
(* its result does not change as the chain grows, and within the           *)
(* settlement window the sysvar has forgotten nothing the search needs.    *)
(***************************************************************************)
EXTENDS SlotHashes, FiniteSetTheorems, TLAPS

\* A result of the search is three slots of the chain, in increasing order,
\* each at or after its target.
LEMMA ResolvedShape ==
  ASSUME NEW E \in SUBSET Nat, NEW ts \in [1..3 -> Nat],
         NEW r \in ResolveSlotHashes(E, ts)
  PROVE  /\ r \in Nat \X Nat \X Nat
         /\ r[1] \in E /\ r[2] \in E /\ r[3] \in E
         /\ \A i \in 1..3 : r[i] >= ts[i]
         /\ r[1] < r[2] /\ r[2] < r[3]
<1>1. PICK a \in FirstFrom(E, ts[1], 0) :
        \E b \in FirstFrom(E, ts[2], a) : \E c \in FirstFrom(E, ts[3], b) : r = <<a, b, c>>
  BY DEF ResolveSlotHashes
<1>2. PICK b \in FirstFrom(E, ts[2], a) :
        \E c \in FirstFrom(E, ts[3], b) : r = <<a, b, c>>
  BY <1>1
<1>3. PICK c \in FirstFrom(E, ts[3], b) : r = <<a, b, c>>
  BY <1>2
<1>4. /\ a \in E /\ b \in E /\ c \in E
      /\ a >= ts[1] /\ b >= ts[2] /\ c >= ts[3]
      /\ b > a /\ c > b
  BY DEF FirstFrom
<1> QED
  BY <1>3, <1>4

\* The three members of a result are the first slots the search may take.
LEMMA ResolvedMembers ==
  ASSUME NEW E, NEW ts, NEW a, NEW b, NEW c
  PROVE  <<a, b, c>> \in ResolveSlotHashes(E, ts)
           <=> /\ a \in FirstFrom(E, ts[1], 0)
               /\ b \in FirstFrom(E, ts[2], a)
               /\ c \in FirstFrom(E, ts[3], b)
<1>1. ASSUME <<a, b, c>> \in ResolveSlotHashes(E, ts)
      PROVE  /\ a \in FirstFrom(E, ts[1], 0)
             /\ b \in FirstFrom(E, ts[2], a)
             /\ c \in FirstFrom(E, ts[3], b)
  <2>1. PICK x \in FirstFrom(E, ts[1], 0) :
          \E y \in FirstFrom(E, ts[2], x) :
            \E z \in FirstFrom(E, ts[3], y) : <<a, b, c>> = <<x, y, z>>
    BY <1>1 DEF ResolveSlotHashes
  <2> QED
    BY <2>1
<1>2. ASSUME a \in FirstFrom(E, ts[1], 0), b \in FirstFrom(E, ts[2], a),
             c \in FirstFrom(E, ts[3], b)
      PROVE  <<a, b, c>> \in ResolveSlotHashes(E, ts)
  BY <1>2 DEF ResolveSlotHashes
<1> QED
  BY <1>1, <1>2

\* The search has at most one result: settling and sealing the same draw over
\* the same chain cannot disagree.
THEOREM ResolveUnique ==
  ASSUME NEW E \in SUBSET Nat, NEW ts \in [1..3 -> Nat],
         NEW r \in ResolveSlotHashes(E, ts), NEW q \in ResolveSlotHashes(E, ts)
  PROVE  r = q
<1>1. /\ r \in Nat \X Nat \X Nat /\ r = <<r[1], r[2], r[3]>>
      /\ q \in Nat \X Nat \X Nat /\ q = <<q[1], q[2], q[3]>>
  BY ResolvedShape
<1>2. /\ r[1] \in FirstFrom(E, ts[1], 0)
      /\ r[2] \in FirstFrom(E, ts[2], r[1])
      /\ r[3] \in FirstFrom(E, ts[3], r[2])
  BY <1>1, ResolvedMembers
<1>3. /\ q[1] \in FirstFrom(E, ts[1], 0)
      /\ q[2] \in FirstFrom(E, ts[2], q[1])
      /\ q[3] \in FirstFrom(E, ts[3], q[2])
  BY <1>1, ResolvedMembers
<1>4. r[1] = q[1]
  BY <1>1, <1>2, <1>3 DEF FirstFrom
<1>5. r[2] = q[2]
  BY <1>1, <1>2, <1>3, <1>4 DEF FirstFrom
<1>6. r[3] = q[3]
  BY <1>1, <1>2, <1>3, <1>5 DEF FirstFrom
<1> QED
  BY <1>1, <1>4, <1>5, <1>6

\* A block later than every block of the chain does not change a first slot.
LEMMA FirstFromStable ==
  ASSUME NEW E \in SUBSET Nat, NEW s \in Nat, \A e \in E : e < s,
         NEW t \in Nat, NEW p \in Nat, NEW x \in FirstFrom(E, t, p)
  PROVE  x \in FirstFrom(E \cup {s}, t, p)
BY DEF FirstFrom

\* The result of the search over a chain is the result over every extension of
\* the chain: entropy, once it exists, is fixed.
THEOREM ResolveStable ==
  ASSUME NEW E \in SUBSET Nat, NEW s \in Nat, \A e \in E : e < s,
         NEW ts \in [1..3 -> Nat], NEW r \in ResolveSlotHashes(E, ts)
  PROVE  r \in ResolveSlotHashes(E \cup {s}, ts)
<1>1. r \in Nat \X Nat \X Nat /\ r = <<r[1], r[2], r[3]>>
  BY ResolvedShape
<1>2. /\ r[1] \in FirstFrom(E, ts[1], 0)
      /\ r[2] \in FirstFrom(E, ts[2], r[1])
      /\ r[3] \in FirstFrom(E, ts[3], r[2])
  BY <1>1, ResolvedMembers
<1>3. /\ r[1] \in FirstFrom(E \cup {s}, ts[1], 0)
      /\ r[2] \in FirstFrom(E \cup {s}, ts[2], r[1])
      /\ r[3] \in FirstFrom(E \cup {s}, ts[3], r[2])
  BY <1>1, <1>2, FirstFromStable
<1> QED
  BY <1>1, <1>3, ResolvedMembers

\* Dropping blocks before the first target does not change the search.
LEMMA SearchIgnoresThePast ==
  ASSUME NEW E \in SUBSET Nat, NEW V \in SUBSET E, NEW ts \in [1..3 -> Nat],
         ts[1] <= ts[2], ts[1] <= ts[3],
         \A e \in E : e >= ts[1] => e \in V
  PROVE  ResolveSlotHashes(V, ts) = ResolveSlotHashes(E, ts)
<1>1. ASSUME NEW i \in 1..3, NEW p
      PROVE  FirstFrom(V, ts[i], p) = FirstFrom(E, ts[i], p)
  <2>1. \A e \in E : e >= ts[i] => e \in V
    OBVIOUS
  <2> QED
    BY <2>1 DEF FirstFrom
<1>2. /\ \A p : FirstFrom(V, ts[1], p) = FirstFrom(E, ts[1], p)
      /\ \A p : FirstFrom(V, ts[2], p) = FirstFrom(E, ts[2], p)
      /\ \A p : FirstFrom(V, ts[3], p) = FirstFrom(E, ts[3], p)
  BY <1>1
<1>3. \A r \in ResolveSlotHashes(V, ts) : r \in ResolveSlotHashes(E, ts)
  <2> SUFFICES ASSUME NEW r \in ResolveSlotHashes(V, ts)
               PROVE  r \in ResolveSlotHashes(E, ts)
    OBVIOUS
  <2>1. r = <<r[1], r[2], r[3]>>
    BY ResolvedShape
  <2> QED
    BY <2>1, <1>2, ResolvedMembers
<1>4. \A r \in ResolveSlotHashes(E, ts) : r \in ResolveSlotHashes(V, ts)
  <2> SUFFICES ASSUME NEW r \in ResolveSlotHashes(E, ts)
               PROVE  r \in ResolveSlotHashes(V, ts)
    OBVIOUS
  <2>1. r = <<r[1], r[2], r[3]>>
    BY ResolvedShape
  <2> QED
    BY <2>1, <1>2, ResolvedMembers
<1> QED
  BY <1>3, <1>4

\* Up to the expiry slot the sysvar remembers every block since the first
\* target: at most ExpiryAfter + (o3 - o1) - 1 blocks can be more recent.
LEMMA NothingEvicted ==
  ASSUME NEW now \in Nat, NEW E \in SUBSET (0..(now - 1)),
         NEW first \in Nat, NEW expiry \in Nat,
         expiry - first <= MaxEntries, now <= expiry,
         NEW s \in E, s >= first
  PROVE  s \in Sysvar(E)
<1> DEFINE Later == {b \in E : b > s}
<1>1. \A e \in E : e \in Nat /\ e <= now - 1
  OBVIOUS
<1>2. s \in Nat /\ s + 1 \in Int /\ now - 1 \in Int /\ s + 1 <= now
  BY <1>1
<1>3. Later \subseteq (s + 1)..(now - 1)
  <2> SUFFICES ASSUME NEW b \in Later PROVE b \in (s + 1)..(now - 1)
    OBVIOUS
  <2>1. b \in Nat /\ b <= now - 1 /\ b > s
    BY <1>1
  <2> QED
    BY <2>1, <1>2
<1>4. /\ IsFiniteSet((s + 1)..(now - 1))
      /\ Cardinality((s + 1)..(now - 1)) = IF s + 1 > now - 1 THEN 0 ELSE (now - 1) - (s + 1) + 1
  BY <1>2, FS_Interval
<1>5. /\ IsFiniteSet(Later)
      /\ Cardinality(Later) <= Cardinality((s + 1)..(now - 1))
  BY <1>3, <1>4, FS_Subset
<1>6. Cardinality(Later) \in Nat
  BY <1>5, FS_CardinalityType
<1>7. Cardinality(Later) < MaxEntries
  BY <1>2, <1>4, <1>5, <1>6, MaxEntriesAssumption
<1> QED
  BY <1>7 DEF Sysvar

\* The settlement window fits the sysvar: with targets whose spread and expiry
\* satisfy what IsOffsets requires, a search over the sysvar at any slot up to
\* the expiry finds exactly what a search over the whole chain finds.
THEOREM WindowFitsSysvar ==
  ASSUME NEW now \in Nat, NEW E \in SUBSET (0..(now - 1)),
         NEW ts \in [1..3 -> Nat], ts[1] <= ts[2], ts[2] <= ts[3],
         ExpirySlot(ts) - ts[1] <= MaxEntries, now <= ExpirySlot(ts)
  PROVE  ResolveSlotHashes(Sysvar(E), ts) = ResolveSlotHashes(E, ts)
<1>1. E \in SUBSET Nat /\ Sysvar(E) \in SUBSET E
  BY DEF Sysvar
<1>2. ExpirySlot(ts) \in Nat
  BY ExpiryAfterAssumption DEF ExpirySlot
<1>3. \A e \in E : e >= ts[1] => e \in Sysvar(E)
  <2> SUFFICES ASSUME NEW e \in E, e >= ts[1] PROVE e \in Sysvar(E)
    OBVIOUS
  <2>1. ts[1] \in Nat
    OBVIOUS
  <2> QED
    BY <1>2, <2>1, NothingEvicted
<1> QED
  BY <1>1, <1>3, SearchIgnoresThePast

=============================================================================
