--------------------------- MODULE ArtifactProofs ---------------------------
(***************************************************************************)
(* Proofs about the artifact, from the registry to the verification.       *)
(* First the registry, for every blob, chunk size, number of chunks,       *)
(* publishers and runtimes: what the accounts of a finalized artifact hold *)
(* is the blob its hash names, byte for byte, for ever.  Then verifyOutcome, *)
(* for every draw and whatever node, storage, caller and admin do: a verdict *)
(* means what it says.                                                     *)
(***************************************************************************)
EXTENDS ArtifactRegistry, Verifier, SequenceTheorems, Sums
ChunkAccounts == [made : BOOLEAN, data : Seq(Bytes)]
RuntimeAccounts == [authority : Keys, hash : Hashes, band : Bands]

\* What finalization checked of the artifact h, and nothing may undo.
FinalizedOK(h) == HashMatches(h) /\ ParsesAs(artifact[h].format, FormatOf[h])

ArtifactOK(h) ==
  artifact[h] # NoArtifact =>
    /\ artifact[h].chunk_count = ChunkCount(artifact[h].blob_len)
    /\ artifact[h].finalized => FinalizedOK(h)
    /\ artifact[h].status \in {"APPROVED", "DEPRECATED"} => artifact[h].finalized

RuntimeOK(r) ==
  runtime[r] # NoRuntime =>
    LET h == runtime[r].hash IN
    artifact[h] # NoArtifact /\ artifact[h].finalized /\ runtime[r].band = BandOf[h]

RegistryInv ==
  /\ RegistryTypeOK
  /\ \A h \in Hashes : ArtifactOK(h)
  /\ \A r \in Runtimes : RuntimeOK(r)

-----------------------------------------------------------------------------
(* The arithmetic of chunks. *)

\* A byte position is in one chunk, at one offset.
LEMMA Position ==
  ASSUME NEW n \in Nat, NEW c \in Nat \ {0}
  PROVE  /\ n \div c \in Nat /\ n % c \in 0..(c - 1)
         /\ n = c * (n \div c) + (n % c)
OBVIOUS

\* The chunk of a byte of a blob of length len is among the ones counted.
LEMMA ChunkInRange ==
  ASSUME NEW c \in Nat \ {0}, NEW len \in Nat, NEW j \in 0..(len - 1)
  PROVE  j \div c <= ((len + c - 1) \div c) - 1
<1> DEFINE q == j \div c
           p == (len + c - 1) \div c
<1>1. q \in Nat /\ j % c \in 0..(c - 1) /\ j = c * q + (j % c)
  <2>1. j \in Nat
    OBVIOUS
  <2> HIDE DEF q
  <2>2. j \div c \in Nat /\ j % c \in 0..(c - 1) /\ j = c * (j \div c) + (j % c)
    BY <2>1, Position
  <2> QED
    BY <2>2, Zenon DEF q
<1>2. /\ p \in Nat /\ (len + c - 1) % c \in 0..(c - 1)
      /\ len + c - 1 = c * p + ((len + c - 1) % c)
  <2>1. len + c - 1 \in Nat
    OBVIOUS
  <2> QED
    BY <2>1, Position
<1> HIDE DEF q, p
<1>3. c * q <= len - 1 /\ c * p >= len
  BY <1>1, <1>2
<1>4. ASSUME p <= q PROVE FALSE
  <2>1. c * p <= c * q
    BY <1>1, <1>2, <1>4
  <2>2. c * p \in Nat /\ c * q \in Nat
    BY <1>1, <1>2
  <2> QED
    BY <1>3, <2>1, <2>2
<1> QED
  BY <1>1, <1>2, <1>4 DEF q, p

\* A blob of at least one byte has at least one chunk.
LEMMA ChunkCountPositive ==
  ASSUME NEW len \in Nat \ {0}, ChunkCount(len) <= MaxChunks
  PROVE  ChunkCount(len) \in 1..MaxChunks
<1>1. ChunkSize \in Nat \ {0} /\ MaxChunks \in Nat
  BY SizesAssumption
<1>2. 0 \div ChunkSize <= ChunkCount(len) - 1 /\ 0 \div ChunkSize \in Nat
  BY <1>1, ChunkInRange, Position DEF ChunkCount
<1>3. ChunkCount(len) \in Nat
  <2>1. len + ChunkSize - 1 \in Nat
    BY <1>1
  <2> QED
    BY <1>1, <2>1, Position DEF ChunkCount
<1> QED
  BY <1>1, <1>2, <1>3

\* What is in chunk i of a blob at offset k is the byte at i * ChunkSize + k.
LEMMA SliceBytes ==
  ASSUME NEW blob \in Seq(Bytes), NEW i \in Nat, NEW k \in 0..(ChunkSize - 1),
         i * ChunkSize + k < Len(blob)
  PROVE  k < Len(Slice(blob, i)) /\ Slice(blob, i)[k + 1] = blob[i * ChunkSize + k + 1]
<1>1. ChunkSize \in Nat \ {0} /\ Len(blob) \in Nat
  BY SizesAssumption
<1> DEFINE from == i * ChunkSize
           to == IF Len(blob) < (i + 1) * ChunkSize THEN Len(blob) ELSE (i + 1) * ChunkSize
<1>2. from \in Nat /\ (i + 1) * ChunkSize = from + ChunkSize
  BY <1>1
<1>3. Slice(blob, i) = SubSeq(blob, from + 1, to)
  BY DEF Slice
<1>4. to \in Nat /\ from + k < to /\ to <= Len(blob) /\ from + k < Len(blob)
  BY <1>1, <1>2
<1> HIDE DEF from, to
<1>5. Len(SubSeq(blob, from + 1, to)) = to - from
  BY <1>1, <1>2, <1>4
<1>6. SubSeq(blob, from + 1, to)[k + 1] = blob[from + k + 1]
  BY <1>1, <1>2, <1>4
<1>7. k < to - from /\ i * ChunkSize + k + 1 = from + k + 1
  BY <1>1, <1>2, <1>4 DEF from
<1> QED
  BY <1>3, <1>5, <1>6, <1>7

\* A hash that matches the chunks says what every byte is.
LEMMA HashedIsHeld ==
  ASSUME RegistryTypeOK, NEW h \in Hashes, artifact[h] # NoArtifact, ArtifactOK(h),
         HashMatches(h)
  PROVE  HoldsBlob(h)
<1>1. ChunkSize \in Nat \ {0} /\ Blobs[h] \in Seq(Bytes) /\ Len(Blobs[h]) \in Nat
  BY SizesAssumption, BlobsAssumption
<1>2. artifact[h].blob_len = Len(Blobs[h])
  BY DEF HashMatches
<1>3. SUFFICES ASSUME NEW j \in 0..(Len(Blobs[h]) - 1)
               PROVE  LET data == chunk[h][j \div ChunkSize].data IN
                      j % ChunkSize < Len(data) /\ data[(j % ChunkSize) + 1] = Blobs[h][j + 1]
  BY <1>2 DEF HoldsBlob
<1> DEFINE i == j \div ChunkSize
           k == j % ChunkSize
<1>4. i \in Nat /\ k \in 0..(ChunkSize - 1) /\ j = ChunkSize * i + k
  <2>1. j \in Nat
    BY <1>1
  <2> HIDE DEF i, k
  <2>2. /\ j \div ChunkSize \in Nat /\ j % ChunkSize \in 0..(ChunkSize - 1)
        /\ j = ChunkSize * (j \div ChunkSize) + (j % ChunkSize)
    BY <1>1, <2>1, Position
  <2> QED
    BY <2>2, Zenon DEF i, k
<1>5. i <= artifact[h].chunk_count - 1
  BY <1>1, <1>2, ChunkInRange DEF ArtifactOK, ChunkCount
<1> HIDE DEF i, k
<1>6. chunk[h][i].data = Slice(Blobs[h], i)
  <2>1. artifact[h].chunk_count \in 1..MaxChunks
    BY DEF RegistryTypeOK, Artifacts
  <2> QED
    BY <1>4, <1>5, <2>1, SizesAssumption DEF HashMatches
<1>7. i * ChunkSize + k = j
  BY <1>1, <1>4
<1>8. k < Len(Slice(Blobs[h], i)) /\ Slice(Blobs[h], i)[k + 1] = Blobs[h][j + 1]
  <2>1. i * ChunkSize + k < Len(Blobs[h])
    BY <1>1, <1>7
  <2> QED
    BY <1>1, <1>4, <1>7, <2>1, SliceBytes
<1> QED
  BY <1>6, <1>8 DEF i, k

-----------------------------------------------------------------------------
(* One lemma per handler: the invariant, and what the step does to uploads. *)

\* What a step may do to the upload of h.
Grows(h) ==
  /\ \A i \in Indices : IsPrefix(chunk[h][i].data, chunk'[h][i].data)
  /\ artifact[h] # NoArtifact =>
       /\ artifact'[h].publisher = artifact[h].publisher
       /\ artifact[h].finalized => artifact'[h].finalized
       /\ artifact[h].status # "PENDING" =>
            /\ artifact'[h].finalized = artifact[h].finalized
            /\ chunk'[h] = chunk[h]
            /\ artifact'[h].status = "APPROVED" => artifact[h].status = "APPROVED"

\* Sequences of bytes only grow by appending.
LEMMA PrefixFacts ==
  ASSUME NEW s \in Seq(Bytes), NEW d \in Seq(Bytes)
  PROVE  /\ IsPrefix(s, s) /\ IsPrefix(s, s \o d) /\ SubSeq(s, 1, Len(s)) = s
<1>1. SubSeq(s, 1, Len(s)) = s
  OBVIOUS
<1>2. /\ Len(s) \in Nat /\ Len(s \o d) = Len(s) + Len(d) /\ Len(d) \in Nat
      /\ \A i \in 1..Len(s) : (s \o d)[i] = s[i]
  OBVIOUS
<1>3. SubSeq(s \o d, 1, Len(s)) = SubSeq(s, 1, Len(s))
  BY <1>2
<1> QED
  BY <1>1, <1>2, <1>3 DEF IsPrefix

\* Steps that leave uploads and runtimes alone.
LEMMA QuietStep ==
  ASSUME RegistryInv, UNCHANGED <<artifact, chunk, runtime>>,
         config' \in [admin : Keys, allow : BOOLEAN] \cup {NoConfig}, funded' \in SUBSET Runtimes
  PROVE  RegistryInv' /\ \A h \in Hashes : Grows(h)
<1>1. RegistryTypeOK'
  BY DEF RegistryInv, RegistryTypeOK
<1>2. \A h \in Hashes : ArtifactOK(h)'
  BY DEF RegistryInv, ArtifactOK, FinalizedOK, HashMatches
<1>3. \A r \in Runtimes : RuntimeOK(r)'
  BY DEF RegistryInv, RuntimeOK
<1>4. \A h \in Hashes, i \in Indices : chunk[h][i].data \in Seq(Bytes)
  BY DEF RegistryInv, RegistryTypeOK
<1>5. \A h \in Hashes : Grows(h)
  BY <1>4, PrefixFacts DEF Grows
<1> QED
  BY <1>1, <1>2, <1>3, <1>5 DEF RegistryInv

\* The configuration has an admin key and a flag, whoever sets it.
LEMMA ConfigSteps ==
  ASSUME RegistryInv, NEW a \in Keys, NEW new \in Keys,
         \/ InitializeProgramConfig(a)
         \/ \E flag \in AllowChoices : SetProgramConfig(a, new, flag)
         \/ RecoverProgramConfigAdmin(a, new)
  PROVE  RegistryInv' /\ \A h \in Hashes : Grows(h)
<1>1. AllowChoices \in SUBSET BOOLEAN /\ funded \in SUBSET Runtimes
  BY RegistryChoicesAssumption DEF RegistryInv, RegistryTypeOK
<1>2. config \in [admin : Keys, allow : BOOLEAN] \cup {NoConfig}
  BY DEF RegistryInv, RegistryTypeOK
<1>3. config' \in [admin : Keys, allow : BOOLEAN]
  <2>1. CASE InitializeProgramConfig(a)
    BY <2>1, Zenon DEF InitializeProgramConfig
  <2>2. ASSUME NEW flag \in AllowChoices, SetProgramConfig(a, new, flag)
        PROVE  config' \in [admin : Keys, allow : BOOLEAN]
    BY <1>1, <2>2, Zenon DEF SetProgramConfig
  <2>3. CASE RecoverProgramConfigAdmin(a, new)
    <3>1. config \in [admin : Keys, allow : BOOLEAN] /\ config' = [config EXCEPT !.admin = new]
      BY <1>2, <2>3 DEF RecoverProgramConfigAdmin
    <3> QED
      BY <3>1
  <2> QED
    BY <2>1, <2>2, <2>3
<1> QED
  BY <1>1, <1>3, QuietStep
  DEF InitializeProgramConfig, SetProgramConfig, RecoverProgramConfigAdmin

\* A submission is the first of its hash: it declares a length and counts the
\* chunks for it.
LEMMA SubmitStep ==
  ASSUME RegistryInv, NEW a \in Keys, NEW h \in Hashes, NEW format \in Formats,
         NEW len \in DeclaredLens, SubmitCompiledArtifact(a, h, format, len)
  PROVE  RegistryInv' /\ \A x \in Hashes : Grows(x)
<1> DEFINE new == [publisher |-> a, status |-> "PENDING", finalized |-> FALSE,
                   format |-> format, blob_len |-> len, chunk_count |-> ChunkCount(len)]
<1>1. /\ artifact[h] = NoArtifact /\ artifact' = [artifact EXCEPT ![h] = new]
      /\ UNCHANGED <<config, chunk, runtime, funded>>
      /\ len > 0 /\ len <= ChunkSize * MaxChunks /\ ChunkCount(len) <= MaxChunks
  BY DEF SubmitCompiledArtifact
<1>2. len \in Nat \ {0} /\ len \in 1..(ChunkSize * MaxChunks)
  BY <1>1, SizesAssumption
<1>3. ChunkCount(len) \in 1..MaxChunks
  BY <1>1, <1>2, ChunkCountPositive
<1>4. new \in Artifacts
  BY <1>2, <1>3 DEF Artifacts, Statuses
<1>5. artifact \in [Hashes -> Artifacts \cup {NoArtifact}]
  BY DEF RegistryInv, RegistryTypeOK
<1>6. /\ new.chunk_count = ChunkCount(new.blob_len) /\ new.finalized = FALSE
      /\ new.status = "PENDING"
  OBVIOUS
<1> HIDE DEF new
<1>7. RegistryTypeOK'
  <2>1. artifact' \in [Hashes -> Artifacts \cup {NoArtifact}]
    BY <1>1, <1>4, <1>5
  <2> QED
    BY <1>1, <2>1 DEF RegistryInv, RegistryTypeOK
<1>8. artifact'[h] = new /\ \A x \in Hashes \ {h} : artifact'[x] = artifact[x]
  BY <1>1, <1>5
<1>9. ASSUME NEW x \in Hashes PROVE ArtifactOK(x)'
  <2>1. CASE x = h
    BY <1>6, <1>8, <2>1 DEF ArtifactOK
  <2>2. CASE x # h
    BY <1>1, <1>8, <2>2 DEF RegistryInv, ArtifactOK, FinalizedOK, HashMatches
  <2> QED
    BY <2>1, <2>2
<1>10. ASSUME NEW r \in Runtimes PROVE RuntimeOK(r)'
  <2>1. SUFFICES ASSUME runtime[r] # NoRuntime PROVE RuntimeOK(r)'
    BY <1>1 DEF RuntimeOK
  <2>2. runtime[r] \in RuntimeAccounts
    BY <2>1 DEF RegistryInv, RegistryTypeOK, RuntimeAccounts
  <2>3. runtime[r].hash \in Hashes /\ runtime[r].hash # h
    BY <1>1, <2>1, <2>2 DEF RegistryInv, RuntimeOK, RuntimeAccounts
  <2> QED
    BY <1>1, <1>8, <2>3 DEF RegistryInv, RuntimeOK
<1>11. \A x \in Hashes, i \in Indices : chunk[x][i].data \in Seq(Bytes)
  BY DEF RegistryInv, RegistryTypeOK
<1>12. \A x \in Hashes : Grows(x)
  BY <1>1, <1>8, <1>11, PrefixFacts DEF Grows
<1> QED
  BY <1>7, <1>9, <1>10, <1>12 DEF RegistryInv

\* A chunk of an upload under way changes: its artifact is not finalized, and every
\* other chunk stays what it is.
LEMMA ChunkStep ==
  ASSUME RegistryInv, NEW a \in Keys, NEW h \in Hashes, NEW i \in Indices, Uploadable(h, a),
         NEW new \in ChunkAccounts, Len(new.data) <= ChunkSize,
         IsPrefix(chunk[h][i].data, new.data),
         chunk' = [chunk EXCEPT ![h] = [chunk[h] EXCEPT ![i] = new]],
         UNCHANGED <<config, artifact, runtime, funded>>
  PROVE  RegistryInv' /\ \A x \in Hashes : Grows(x)
<1>1. chunk \in [Hashes -> [Indices -> ChunkAccounts]]
  BY DEF RegistryInv, RegistryTypeOK, ChunkAccounts
<1>2. /\ chunk'[h][i] = new /\ \A k \in Indices \ {i} : chunk'[h][k] = chunk[h][k]
      /\ \A x \in Hashes \ {h} : chunk'[x] = chunk[x]
  BY <1>1
<1>3. RegistryTypeOK'
  <2>1. chunk' \in [Hashes -> [Indices -> ChunkAccounts]]
    BY <1>1
  <2>2. \A x \in Hashes, k \in Indices : Len(chunk'[x][k].data) <= ChunkSize
    BY <1>2 DEF RegistryInv, RegistryTypeOK
  <2> QED
    BY <2>1, <2>2 DEF RegistryInv, RegistryTypeOK, ChunkAccounts
<1>4. /\ artifact[h] # NoArtifact /\ ~artifact[h].finalized /\ artifact[h].status = "PENDING"
  BY DEF Uploadable
<1>5. ASSUME NEW x \in Hashes PROVE ArtifactOK(x)'
  <2>1. CASE x = h
    BY <1>4, <2>1 DEF RegistryInv, ArtifactOK
  <2>2. CASE x # h
    BY <1>2, <2>2 DEF RegistryInv, ArtifactOK, FinalizedOK, HashMatches
  <2> QED
    BY <2>1, <2>2
<1>6. \A r \in Runtimes : RuntimeOK(r)'
  BY DEF RegistryInv, RuntimeOK
<1>7. \A x \in Hashes, k \in Indices : chunk[x][k].data \in Seq(Bytes)
  BY DEF RegistryInv, RegistryTypeOK
<1>8. ASSUME NEW x \in Hashes PROVE Grows(x)
  <2>1. CASE x = h
    <3>1. \A k \in Indices : IsPrefix(chunk[h][k].data, chunk'[h][k].data)
      BY <1>2, <1>7, PrefixFacts
    <3> QED
      BY <1>4, <2>1, <3>1 DEF Grows
  <2>2. CASE x # h
    BY <1>2, <1>7, <2>2, PrefixFacts DEF Grows
  <2> QED
    BY <2>1, <2>2
<1> QED
  BY <1>3, <1>5, <1>6, <1>8 DEF RegistryInv

\* Creating a chunk account.
LEMMA InitChunkStep ==
  ASSUME RegistryInv, NEW a \in Keys, NEW h \in Hashes, NEW i \in Indices,
         InitCompiledArtifactChunk(a, h, i)
  PROVE  RegistryInv' /\ \A x \in Hashes : Grows(x)
<1>1. /\ chunk[h][i] \in ChunkAccounts /\ chunk[h][i].data \in Seq(Bytes)
      /\ Len(chunk[h][i].data) <= ChunkSize
  BY DEF RegistryInv, RegistryTypeOK, ChunkAccounts
<1> DEFINE new == [chunk[h][i] EXCEPT !.made = TRUE]
<1>2. new \in ChunkAccounts /\ new.data = chunk[h][i].data
  BY <1>1 DEF ChunkAccounts
<1>3. /\ chunk' = [chunk EXCEPT ![h] = [chunk[h] EXCEPT ![i] = new]]
      /\ Uploadable(h, a) /\ UNCHANGED <<config, artifact, runtime, funded>>
  BY DEF InitCompiledArtifactChunk
<1>4. IsPrefix(chunk[h][i].data, new.data) /\ Len(new.data) <= ChunkSize
  BY <1>1, <1>2, PrefixFacts
<1> HIDE DEF new
<1> QED
  BY <1>2, <1>3, <1>4, ChunkStep

\* A write lands at the end of what is there and within the chunk.
LEMMA WriteChunkStep ==
  ASSUME RegistryInv, NEW a \in Keys, NEW h \in Hashes, NEW i \in Indices,
         NEW offset \in 0..ChunkSize, NEW data \in Writes,
         WriteCompiledArtifactChunk(a, h, i, offset, data)
  PROVE  RegistryInv' /\ \A x \in Hashes : Grows(x)
<1>1. chunk[h][i] \in ChunkAccounts /\ chunk[h][i].data \in Seq(Bytes)
  BY DEF RegistryInv, RegistryTypeOK, ChunkAccounts
<1>2. data \in Seq(Bytes)
  <2>1. PICK n \in 1..MaxWrite : data \in [1..n -> Bytes]
    BY DEF Writes
  <2>2. n \in Nat
    BY <2>1, SizesAssumption
  <2> QED
    BY <2>1, <2>2
<1> DEFINE bytes == chunk[h][i].data \o data
           new == [chunk[h][i] EXCEPT !.data = bytes]
<1>3. bytes \in Seq(Bytes) /\ Len(bytes) = Len(chunk[h][i].data) + Len(data)
  BY <1>1, <1>2
<1>4. IsPrefix(chunk[h][i].data, bytes) /\ SubSeq(chunk[h][i].data, 1, Len(chunk[h][i].data)) = chunk[h][i].data
  BY <1>1, <1>2, PrefixFacts
<1>5. /\ Uploadable(h, a) /\ UNCHANGED <<config, artifact, runtime, funded>>
      /\ offset = Len(chunk[h][i].data)
      /\ offset + Len(data) <= ExpectedChunkLen(artifact[h].blob_len, i)
      /\ i < artifact[h].chunk_count
  BY DEF WriteCompiledArtifactChunk, AtTheEnd
<1>6. chunk' = [chunk EXCEPT ![h][i].data = bytes]
  BY <1>4, <1>5 DEF WriteCompiledArtifactChunk
<1>7. Len(bytes) <= ChunkSize
  <2>1. artifact[h] \in Artifacts
    BY <1>5 DEF RegistryInv, RegistryTypeOK, Uploadable
  <2>2. artifact[h].blob_len \in Nat /\ ChunkSize \in Nat /\ i \in Nat
    BY <2>1, SizesAssumption DEF Artifacts, Indices
  <2>3. ExpectedChunkLen(artifact[h].blob_len, i) \in Int
        /\ ExpectedChunkLen(artifact[h].blob_len, i) <= ChunkSize
    <3>1. i * ChunkSize \in Nat
      BY <2>2
    <3> QED
      BY <2>2, <3>1 DEF ExpectedChunkLen
  <2>4. Len(bytes) \in Nat
    BY <1>3
  <2> QED
    BY <1>3, <1>5, <2>2, <2>3, <2>4
<1> HIDE DEF bytes
<1>8. new \in ChunkAccounts /\ new.data = bytes
  BY <1>1, <1>3 DEF ChunkAccounts
<1>9. chunk' = [chunk EXCEPT ![h] = [chunk[h] EXCEPT ![i] = new]]
  BY <1>6
<1> HIDE DEF new
<1> QED
  BY <1>4, <1>5, <1>7, <1>8, <1>9, ChunkStep

\* Finalization and reviews change one artifact and no chunk.
LEMMA ArtifactStep ==
  ASSUME RegistryInv, NEW h \in Hashes, artifact[h] # NoArtifact,
         NEW new \in Artifacts, artifact' = [artifact EXCEPT ![h] = new],
         /\ new.publisher = artifact[h].publisher /\ new.format = artifact[h].format
         /\ new.blob_len = artifact[h].blob_len /\ new.chunk_count = artifact[h].chunk_count,
         artifact[h].finalized => new.finalized,
         new.finalized => artifact[h].finalized \/ FinalizedOK(h),
         new.status \in {"APPROVED", "DEPRECATED"} => new.finalized,
         artifact[h].status # "PENDING" =>
           /\ new.finalized = artifact[h].finalized
           /\ new.status = "APPROVED" => artifact[h].status = "APPROVED",
         UNCHANGED <<config, chunk, runtime, funded>>
  PROVE  RegistryInv' /\ \A x \in Hashes : Grows(x)
<1>1. artifact \in [Hashes -> Artifacts \cup {NoArtifact}]
  BY DEF RegistryInv, RegistryTypeOK
<1>2. artifact'[h] = new /\ \A x \in Hashes \ {h} : artifact'[x] = artifact[x]
  BY <1>1
<1>3. RegistryTypeOK'
  <2>1. artifact' \in [Hashes -> Artifacts \cup {NoArtifact}]
    BY <1>1
  <2> QED
    BY <2>1 DEF RegistryInv, RegistryTypeOK
<1>4. artifact'[h] # NoArtifact
  BY <1>2 DEF Artifacts, Statuses, NoArtifact
<1>5. ASSUME NEW x \in Hashes PROVE ArtifactOK(x)'
  <2>1. CASE x = h
    <3>1. FinalizedOK(h) => FinalizedOK(h)'
      BY <1>2 DEF FinalizedOK, HashMatches
    <3> QED
      BY <1>2, <2>1, <3>1 DEF RegistryInv, ArtifactOK
  <2>2. CASE x # h
    BY <1>2, <2>2 DEF RegistryInv, ArtifactOK, FinalizedOK, HashMatches
  <2> QED
    BY <2>1, <2>2
<1>6. ASSUME NEW r \in Runtimes PROVE RuntimeOK(r)'
  <2>1. SUFFICES ASSUME runtime[r] # NoRuntime PROVE RuntimeOK(r)'
    BY DEF RuntimeOK
  <2>2. runtime[r] \in RuntimeAccounts
    BY <2>1 DEF RegistryInv, RegistryTypeOK, RuntimeAccounts
  <2>3. runtime[r].hash \in Hashes
    BY <2>2 DEF RuntimeAccounts
  <2> QED
    BY <1>2, <1>4, <2>1, <2>3 DEF RegistryInv, RuntimeOK
<1>7. \A x \in Hashes, k \in Indices : chunk[x][k].data \in Seq(Bytes)
  BY DEF RegistryInv, RegistryTypeOK
<1>8. ASSUME NEW x \in Hashes PROVE Grows(x)
  BY <1>2, <1>7, PrefixFacts DEF Grows
<1> QED
  BY <1>3, <1>5, <1>6, <1>8 DEF RegistryInv

\* Finalization: the chunks are complete, match the hash and parse.
LEMMA FinalizeStep ==
  ASSUME RegistryInv, NEW a \in Keys, NEW h \in Hashes, FinalizeCompiledArtifact(a, h)
  PROVE  RegistryInv' /\ \A x \in Hashes : Grows(x)
<1> DEFINE new == [artifact[h] EXCEPT !.finalized = TRUE]
<1>1. artifact[h] # NoArtifact /\ artifact[h].status = "PENDING" /\ artifact[h] \in Artifacts
  BY DEF FinalizeCompiledArtifact, Uploadable, RegistryInv, RegistryTypeOK
<1>2. /\ artifact' = [artifact EXCEPT ![h] = new] /\ UNCHANGED <<config, chunk, runtime, funded>>
      /\ FinalizedOK(h)
  BY DEF FinalizeCompiledArtifact, FinalizedOK
<1>3. /\ new \in Artifacts /\ new.publisher = artifact[h].publisher
      /\ new.format = artifact[h].format /\ new.blob_len = artifact[h].blob_len
      /\ new.chunk_count = artifact[h].chunk_count /\ new.finalized = TRUE
      /\ new.status = "PENDING"
  BY <1>1 DEF Artifacts
<1> HIDE DEF new
<1> QED
  BY <1>1, <1>2, <1>3, ArtifactStep

\* A review changes the status of one artifact, and approves only finalized ones.
LEMMA ReviewStep ==
  ASSUME RegistryInv, NEW a \in Keys, NEW h \in Hashes, NEW review \in Reviews,
         ReviewCompiledArtifact(a, h, review)
  PROVE  RegistryInv' /\ \A x \in Hashes : Grows(x)
<1> DEFINE new == [artifact[h] EXCEPT !.status = review]
<1>1. artifact[h] # NoArtifact /\ artifact[h] \in Artifacts
  BY DEF ReviewCompiledArtifact, RegistryInv, RegistryTypeOK
<1>2. /\ artifact' = [artifact EXCEPT ![h] = new] /\ UNCHANGED <<config, chunk, runtime, funded>>
      /\ MayReview(artifact[h].status, artifact[h].finalized, review)
  BY DEF ReviewCompiledArtifact, Reviewable
<1>3. /\ new \in Artifacts /\ new.publisher = artifact[h].publisher
      /\ new.format = artifact[h].format /\ new.blob_len = artifact[h].blob_len
      /\ new.chunk_count = artifact[h].chunk_count /\ new.finalized = artifact[h].finalized
      /\ new.status = review
  BY <1>1, RegistryChoicesAssumption DEF Artifacts
<1>4. /\ review \in {"APPROVED", "DEPRECATED"} => artifact[h].finalized
      /\ review = "APPROVED" => artifact[h].status = "PENDING"
  BY <1>2 DEF MayReview
<1> HIDE DEF new
<1> QED
  BY <1>1, <1>2, <1>3, <1>4, ArtifactStep

\* Binding: the artifact is finalized and the band is the one in its header.
LEMMA BindStep ==
  ASSUME RegistryInv, NEW a \in Keys, NEW r \in Runtimes, NEW h \in Hashes, NEW band \in Bands,
         InitializeOutcomeConfig(a, r, h, band)
  PROVE  RegistryInv' /\ \A x \in Hashes : Grows(x)
<1> DEFINE new == [authority |-> a, hash |-> h, band |-> band]
<1>1. /\ runtime' = [runtime EXCEPT ![r] = new] /\ funded' = funded \cup {r}
      /\ UNCHANGED <<config, artifact, chunk>>
      /\ artifact[h] # NoArtifact /\ artifact[h].finalized /\ band = BandOf[h]
  BY DEF InitializeOutcomeConfig, Binding
<1>2. new \in RuntimeAccounts /\ new.hash = h /\ new.band = band
  BY DEF RuntimeAccounts
<1>3. runtime \in [Runtimes -> RuntimeAccounts \cup {NoRuntime}]
  BY DEF RegistryInv, RegistryTypeOK, RuntimeAccounts
<1> HIDE DEF new
<1>4. RegistryTypeOK'
  <2>1. runtime' \in [Runtimes -> RuntimeAccounts \cup {NoRuntime}]
    BY <1>1, <1>2, <1>3
  <2> QED
    BY <1>1, <2>1 DEF RegistryInv, RegistryTypeOK, RuntimeAccounts
<1>5. \A x \in Hashes : ArtifactOK(x)'
  BY <1>1 DEF RegistryInv, ArtifactOK, FinalizedOK, HashMatches
<1>6. ASSUME NEW q \in Runtimes PROVE RuntimeOK(q)'
  <2>1. CASE q = r
    BY <1>1, <1>2, <1>3, <2>1 DEF RuntimeOK
  <2>2. CASE q # r
    <3>1. runtime'[q] = runtime[q]
      BY <1>1, <1>3, <2>2
    <3> QED
      BY <1>1, <3>1 DEF RegistryInv, RuntimeOK
  <2> QED
    BY <2>1, <2>2
<1>7. \A x \in Hashes, k \in Indices : chunk[x][k].data \in Seq(Bytes)
  BY DEF RegistryInv, RegistryTypeOK
<1>8. \A x \in Hashes : Grows(x)
  BY <1>1, <1>7, PrefixFacts DEF Grows
<1> QED
  BY <1>4, <1>5, <1>6, <1>8 DEF RegistryInv

-----------------------------------------------------------------------------
(* Every step, and the theorems. *)

\* An empty registry satisfies the invariant.
LEMMA InitRegistry == Init => RegistryInv
<1> SUFFICES ASSUME Init PROVE RegistryInv
  OBVIOUS
<1>1. NoChunk \in ChunkAccounts /\ NoChunk.data = <<>>
  BY DEF NoChunk, ChunkAccounts
<1>2. chunk \in [Hashes -> [Indices -> ChunkAccounts]]
  BY <1>1 DEF Init
<1>3. \A h \in Hashes, i \in Indices : Len(chunk[h][i].data) <= ChunkSize
  <2>1. Len(<<>>) = 0 /\ ChunkSize \in Nat
    BY SizesAssumption
  <2>2. \A h \in Hashes, i \in Indices : chunk[h][i].data = <<>>
    BY <1>1 DEF Init
  <2> QED
    BY <2>1, <2>2
<1> QED
  BY <1>2, <1>3 DEF Init, RegistryInv, RegistryTypeOK, ArtifactOK, RuntimeOK, ChunkAccounts

\* Every step preserves the invariant, and uploads only grow.
LEMMA NextRegistry ==
  ASSUME RegistryInv, [Next]_vars
  PROVE  RegistryInv' /\ \A h \in Hashes : Grows(h)
<1>0. /\ config \in [admin : Keys, allow : BOOLEAN] \cup {NoConfig} /\ funded \in SUBSET Runtimes
  BY DEF RegistryInv, RegistryTypeOK
<1>1. CASE UNCHANGED vars
  BY <1>0, <1>1, QuietStep DEF vars
<1>2. ASSUME NEW r \in Runtimes, FundVaultAddress(r)
      PROVE  RegistryInv' /\ \A h \in Hashes : Grows(h)
  BY <1>0, <1>2, QuietStep DEF FundVaultAddress
<1>3. ASSUME NEW a \in Keys, NEW new \in Keys,
             \/ InitializeProgramConfig(a)
             \/ \E flag \in AllowChoices : SetProgramConfig(a, new, flag)
             \/ RecoverProgramConfigAdmin(a, new)
      PROVE  RegistryInv' /\ \A h \in Hashes : Grows(h)
  BY <1>3, ConfigSteps
<1> QED
  BY <1>1, <1>2, <1>3, SubmitStep, InitChunkStep, WriteChunkStep, FinalizeStep, ReviewStep,
     BindStep
  DEF Next

\* The inductive invariant of the registry.
THEOREM RegistryInvariant == Spec => []RegistryInv
<1>1. RegistryInv /\ [Next]_vars => RegistryInv'
  BY NextRegistry
<1> QED
  BY <1>1, InitRegistry, PTL DEF Spec

\* What the registry vouches for is the blob the hash names, byte for byte: from
\* finalization on, through every review, and for every runtime bound to it.
THEOREM ArtifactsAlwaysIntact == Spec => []ArtifactsIntact
<1>1. ASSUME RegistryInv PROVE ArtifactsIntact
  <2>1. ASSUME NEW h \in Hashes, artifact[h] # NoArtifact, artifact[h].finalized
        PROVE  HoldsBlob(h) /\ ParsesAs(artifact[h].format, FormatOf[h])
    BY <1>1, <2>1, HashedIsHeld DEF RegistryInv, ArtifactOK, FinalizedOK
  <2>2. FinalizedBlobIntact
    BY <2>1 DEF FinalizedBlobIntact
  <2>3. ReviewedIsFinalized
    BY <1>1 DEF RegistryInv, ArtifactOK, ReviewedIsFinalized
  <2>4. ASSUME NEW r \in Runtimes, runtime[r] # NoRuntime
        PROVE  LET h == runtime[r].hash IN
               artifact[h].finalized /\ HoldsBlob(h) /\ runtime[r].band = BandOf[h]
    <3>1. runtime[r].hash \in Hashes
      BY <1>1, <2>4 DEF RegistryInv, RegistryTypeOK
    <3> QED
      BY <1>1, <2>1, <2>4, <3>1 DEF RegistryInv, RuntimeOK
  <2>5. BoundToIntactArtifact
    BY <2>4 DEF BoundToIntactArtifact
  <2> QED
    BY <1>1, <2>2, <2>3, <2>5 DEF ArtifactsIntact, RegistryInv
<1> QED
  BY <1>1, RegistryInvariant, PTL

\* No transaction changes a byte that was written, undoes a finalization, takes a
\* review back to PENDING, approves what was rejected or changes a publisher.
THEOREM UploadsAlwaysGrow == Spec => UploadsOnlyGrow
<1>1. RegistryInv /\ [Next]_vars =>
        [\A h \in Hashes :
           /\ \A i \in Indices : IsPrefix(chunk[h][i].data, chunk'[h][i].data)
           /\ artifact[h] # NoArtifact =>
                /\ artifact'[h].publisher = artifact[h].publisher
                /\ artifact[h].finalized => artifact'[h].finalized
                /\ artifact[h].status # "PENDING" =>
                     /\ artifact'[h].finalized = artifact[h].finalized
                     /\ chunk'[h] = chunk[h]
                     /\ artifact'[h].status = "APPROVED" => artifact[h].status = "APPROVED"]_vars
  BY NextRegistry DEF Grows
<1> QED
  BY <1>1, RegistryInvariant, PTL DEF Spec, UploadsOnlyGrow

-----------------------------------------------------------------------------
(* The verification of a draw. *)

\* A list of checks that the verification survives.
Passes(checks) == \A i \in DOMAIN checks : checks[i].ok

\* The codes of the checks, and every reason but a MATCH.
Attestations == {"conditions", "slot"}
NoEventCodes ==
  {"ERR_PROGRAM_ID_MISMATCH", "ERR_EVENT_NOT_FOUND_FOR_PROGRAM", "ERR_EVENT_DISCRIMINATOR_MISMATCH"}
CheckCodes ==
  {"ERR_CONFIG_HASH_MISMATCH", "ERR_RESOLUTION_HASH_MISMATCH", "ERR_ARTIFACT_HASH_MISMATCH",
   "ERR_ARTIFACT_NOT_FINALIZED", "ERR_ARTIFACT_CHUNK_MISSING", "ERR_REPLAY_UNHANDLED",
   "ERR_RNG_V2_SNAPSHOT_HASH_MISMATCH", "ERR_RNG_V2_OPERATOR_REVEAL_MISMATCH",
   "ERR_RNG_V2_STATE_MISMATCH", "ERR_RANDOMNESS_MISMATCH", "ERR_INPUT_MISMATCH",
   "ERR_ARTIFACT_FORMAT_VERSION_MISMATCH", "ERR_RNG_V2_RESOLUTION_MISMATCH",
   "ERR_WINNER_CLAIM_HASH_MISMATCH", "ERR_OUTCOME_ID_MISMATCH", "ERR_EFFECTS_DIGEST_MISMATCH",
   "ERR_OUTPUT_MISMATCH", "ERR_WINNER_COUNT_MISMATCH", "ERR_CONDITIONS_ENTRANT_COUNT_MISMATCH",
   "ERR_CONDITIONS_SCORE_SUM_MISMATCH", "ERR_CONDITIONS_WINNERS_DIGEST_MISMATCH",
   "ERR_CONDITIONS_FACTS_ROOT_MISMATCH", "ERR_SLOT_RANDOMNESS_MISMATCH",
   "ERR_SLOT_REEL_STOPS_MISMATCH", "ERR_SLOT_WIN_MISMATCH", "ERR_SLOT_PAYOUT_MISMATCH"}
FetchCodes ==
  {"ERR_TX_NOT_FOUND_OR_NO_LOGS", "ERR_OUTCOME_CONFIG_NOT_FOUND", "ERR_RESOLUTION_ACCOUNT_NOT_FOUND",
   "ERR_RNG_V2_STATE_MISMATCH", "ERR_ARTIFACT_HEADER_NOT_FOUND"}
Refusals ==
  CheckCodes \cup FetchCodes \cup NoEventCodes
    \cup {"ERR_ARTIFACT_STATUS_INVALID", "ERR_SNAPSHOT_UNAVAILABLE", "COMMITMENT", "THROWS"}

\* The draw, as it was asked.
DrawOK ==
  /\ draw.op \in {"verify", "commitment"} /\ draw.kind \in Kinds
  /\ draw.commit \in BOOLEAN /\ draw.wins \in BOOLEAN /\ draw.beyondSafe \in BOOLEAN
  /\ world.parses \in BOOLEAN /\ world.localFile \in BOOLEAN
  /\ world.uri \in {"host", "hostless", "unknown", "mirror", "none"}
  /\ Nested(world.logs)
  /\ \A i \in DOMAIN world.logs : world.logs[i] = Data("outcome") => draw.kind \in OutcomeKinds

\* Where a verification of which kind may be.
ControlOK ==
  /\ pc \in {"logs", "config", "resolution", "state", "header", "allow", "chunks",
             "sources", "compare", "match", "done"}
  /\ verdict \in Refusals \cup {"OK", "NONE"} /\ ((pc = "done") <=> (verdict # "NONE"))
  /\ kind \in Kinds \cup {"none"} /\ status \in Statuses /\ header \in Statuses \cup {"none"}
  /\ allow \in BOOLEAN /\ seen \subseteq BOOLEAN /\ reviews \in Nat
  /\ pc = "logs" => kind = "none"
  /\ pc \notin {"logs", "done"} \/ verdict = "OK" => kind # "none"
  /\ pc \in {"config", "resolution", "state", "allow", "sources", "compare", "match"} \/ verdict = "OK" =>
       draw.op = "verify"
  /\ pc \in {"resolution", "state", "allow"} => kind \in OutcomeKinds
  /\ pc \in {"sources", "compare"} => Scale(kind)

\* The verification is past the step of a list of phases.
Past(phases) == pc \in phases \/ verdict = "OK"

\* What the checks behind have established.
PassedOK ==
  /\ kind \in Attestations /\ draw.op = "verify" /\ Past({"header", "chunks", "match"}) =>
       Equal("config", "event", {"hash"})
  /\ kind \in Attestations /\ draw.op = "verify" /\ Past({"chunks", "match"}) => Passes(SlotBindingChecks)
  /\ kind \in OutcomeKinds /\ draw.op = "verify" /\ Past({"allow", "chunks", "sources", "compare", "match"}) =>
       Passes(BindingChecks)
  /\ Past({"sources", "compare", "match"}) => Passes(BlobChecks)
  /\ kind = "conditions" /\ Past({"match"}) => Passes(ConditionsChecks)
  /\ kind = "slot" /\ Past({"match"}) => Passes(SlotChecks)
  /\ kind \in OutcomeKinds /\ Past({"sources", "compare", "match"}) =>
       Passes(RandomnessChecks) /\ Passes(InputChecks) /\ Passes(ResolutionEvidence)
  /\ kind \in OutcomeKinds /\ ~Scale(kind) /\ Past({"match"}) => Passes(CompactChecks)
  /\ kind = "scaleList" /\ Past({"match"}) => Passes(ScaleListChecks)
  /\ kind \in {"scaleClaim", "rngScale"} /\ Past({"match"}) => Passes(ScaleClaimChecks)
  /\ Scale(kind) /\ Past({"match"}) => world.inspects

\* The sources tried are the first ones of the list, and only the last counts.
SourcesOK ==
  /\ attempts \in Seq(Sources) /\ Len(attempts) <= Len(SourceCandidates)
  /\ \A i \in DOMAIN attempts : attempts[i] = SourceCandidates[i]
  /\ Len(attempts) = Cardinality(ToSet(attempts))
  /\ pc \notin {"sources", "compare", "match", "done"} => attempts = <<>>
  /\ pc = "sources" => \A i \in DOMAIN attempts : ~Counts(attempts[i])
  /\ pc = "compare" \/ (pc = "match" /\ Scale(kind)) => attempts # <<>> /\ Counts(Last(attempts))
  /\ verdict = "ERR_SNAPSHOT_UNAVAILABLE" => \A s \in ToSet(SourceCandidates) : ~Counts(s)

\* A draw nothing speaks against.
Honest ==
  /\ draw.op = "verify" /\ kind # "none"
  /\ Consistent(kind) /\ world.missing = {} /\ world.parses
  /\ world.artifactFile \in {"none", "same"} /\ ~draw.beyondSafe
HonestOK ==
  pc = "done" /\ Honest =>
    \/ verdict \in {"OK", "ERR_ARTIFACT_STATUS_INVALID", "ERR_SNAPSHOT_UNAVAILABLE"}
    \/ verdict = "ERR_REPLAY_UNHANDLED" /\ (world.flaky \/ (Scale(kind) /\ ~world.inspects))

VerifierInv ==
  /\ DrawOK /\ ControlOK /\ PassedOK /\ SourcesOK /\ HonestOK /\ EventIsOurs /\ CommitmentIsTheArtifact

\* At most one change is made while a verification runs.
OneReview == \A w \in Worlds : w.reviews \in {0, 1}

\* With one change at most, the status read and the flag of the moment are a
\* pair that was true.
StatusOK ==
  /\ reviews \in {0, 1}
  /\ StatusAllowsBinding(status, allow) \in seen
  /\ pc = "allow" =>
       \E flag \in BOOLEAN :
         /\ header \in Statuses /\ StatusAllowsBinding(header, flag) \in seen
         /\ reviews = 1 => status = header /\ allow = flag
         /\ status = header \/ allow = flag
  /\ kind \in OutcomeKinds /\ draw.op = "verify" /\ Past({"chunks", "sources", "compare", "match"}) => TRUE \in seen
  /\ verdict = "ERR_ARTIFACT_STATUS_INVALID" => FALSE \in seen

-----------------------------------------------------------------------------
(* Lists of checks. *)

Checks == [code : CheckCodes, ok : BOOLEAN]

\* The first failure of a list is one of its codes, and there is none where
\* every check holds.
LEMMA FirstFailureIs ==
  ASSUME NEW C, "OK" \notin C, NEW checks \in Seq([code : C, ok : BOOLEAN])
  PROVE  /\ Passes(checks) => FirstFailure(checks) = "OK"
         /\ ~Passes(checks) => FirstFailure(checks) \in C
<1> DEFINE failing == {i \in DOMAIN checks : ~checks[i].ok}
<1>1. CASE failing = {}
  BY <1>1 DEF FirstFailure, Passes
<1>2. CASE failing # {}
  <2>1. failing \in SUBSET Nat
    BY LenProperties
  <2>2. \E i \in failing : \A j \in failing : i <= j
    BY <1>2, <2>1, LeastNatural
  <2>3. Min(failing) \in failing
    BY <2>2 DEF Min
  <2>4. FirstFailure(checks) = checks[Min(failing)].code
    BY <1>2 DEF FirstFailure
  <2>5. checks[Min(failing)].code \in C
    <3>1. checks[Min(failing)] \in [code : C, ok : BOOLEAN]
      BY <2>3, ElementOfSeq, LenProperties
    <3> QED
      BY <3>1
  <2>6. ~Passes(checks)
    BY <1>2 DEF Passes
  <2> QED
    BY <2>4, <2>5, <2>6
<1> QED
  BY <1>1, <1>2

\* A list is passed where both of its parts are.
LEMMA PassesConcat ==
  ASSUME NEW S, NEW a \in Seq(S), NEW b \in Seq(S)
  PROVE  a \o b \in Seq(S) /\ (Passes(a \o b) <=> Passes(a) /\ Passes(b))
<1>1. /\ a \o b \in Seq(S) /\ Len(a \o b) = Len(a) + Len(b)
      /\ \A i \in 1..Len(a)+Len(b) : (a \o b)[i] = IF i <= Len(a) THEN a[i] ELSE b[i - Len(a)]
      /\ Len(a) \in Nat /\ Len(b) \in Nat
  BY ConcatProperties, LenProperties
<1>2. /\ DOMAIN a = 1..Len(a) /\ DOMAIN b = 1..Len(b) /\ DOMAIN (a \o b) = 1..Len(a)+Len(b)
  BY <1>1, LenProperties
<1>3. ASSUME Passes(a \o b) PROVE Passes(a) /\ Passes(b)
  <2>1. ASSUME NEW i \in DOMAIN a PROVE a[i].ok
    <3>1. i \in DOMAIN (a \o b) /\ (a \o b)[i] = a[i]
      BY <1>1, <1>2
    <3> QED
      BY <1>3, <3>1 DEF Passes
  <2>2. ASSUME NEW i \in DOMAIN b PROVE b[i].ok
    <3>1. i + Len(a) \in DOMAIN (a \o b) /\ (a \o b)[i + Len(a)] = b[i]
      BY <1>1, <1>2
    <3> QED
      BY <1>3, <3>1 DEF Passes
  <2> QED
    BY <2>1, <2>2 DEF Passes
<1>4. ASSUME Passes(a), Passes(b) PROVE Passes(a \o b)
  <2>1. ASSUME NEW i \in DOMAIN (a \o b) PROVE (a \o b)[i].ok
    <3>1. CASE i <= Len(a)
      <4>1. i \in DOMAIN a /\ (a \o b)[i] = a[i]
        BY <1>1, <1>2, <3>1
      <4> QED
        BY <1>4, <4>1 DEF Passes
    <3>2. CASE ~(i <= Len(a))
      <4>1. i - Len(a) \in DOMAIN b /\ (a \o b)[i] = b[i - Len(a)]
        BY <1>1, <1>2, <3>2
      <4> QED
        BY <1>4, <4>1 DEF Passes
    <3> QED
      BY <3>1, <3>2
  <2> QED
    BY <2>1 DEF Passes
<1> QED
  BY <1>1, <1>3, <1>4

\* A check, and a list written out.
LEMMA CheckIs ==
  ASSUME NEW code \in CheckCodes, NEW ok \in BOOLEAN
  PROVE  Check(code, ok) \in Checks /\ Check(code, ok).ok = ok
  BY DEF Check, Checks

LEMMA List1 ==
  ASSUME NEW x1 \in Checks
  PROVE  /\ <<x1>> \in Seq(Checks)
         /\ Passes(<<x1>>) <=> x1.ok
  BY DEF Passes, Checks

LEMMA List2 ==
  ASSUME NEW x1 \in Checks, NEW x2 \in Checks
  PROVE  /\ <<x1, x2>> \in Seq(Checks)
         /\ Passes(<<x1, x2>>) <=> x1.ok /\ x2.ok
  BY DEF Passes, Checks

LEMMA List3 ==
  ASSUME NEW x1 \in Checks, NEW x2 \in Checks, NEW x3 \in Checks
  PROVE  /\ <<x1, x2, x3>> \in Seq(Checks)
         /\ Passes(<<x1, x2, x3>>) <=> x1.ok /\ x2.ok /\ x3.ok
  BY DEF Passes, Checks

LEMMA List4 ==
  ASSUME NEW x1 \in Checks, NEW x2 \in Checks, NEW x3 \in Checks, NEW x4 \in Checks
  PROVE  /\ <<x1, x2, x3, x4>> \in Seq(Checks)
         /\ Passes(<<x1, x2, x3, x4>>) <=> x1.ok /\ x2.ok /\ x3.ok /\ x4.ok
  BY DEF Passes, Checks

LEMMA List5 ==
  ASSUME NEW x1 \in Checks, NEW x2 \in Checks, NEW x3 \in Checks, NEW x4 \in Checks, NEW x5 \in Checks
  PROVE  /\ <<x1, x2, x3, x4, x5>> \in Seq(Checks)
         /\ Passes(<<x1, x2, x3, x4, x5>>) <=> x1.ok /\ x2.ok /\ x3.ok /\ x4.ok /\ x5.ok
  BY DEF Passes, Checks

LEMMA List6 ==
  ASSUME NEW x1 \in Checks, NEW x2 \in Checks, NEW x3 \in Checks, NEW x4 \in Checks, NEW x5 \in Checks, NEW x6 \in Checks
  PROVE  /\ <<x1, x2, x3, x4, x5, x6>> \in Seq(Checks)
         /\ Passes(<<x1, x2, x3, x4, x5, x6>>) <=> x1.ok /\ x2.ok /\ x3.ok /\ x4.ok /\ x5.ok /\ x6.ok
  BY DEF Passes, Checks

-----------------------------------------------------------------------------
(* What it means to pass each list. *)

\* The binding of config, resolution and header.
LEMMA BindingIs ==
  /\ BindingChecks \in Seq(Checks)
  /\ Passes(BindingChecks) <=>
       /\ Equal("config", "event", {"hash"})
       /\ Equal("resolution", "event", {"hash"})
       /\ Equal("resolution", "event", {"runtime", "resolve"})
       /\ Equal("header", "event", {"hash"})
       /\ V("header", "finalized") = 0
<1> DEFINE o1 == Equal("config", "event", {"hash"})
           o2 == Equal("resolution", "event", {"hash"})
           o3 == Equal("resolution", "event", {"runtime", "resolve"})
           o4 == Equal("header", "event", {"hash"})
           o5 == V("header", "finalized") = 0
<1>1. o1 \in BOOLEAN /\ o2 \in BOOLEAN /\ o3 \in BOOLEAN /\ o4 \in BOOLEAN /\ o5 \in BOOLEAN
  BY DEF Equal
<1> DEFINE x1 == Check("ERR_CONFIG_HASH_MISMATCH", o1)
           x2 == Check("ERR_RESOLUTION_HASH_MISMATCH", o2)
           x3 == Check("ERR_RESOLUTION_HASH_MISMATCH", o3)
           x4 == Check("ERR_ARTIFACT_HASH_MISMATCH", o4)
           x5 == Check("ERR_ARTIFACT_NOT_FINALIZED", o5)
<1>2. BindingChecks = <<x1, x2, x3, x4, x5>>
  BY DEF BindingChecks
<1>3. {"ERR_ARTIFACT_HASH_MISMATCH",
       "ERR_ARTIFACT_NOT_FINALIZED",
       "ERR_CONFIG_HASH_MISMATCH",
       "ERR_RESOLUTION_HASH_MISMATCH"} \subseteq CheckCodes
  BY DEF CheckCodes
<1> HIDE DEF o1, o2, o3, o4, o5
<1>4. /\ x1 \in Checks /\ x1.ok = o1
      /\ x2 \in Checks /\ x2.ok = o2
      /\ x3 \in Checks /\ x3.ok = o3
      /\ x4 \in Checks /\ x4.ok = o4
      /\ x5 \in Checks /\ x5.ok = o5
  BY <1>1, <1>3, CheckIs
<1> HIDE DEF x1, x2, x3, x4, x5
<1>5. BindingChecks \in Seq(Checks) /\ (Passes(BindingChecks) <=> o1 /\ o2 /\ o3 /\ o4 /\ o5)
  BY <1>2, <1>4, List5
<1> QED
  BY <1>5 DEF o1, o2, o3, o4, o5

LEMMA ConditionsBindingIs ==
  /\ ConditionsBindingChecks \in Seq(Checks)
  /\ Passes(ConditionsBindingChecks) <=>
       /\ Equal("header", "event", {"hash"})
       /\ V("header", "finalized") = 0
<1> DEFINE o1 == Equal("header", "event", {"hash"})
           o2 == V("header", "finalized") = 0
<1>1. o1 \in BOOLEAN /\ o2 \in BOOLEAN
  BY DEF Equal
<1> DEFINE x1 == Check("ERR_ARTIFACT_HASH_MISMATCH", o1)
           x2 == Check("ERR_ARTIFACT_NOT_FINALIZED", o2)
<1>2. ConditionsBindingChecks = <<x1, x2>>
  BY DEF ConditionsBindingChecks
<1>3. {"ERR_ARTIFACT_HASH_MISMATCH",
       "ERR_ARTIFACT_NOT_FINALIZED"} \subseteq CheckCodes
  BY DEF CheckCodes
<1> HIDE DEF o1, o2
<1>4. /\ x1 \in Checks /\ x1.ok = o1
      /\ x2 \in Checks /\ x2.ok = o2
  BY <1>1, <1>3, CheckIs
<1> HIDE DEF x1, x2
<1>5. ConditionsBindingChecks \in Seq(Checks) /\ (Passes(ConditionsBindingChecks) <=> o1 /\ o2)
  BY <1>2, <1>4, List2
<1> QED
  BY <1>5 DEF o1, o2

LEMMA SlotBindingIs ==
  /\ SlotBindingChecks \in Seq(Checks)
  /\ Passes(SlotBindingChecks) <=>
       /\ Equal("header", "event", {"hash"})
       /\ V("header", "finalized") = 0
<1> DEFINE o1 == Equal("header", "event", {"hash"})
           o2 == V("header", "finalized") = 0
<1>1. o1 \in BOOLEAN /\ o2 \in BOOLEAN
  BY DEF Equal
<1> DEFINE x1 == Check("ERR_ARTIFACT_HASH_MISMATCH", o1)
           x2 == Check("ERR_ARTIFACT_NOT_FINALIZED", o2)
<1>2. SlotBindingChecks = <<x1, x2>>
  BY DEF SlotBindingChecks
<1>3. {"ERR_ARTIFACT_HASH_MISMATCH",
       "ERR_ARTIFACT_NOT_FINALIZED"} \subseteq CheckCodes
  BY DEF CheckCodes
<1> HIDE DEF o1, o2
<1>4. /\ x1 \in Checks /\ x1.ok = o1
      /\ x2 \in Checks /\ x2.ok = o2
  BY <1>1, <1>3, CheckIs
<1> HIDE DEF x1, x2
<1>5. SlotBindingChecks \in Seq(Checks) /\ (Passes(SlotBindingChecks) <=> o1 /\ o2)
  BY <1>2, <1>4, List2
<1> QED
  BY <1>5 DEF o1, o2

\* The artifact that was rebuilt.
LEMMA BlobIs ==
  /\ BlobChecks \in Seq(Checks)
  /\ Passes(BlobChecks) <=>
       /\ ("chunk" \notin world.missing /\ V("chunk", "binding") = 0)
       /\ Blob = V("event", "hash")
<1> DEFINE o1 == ("chunk" \notin world.missing /\ V("chunk", "binding") = 0)
           o2 == Blob = V("event", "hash")
<1>1. o1 \in BOOLEAN /\ o2 \in BOOLEAN
  OBVIOUS
<1> DEFINE x1 == Check("ERR_ARTIFACT_CHUNK_MISSING", o1)
           x2 == Check("ERR_ARTIFACT_HASH_MISMATCH", o2)
<1>2. BlobChecks = <<x1, x2>>
  BY DEF BlobChecks
<1>3. {"ERR_ARTIFACT_CHUNK_MISSING",
       "ERR_ARTIFACT_HASH_MISMATCH"} \subseteq CheckCodes
  BY DEF CheckCodes
<1> HIDE DEF o1, o2
<1>4. /\ x1 \in Checks /\ x1.ok = o1
      /\ x2 \in Checks /\ x2.ok = o2
  BY <1>1, <1>3, CheckIs
<1> HIDE DEF x1, x2
<1>5. BlobChecks \in Seq(Checks) /\ (Passes(BlobChecks) <=> o1 /\ o2)
  BY <1>2, <1>4, List2
<1> QED
  BY <1>5 DEF o1, o2

LEMMA ArtifactIs ==
  ASSUME DrawOK
  PROVE  /\ ArtifactChecks \in Seq(Checks)
         /\ Passes(ArtifactChecks) <=>
              /\ world.artifactFile \in {"none", "same"}
              /\ world.parses
<1> DEFINE o1 == world.artifactFile \in {"none", "same"}
           o2 == world.parses
<1>1. o1 \in BOOLEAN /\ o2 \in BOOLEAN
  BY DEF DrawOK
<1> DEFINE x1 == Check("ERR_ARTIFACT_HASH_MISMATCH", o1)
           x2 == Check("ERR_REPLAY_UNHANDLED", o2)
<1>2. ArtifactChecks = <<x1, x2>>
  BY DEF ArtifactChecks
<1>3. {"ERR_ARTIFACT_HASH_MISMATCH",
       "ERR_REPLAY_UNHANDLED"} \subseteq CheckCodes
  BY DEF CheckCodes
<1> HIDE DEF o1, o2
<1>4. /\ x1 \in Checks /\ x1.ok = o1
      /\ x2 \in Checks /\ x2.ok = o2
  BY <1>1, <1>3, CheckIs
<1> HIDE DEF x1, x2
<1>5. ArtifactChecks \in Seq(Checks) /\ (Passes(ArtifactChecks) <=> o1 /\ o2)
  BY <1>2, <1>4, List2
<1> QED
  BY <1>5 DEF o1, o2

\* Input and format.
LEMMA InputIs ==
  /\ InputChecks \in Seq(Checks)
  /\ Passes(InputChecks) <=>
       /\ Equal("event", "resolution", {"input"})
       /\ (Equal("event", "resolution", {"format"}) /\ V("event", "format") = FromArtifact)
<1> DEFINE o1 == Equal("event", "resolution", {"input"})
           o2 == (Equal("event", "resolution", {"format"}) /\ V("event", "format") = FromArtifact)
<1>1. o1 \in BOOLEAN /\ o2 \in BOOLEAN
  BY DEF Equal
<1> DEFINE x1 == Check("ERR_INPUT_MISMATCH", o1)
           x2 == Check("ERR_ARTIFACT_FORMAT_VERSION_MISMATCH", o2)
<1>2. InputChecks = <<x1, x2>>
  BY DEF InputChecks
<1>3. {"ERR_ARTIFACT_FORMAT_VERSION_MISMATCH",
       "ERR_INPUT_MISMATCH"} \subseteq CheckCodes
  BY DEF CheckCodes
<1> HIDE DEF o1, o2
<1>4. /\ x1 \in Checks /\ x1.ok = o1
      /\ x2 \in Checks /\ x2.ok = o2
  BY <1>1, <1>3, CheckIs
<1> HIDE DEF x1, x2
<1>5. InputChecks \in Seq(Checks) /\ (Passes(InputChecks) <=> o1 /\ o2)
  BY <1>2, <1>4, List2
<1> QED
  BY <1>5 DEF o1, o2

\* The evidence of an rng_v2 draw.
LEMMA EvidenceIs ==
  ASSUME RngV2(kind)
  PROVE  /\ ResolutionEvidence \in Seq(Checks)
         /\ Passes(ResolutionEvidence) <=>
              /\ V("resolution", "layout") = 0
              /\ Equal("resolution", "event", {"snapshotHash", "slots"})
              /\ Equal("resolution", "event", {"commit", "reveal"})
<1> DEFINE o1 == V("resolution", "layout") = 0
           o2 == Equal("resolution", "event", {"snapshotHash", "slots"})
           o3 == Equal("resolution", "event", {"commit", "reveal"})
<1>1. o1 \in BOOLEAN /\ o2 \in BOOLEAN /\ o3 \in BOOLEAN
  BY DEF Equal
<1> DEFINE x1 == Check("ERR_RNG_V2_RESOLUTION_MISMATCH", o1)
           x2 == Check("ERR_RNG_V2_RESOLUTION_MISMATCH", o2)
           x3 == Check("ERR_RNG_V2_OPERATOR_REVEAL_MISMATCH", o3)
<1>2. ResolutionEvidence = <<x1, x2, x3>>
  BY DEF ResolutionEvidence
<1>3. {"ERR_RNG_V2_OPERATOR_REVEAL_MISMATCH",
       "ERR_RNG_V2_RESOLUTION_MISMATCH"} \subseteq CheckCodes
  BY DEF CheckCodes
<1> HIDE DEF o1, o2, o3
<1>4. /\ x1 \in Checks /\ x1.ok = o1
      /\ x2 \in Checks /\ x2.ok = o2
      /\ x3 \in Checks /\ x3.ok = o3
  BY <1>1, <1>3, CheckIs
<1> HIDE DEF x1, x2, x3
<1>5. ResolutionEvidence \in Seq(Checks) /\ (Passes(ResolutionEvidence) <=> o1 /\ o2 /\ o3)
  BY <1>2, <1>4, List3
<1> QED
  BY <1>5 DEF o1, o2, o3

\* The round of an attestation.
LEMMA ConditionsIs ==
  ASSUME DrawOK
  PROVE  /\ ConditionsChecks \in Seq(Checks)
         /\ Passes(ConditionsChecks) <=>
              /\ world.parses
              /\ V("event", "entrants") = FromArtifact
              /\ V("event", "winnerCount") = FromArtifact
              /\ V("event", "scoreSum") = FromArtifact
              /\ V("event", "digest") = FromArtifact
              /\ V("event", "facts") = FromArtifact
<1> DEFINE o1 == world.parses
           o2 == V("event", "entrants") = FromArtifact
           o3 == V("event", "winnerCount") = FromArtifact
           o4 == V("event", "scoreSum") = FromArtifact
           o5 == V("event", "digest") = FromArtifact
           o6 == V("event", "facts") = FromArtifact
<1>1. o1 \in BOOLEAN /\ o2 \in BOOLEAN /\ o3 \in BOOLEAN /\ o4 \in BOOLEAN /\ o5 \in BOOLEAN /\ o6 \in BOOLEAN
  BY DEF DrawOK
<1> DEFINE x1 == Check("ERR_REPLAY_UNHANDLED", o1)
           x2 == Check("ERR_CONDITIONS_ENTRANT_COUNT_MISMATCH", o2)
           x3 == Check("ERR_WINNER_COUNT_MISMATCH", o3)
           x4 == Check("ERR_CONDITIONS_SCORE_SUM_MISMATCH", o4)
           x5 == Check("ERR_CONDITIONS_WINNERS_DIGEST_MISMATCH", o5)
           x6 == Check("ERR_CONDITIONS_FACTS_ROOT_MISMATCH", o6)
<1>2. ConditionsChecks = <<x1, x2, x3, x4, x5, x6>>
  BY DEF ConditionsChecks
<1>3. {"ERR_CONDITIONS_ENTRANT_COUNT_MISMATCH",
       "ERR_CONDITIONS_FACTS_ROOT_MISMATCH",
       "ERR_CONDITIONS_SCORE_SUM_MISMATCH",
       "ERR_CONDITIONS_WINNERS_DIGEST_MISMATCH",
       "ERR_REPLAY_UNHANDLED",
       "ERR_WINNER_COUNT_MISMATCH"} \subseteq CheckCodes
  BY DEF CheckCodes
<1> HIDE DEF o1, o2, o3, o4, o5, o6
<1>4. /\ x1 \in Checks /\ x1.ok = o1
      /\ x2 \in Checks /\ x2.ok = o2
      /\ x3 \in Checks /\ x3.ok = o3
      /\ x4 \in Checks /\ x4.ok = o4
      /\ x5 \in Checks /\ x5.ok = o5
      /\ x6 \in Checks /\ x6.ok = o6
  BY <1>1, <1>3, CheckIs
<1> HIDE DEF x1, x2, x3, x4, x5, x6
<1>5. ConditionsChecks \in Seq(Checks) /\ (Passes(ConditionsChecks) <=> o1 /\ o2 /\ o3 /\ o4 /\ o5 /\ o6)
  BY <1>2, <1>4, List6
<1> QED
  BY <1>5 DEF o1, o2, o3, o4, o5, o6

\* The spin of a slot draw.
LEMMA SlotIs ==
  ASSUME DrawOK
  PROVE  /\ SlotChecks \in Seq(Checks)
         /\ Passes(SlotChecks) <=>
              /\ world.parses
              /\ V("event", "randomness") = Randomness
              /\ V("event", "stops") = Replayed
              /\ V("event", "rawWin") = SpinReplayed
              /\ V("event", "payout") = SpinReplayed
<1> DEFINE o1 == world.parses
           o2 == V("event", "randomness") = Randomness
           o3 == V("event", "stops") = Replayed
           o4 == V("event", "rawWin") = SpinReplayed
           o5 == V("event", "payout") = SpinReplayed
<1>1. o1 \in BOOLEAN /\ o2 \in BOOLEAN /\ o3 \in BOOLEAN /\ o4 \in BOOLEAN /\ o5 \in BOOLEAN
  BY DEF DrawOK
<1> DEFINE x1 == Check("ERR_REPLAY_UNHANDLED", o1)
           x2 == Check("ERR_SLOT_RANDOMNESS_MISMATCH", o2)
           x3 == Check("ERR_SLOT_REEL_STOPS_MISMATCH", o3)
           x4 == Check("ERR_SLOT_WIN_MISMATCH", o4)
           x5 == Check("ERR_SLOT_PAYOUT_MISMATCH", o5)
<1>2. SlotChecks = <<x1, x2, x3, x4, x5>>
  BY DEF SlotChecks
<1>3. {"ERR_REPLAY_UNHANDLED",
       "ERR_SLOT_PAYOUT_MISMATCH",
       "ERR_SLOT_RANDOMNESS_MISMATCH",
       "ERR_SLOT_REEL_STOPS_MISMATCH",
       "ERR_SLOT_WIN_MISMATCH"} \subseteq CheckCodes
  BY DEF CheckCodes
<1> HIDE DEF o1, o2, o3, o4, o5
<1>4. /\ x1 \in Checks /\ x1.ok = o1
      /\ x2 \in Checks /\ x2.ok = o2
      /\ x3 \in Checks /\ x3.ok = o3
      /\ x4 \in Checks /\ x4.ok = o4
      /\ x5 \in Checks /\ x5.ok = o5
  BY <1>1, <1>3, CheckIs
<1> HIDE DEF x1, x2, x3, x4, x5
<1>5. SlotChecks \in Seq(Checks) /\ (Passes(SlotChecks) <=> o1 /\ o2 /\ o3 /\ o4 /\ o5)
  BY <1>2, <1>4, List5
<1> QED
  BY <1>5 DEF o1, o2, o3, o4, o5

\* The winners of a scale draw.
LEMMA ScaleListIs ==
  ASSUME DrawOK
  PROVE  /\ ScaleListChecks \in Seq(Checks)
         /\ Passes(ScaleListChecks) <=>
              /\ AsReplayed("winnerCount", FromArtifact)
              /\ AsReplayed("output", Replayed)
              /\ AsReplayed("ids", Replayed)
              /\ AsReplayed("id", Replayed)
              /\ AsReplayed("effects", Replayed)
              /\ ~draw.beyondSafe
<1> DEFINE o1 == AsReplayed("winnerCount", FromArtifact)
           o2 == AsReplayed("output", Replayed)
           o3 == AsReplayed("ids", Replayed)
           o4 == AsReplayed("id", Replayed)
           o5 == AsReplayed("effects", Replayed)
           o6 == ~draw.beyondSafe
<1>1. o1 \in BOOLEAN /\ o2 \in BOOLEAN /\ o3 \in BOOLEAN /\ o4 \in BOOLEAN /\ o5 \in BOOLEAN /\ o6 \in BOOLEAN
  BY DEF AsReplayed, DrawOK
<1> DEFINE x1 == Check("ERR_WINNER_COUNT_MISMATCH", o1)
           x2 == Check("ERR_OUTPUT_MISMATCH", o2)
           x3 == Check("ERR_OUTCOME_ID_MISMATCH", o3)
           x4 == Check("ERR_OUTCOME_ID_MISMATCH", o4)
           x5 == Check("ERR_EFFECTS_DIGEST_MISMATCH", o5)
           x6 == Check("ERR_REPLAY_UNHANDLED", o6)
<1>2. ScaleListChecks = <<x1, x2, x3, x4, x5, x6>>
  BY DEF ScaleListChecks, ClaimCheck, IdsCheck, IdCheck, EffectsCheck, OutputCheck, WinnerCountCheck, ResultCheck
<1>3. {"ERR_EFFECTS_DIGEST_MISMATCH",
       "ERR_OUTCOME_ID_MISMATCH",
       "ERR_OUTPUT_MISMATCH",
       "ERR_REPLAY_UNHANDLED",
       "ERR_WINNER_COUNT_MISMATCH"} \subseteq CheckCodes
  BY DEF CheckCodes
<1> HIDE DEF o1, o2, o3, o4, o5, o6
<1>4. /\ x1 \in Checks /\ x1.ok = o1
      /\ x2 \in Checks /\ x2.ok = o2
      /\ x3 \in Checks /\ x3.ok = o3
      /\ x4 \in Checks /\ x4.ok = o4
      /\ x5 \in Checks /\ x5.ok = o5
      /\ x6 \in Checks /\ x6.ok = o6
  BY <1>1, <1>3, CheckIs
<1> HIDE DEF x1, x2, x3, x4, x5, x6
<1>5. ScaleListChecks \in Seq(Checks) /\ (Passes(ScaleListChecks) <=> o1 /\ o2 /\ o3 /\ o4 /\ o5 /\ o6)
  BY <1>2, <1>4, List6
<1> QED
  BY <1>5 DEF o1, o2, o3, o4, o5, o6

LEMMA ScaleClaimIs ==
  ASSUME DrawOK
  PROVE  /\ ScaleClaimChecks \in Seq(Checks)
         /\ Passes(ScaleClaimChecks) <=>
              /\ AsReplayed("winnerCount", FromArtifact)
              /\ AsReplayed("output", Replayed)
              /\ AsReplayed("claim", Replayed)
              /\ AsReplayed("id", Replayed)
              /\ AsReplayed("effects", Replayed)
              /\ ~draw.beyondSafe
<1> DEFINE o1 == AsReplayed("winnerCount", FromArtifact)
           o2 == AsReplayed("output", Replayed)
           o3 == AsReplayed("claim", Replayed)
           o4 == AsReplayed("id", Replayed)
           o5 == AsReplayed("effects", Replayed)
           o6 == ~draw.beyondSafe
<1>1. o1 \in BOOLEAN /\ o2 \in BOOLEAN /\ o3 \in BOOLEAN /\ o4 \in BOOLEAN /\ o5 \in BOOLEAN /\ o6 \in BOOLEAN
  BY DEF AsReplayed, DrawOK
<1> DEFINE x1 == Check("ERR_WINNER_COUNT_MISMATCH", o1)
           x2 == Check("ERR_OUTPUT_MISMATCH", o2)
           x3 == Check("ERR_WINNER_CLAIM_HASH_MISMATCH", o3)
           x4 == Check("ERR_OUTCOME_ID_MISMATCH", o4)
           x5 == Check("ERR_EFFECTS_DIGEST_MISMATCH", o5)
           x6 == Check("ERR_REPLAY_UNHANDLED", o6)
<1>2. ScaleClaimChecks = <<x1, x2, x3, x4, x5, x6>>
  BY DEF ScaleClaimChecks, ClaimCheck, IdsCheck, IdCheck, EffectsCheck, OutputCheck, WinnerCountCheck, ResultCheck
<1>3. {"ERR_EFFECTS_DIGEST_MISMATCH",
       "ERR_OUTCOME_ID_MISMATCH",
       "ERR_OUTPUT_MISMATCH",
       "ERR_REPLAY_UNHANDLED",
       "ERR_WINNER_CLAIM_HASH_MISMATCH",
       "ERR_WINNER_COUNT_MISMATCH"} \subseteq CheckCodes
  BY DEF CheckCodes
<1> HIDE DEF o1, o2, o3, o4, o5, o6
<1>4. /\ x1 \in Checks /\ x1.ok = o1
      /\ x2 \in Checks /\ x2.ok = o2
      /\ x3 \in Checks /\ x3.ok = o3
      /\ x4 \in Checks /\ x4.ok = o4
      /\ x5 \in Checks /\ x5.ok = o5
      /\ x6 \in Checks /\ x6.ok = o6
  BY <1>1, <1>3, CheckIs
<1> HIDE DEF x1, x2, x3, x4, x5, x6
<1>5. ScaleClaimChecks \in Seq(Checks) /\ (Passes(ScaleClaimChecks) <=> o1 /\ o2 /\ o3 /\ o4 /\ o5 /\ o6)
  BY <1>2, <1>4, List6
<1> QED
  BY <1>5 DEF o1, o2, o3, o4, o5, o6

\* The winners of a compact draw.
LEMMA CompactIs ==
  ASSUME DrawOK, kind \in OutcomeKinds
  PROVE  /\ CompactChecks \in Seq(Checks) /\ ResolutionEvidence \in Seq(Checks)
         /\ Passes(CompactChecks) <=>
              /\ Passes(ResolutionEvidence)
              /\ AsReplayed("output", Replayed) /\ AsReplayed("id", Replayed)
              /\ AsReplayed("winnerCount", FromArtifact) /\ AsReplayed("claim", Replayed)
              /\ AsReplayed("ids", Replayed) /\ AsReplayed("effects", Replayed) /\ ~draw.beyondSafe
<1> DEFINE o1 == AsReplayed("output", Replayed)
           o2 == AsReplayed("id", Replayed)
           o3 == AsReplayed("winnerCount", FromArtifact)
           o4 == AsReplayed("claim", Replayed)
           o5 == AsReplayed("ids", Replayed)
           o6 == AsReplayed("effects", Replayed)
           o7 == ~draw.beyondSafe
           a == <<Check("ERR_OUTPUT_MISMATCH", o1), Check("ERR_OUTCOME_ID_MISMATCH", o2),
                  Check("ERR_WINNER_COUNT_MISMATCH", o3)>>
           b == <<Check("ERR_WINNER_CLAIM_HASH_MISMATCH", o4), Check("ERR_OUTCOME_ID_MISMATCH", o5),
                  Check("ERR_EFFECTS_DIGEST_MISMATCH", o6), Check("ERR_REPLAY_UNHANDLED", o7)>>
<1>1. /\ o1 \in BOOLEAN /\ o2 \in BOOLEAN /\ o3 \in BOOLEAN /\ o4 \in BOOLEAN /\ o5 \in BOOLEAN
      /\ o6 \in BOOLEAN /\ o7 \in BOOLEAN
  BY DEF AsReplayed, DrawOK
<1>2. CompactChecks = (a \o ResolutionEvidence) \o b
  BY DEF CompactChecks, ClaimCheck, IdsCheck, IdCheck, EffectsCheck, OutputCheck, WinnerCountCheck, ResultCheck
<1>3. {"ERR_OUTPUT_MISMATCH", "ERR_OUTCOME_ID_MISMATCH", "ERR_WINNER_COUNT_MISMATCH",
       "ERR_WINNER_CLAIM_HASH_MISMATCH", "ERR_EFFECTS_DIGEST_MISMATCH", "ERR_REPLAY_UNHANDLED"}
        \subseteq CheckCodes
  BY DEF CheckCodes
<1> HIDE DEF o1, o2, o3, o4, o5, o6, o7
<1>4. a \in Seq(Checks) /\ (Passes(a) <=> o1 /\ o2 /\ o3)
  <2> DEFINE x1 == Check("ERR_OUTPUT_MISMATCH", o1)
             x2 == Check("ERR_OUTCOME_ID_MISMATCH", o2)
             x3 == Check("ERR_WINNER_COUNT_MISMATCH", o3)
  <2>1. /\ x1 \in Checks /\ x1.ok = o1 /\ x2 \in Checks /\ x2.ok = o2 /\ x3 \in Checks /\ x3.ok = o3
    BY <1>1, <1>3, CheckIs
  <2>2. a = <<x1, x2, x3>>
    OBVIOUS
  <2> HIDE DEF a, x1, x2, x3
  <2> QED
    BY <2>1, <2>2, List3
<1>5. b \in Seq(Checks) /\ (Passes(b) <=> o4 /\ o5 /\ o6 /\ o7)
  <2> DEFINE x1 == Check("ERR_WINNER_CLAIM_HASH_MISMATCH", o4)
             x2 == Check("ERR_OUTCOME_ID_MISMATCH", o5)
             x3 == Check("ERR_EFFECTS_DIGEST_MISMATCH", o6)
             x4 == Check("ERR_REPLAY_UNHANDLED", o7)
  <2>1. /\ x1 \in Checks /\ x1.ok = o4 /\ x2 \in Checks /\ x2.ok = o5 /\ x3 \in Checks /\ x3.ok = o6
        /\ x4 \in Checks /\ x4.ok = o7
    BY <1>1, <1>3, CheckIs
  <2>2. b = <<x1, x2, x3, x4>>
    OBVIOUS
  <2> HIDE DEF b, x1, x2, x3, x4
  <2> QED
    BY <2>1, <2>2, List4
<1> HIDE DEF a, b
<1>6. ResolutionEvidence \in Seq(Checks)
  <2>1. CASE RngV2(kind)
    BY <2>1, EvidenceIs
  <2>2. CASE ~RngV2(kind)
    BY <2>2 DEF ResolutionEvidence
  <2> QED
    BY <2>1, <2>2
<1>7. /\ a \o ResolutionEvidence \in Seq(Checks)
      /\ Passes(a \o ResolutionEvidence) <=> Passes(a) /\ Passes(ResolutionEvidence)
  BY <1>4, <1>6, PassesConcat
<1>8. /\ CompactChecks \in Seq(Checks)
      /\ Passes(CompactChecks) <=> (Passes(a) /\ Passes(ResolutionEvidence)) /\ Passes(b)
  BY <1>2, <1>5, <1>7, PassesConcat
<1> QED
  BY <1>4, <1>5, <1>6, <1>8 DEF o1, o2, o3, o4, o5, o6, o7

\* The randomness, and the state of an rng_v2 draw.
LEMMA RandomnessIs ==
  ASSUME DrawOK
  PROVE  /\ RandomnessChecks \in Seq(Checks)
         /\ Passes(RandomnessChecks) <=>
              /\ RngV2(kind) =>
                   /\ V("event", "snapshotHash") = FromArtifact
                   /\ draw.commit => V("event", "reveal") = V("event", "commit")
                   /\ StateBinding
              /\ V("event", "randomness") = Randomness /\ V("resolution", "randomness") = Randomness
<1> DEFINE o1 == V("event", "snapshotHash") = FromArtifact
           o2 == draw.commit => V("event", "reveal") = V("event", "commit")
           o3 == StateBinding
           o4 == V("event", "randomness") = Randomness /\ V("resolution", "randomness") = Randomness
           a == <<Check("ERR_RNG_V2_SNAPSHOT_HASH_MISMATCH", o1),
                  Check("ERR_RNG_V2_OPERATOR_REVEAL_MISMATCH", o2),
                  Check("ERR_RNG_V2_STATE_MISMATCH", o3)>>
           b == <<Check("ERR_RANDOMNESS_MISMATCH", o4)>>
<1>1. o1 \in BOOLEAN /\ o2 \in BOOLEAN /\ o3 \in BOOLEAN /\ o4 \in BOOLEAN
  BY DEF StateBinding, Equal
<1>2. RandomnessChecks = (IF RngV2(kind) THEN a ELSE <<>>) \o b
  BY DEF RandomnessChecks
<1>3. {"ERR_RNG_V2_SNAPSHOT_HASH_MISMATCH", "ERR_RNG_V2_OPERATOR_REVEAL_MISMATCH",
       "ERR_RNG_V2_STATE_MISMATCH", "ERR_RANDOMNESS_MISMATCH"} \subseteq CheckCodes
  BY DEF CheckCodes
<1> HIDE DEF o1, o2, o3, o4
<1>4. a \in Seq(Checks) /\ (Passes(a) <=> o1 /\ o2 /\ o3)
  <2> DEFINE x1 == Check("ERR_RNG_V2_SNAPSHOT_HASH_MISMATCH", o1)
             x2 == Check("ERR_RNG_V2_OPERATOR_REVEAL_MISMATCH", o2)
             x3 == Check("ERR_RNG_V2_STATE_MISMATCH", o3)
  <2>1. /\ x1 \in Checks /\ x1.ok = o1 /\ x2 \in Checks /\ x2.ok = o2 /\ x3 \in Checks /\ x3.ok = o3
    BY <1>1, <1>3, CheckIs
  <2>2. a = <<x1, x2, x3>>
    OBVIOUS
  <2> HIDE DEF a, x1, x2, x3
  <2> QED
    BY <2>1, <2>2, List3
<1>5. b \in Seq(Checks) /\ (Passes(b) <=> o4)
  <2> DEFINE x == Check("ERR_RANDOMNESS_MISMATCH", o4)
  <2>1. x \in Checks /\ x.ok = o4
    BY <1>1, <1>3, CheckIs
  <2>2. b = <<x>>
    OBVIOUS
  <2> HIDE DEF b, x
  <2> QED
    BY <2>1, <2>2, List1
<1>6. <<>> \in Seq(Checks) /\ Passes(<<>>)
  BY EmptySeq DEF Passes
<1> HIDE DEF a, b
<1>7. CASE RngV2(kind)
  <2>1. RandomnessChecks \in Seq(Checks) /\ (Passes(RandomnessChecks) <=> Passes(a) /\ Passes(b))
    BY <1>2, <1>4, <1>5, <1>7, PassesConcat
  <2> QED
    BY <1>4, <1>5, <1>7, <2>1 DEF o1, o2, o3, o4
<1>8. CASE ~RngV2(kind)
  <2>1. RandomnessChecks \in Seq(Checks) /\ (Passes(RandomnessChecks) <=> Passes(<<>>) /\ Passes(b))
    BY <1>2, <1>5, <1>6, <1>8, PassesConcat
  <2> QED
    BY <1>5, <1>6, <1>8, <2>1 DEF o4
<1> QED
  BY <1>7, <1>8

-----------------------------------------------------------------------------
(* Which record has which field. *)

\* The fields only one record has, and that record.
Own == {"status", "binding", "finalized", "layout"}

\* The records of every kind.
LEMMA HasIs ==
  ASSUME NEW k
  PROVE  /\ Has(k, "event") = EventFields(k)
         /\ Has(k, "config") = {"hash"} /\ Has(k, "blob") = {"hash"}
         /\ Has(k, "header") = {"hash", "finalized"} /\ Has(k, "chunk") = {"binding"}
         /\ Has(k, "resolution") =
              IF k \notin OutcomeKinds THEN {}
              ELSE IF RngV2(k) THEN ResolutionV4 ELSE EventFields(k) \ {"seed", "actor"}
         /\ Has(k, "state") = IF RngV2(k) THEN RngV2State ELSE {}
  BY DEF Has

\* The fields of an outcome event.
LEMMA OutcomeFields ==
  ASSUME NEW k \in OutcomeKinds
  PROVE  /\ Bound \subseteq EventFields(k) /\ Result \subseteq EventFields(k)
         /\ EventFields(k) \subseteq Bound \cup Result \cup Evidence \cup {"actor", "seed", "ids", "claim"}
         /\ RngV2(k) => Evidence \cup {"actor", "claim"} \subseteq EventFields(k)
         /\ ~RngV2(k) => EventFields(k) \cap Evidence = {}
         /\ k \in {"single", "list", "scaleList"} => "claim" \notin EventFields(k)
         /\ k \in {"single", "scaleClaim", "rngScale"} => "ids" \notin EventFields(k)
<1>1. /\ EventFields("single") = EventV1 /\ EventFields("list") = EventV2
      /\ EventFields("scaleList") = EventV2 /\ EventFields("scaleClaim") = EventV3
      /\ EventFields("rngScale") = EventV4 /\ EventFields("rngCompact") = EventV5
  BY DEF EventFields
<1> HIDE DEF EventFields
<1> USE DEF EventV1, EventV2, EventV3, EventV4, EventV5, Bound, Result, Evidence, RngV2
<1>2. CASE k = "single"
  BY <1>1, <1>2
<1>3. CASE k \in {"list", "scaleList"}
  BY <1>1, <1>3
<1>4. CASE k = "scaleClaim"
  BY <1>1, <1>4
<1>5. CASE k = "rngScale"
  BY <1>1, <1>5
<1>6. CASE k = "rngCompact"
  BY <1>1, <1>6
<1> QED
  BY <1>2, <1>3, <1>4, <1>5, <1>6 DEF OutcomeKinds

\* The fields of the two attestations.
LEMMA AttestationFields ==
  /\ EventFields("conditions") = ConditionsEvent /\ EventFields("slot") = SlotEvent
  /\ "hash" \in EventFields("conditions") /\ "hash" \in EventFields("slot")
  /\ "conditions" \notin OutcomeKinds /\ "slot" \notin OutcomeKinds
  /\ ~RngV2("conditions") /\ ~RngV2("slot")
  /\ Kinds = OutcomeKinds \cup {"conditions", "slot"}
<1>1. EventFields("conditions") = ConditionsEvent /\ EventFields("slot") = SlotEvent
  BY DEF EventFields
<1> QED
  BY <1>1 DEF ConditionsEvent, SlotEvent, Bound, OutcomeKinds, RngV2, Kinds

\* No event has a field of another record's own, and every event names its
\* artifact.
LEMMA EventOwnsNothing ==
  ASSUME NEW k \in Kinds
  PROVE  EventFields(k) \cap Own = {} /\ "hash" \in EventFields(k)
<1>1. CASE k \in OutcomeKinds
  BY <1>1, OutcomeFields DEF Bound, Result, Evidence, Own
<1>2. CASE k \in {"conditions", "slot"}
  BY <1>2, AttestationFields DEF ConditionsEvent, SlotEvent, Bound, Own
<1> QED
  BY <1>1, <1>2, AttestationFields

\* A field of its own is in one record only.
LEMMA OneHolder ==
  ASSUME NEW k \in Kinds, NEW r \in Records, NEW s \in Records, NEW f \in Own,
         f \in Has(k, r), f \in Has(k, s)
  PROVE  r = s
<1> DEFINE holder == CASE f = "status" -> "state" [] f = "binding" -> "chunk"
                       [] f = "finalized" -> "header" [] f = "layout" -> "resolution"
<1>1. ASSUME NEW x \in Records, f \in Has(k, x) PROVE x = holder
  <2>1. x # "event" /\ x # "config" /\ x # "blob"
    BY <1>1, HasIs, EventOwnsNothing DEF Own
  <2>2. CASE x = "header"
    BY <1>1, <2>2, HasIs DEF Own
  <2>3. CASE x = "chunk"
    BY <1>1, <2>3, HasIs DEF Own
  <2>4. CASE x = "resolution"
    <3>1. f = "layout"
      BY <1>1, <2>4, HasIs, EventOwnsNothing DEF Own, ResolutionV4, Bound, Result, Evidence
    <3> QED
      BY <2>4, <3>1
  <2>5. CASE x = "state"
    <3>1. f = "status"
      BY <1>1, <2>5, HasIs DEF Own, RngV2State, Bound, Evidence
    <3> QED
      BY <2>5, <3>1
  <2> QED
    BY <2>1, <2>2, <2>3, <2>4, <2>5 DEF Records
<1> QED
  BY <1>1

\* Records that agree with the event agree with each other.
LEMMA AgreeWithEvent ==
  ASSUME kind \in Kinds,
         \A r \in Records : \A f \in Has(kind, r) : f \in Own \/ V(r, f) = V("event", f)
  PROVE  \A f \in UNION {Has(kind, r) : r \in Records} :
           \A r, s \in {x \in Records : f \in Has(kind, x)} : V(r, f) = V(s, f)
<1> SUFFICES ASSUME NEW f, NEW r \in Records, NEW s \in Records, f \in Has(kind, r), f \in Has(kind, s)
             PROVE  V(r, f) = V(s, f)
  OBVIOUS
<1>1. CASE f \in Own
  BY <1>1, OneHolder
<1>2. CASE f \notin Own
  BY <1>2
<1> QED
  BY <1>1, <1>2

\* What Consistent says of two records.
LEMMA Shared ==
  ASSUME Consistent(kind), NEW r \in Records, NEW s \in Records, NEW f,
         f \in Has(kind, r), f \in Has(kind, s)
  PROVE  V(r, f) = V(s, f)
  BY DEF Consistent

-----------------------------------------------------------------------------
(* A verification that passes every check has consistent records. *)

LEMMA OutcomeConsistent ==
  ASSUME DrawOK, kind \in OutcomeKinds,
         Passes(BindingChecks), Passes(BlobChecks), Passes(RandomnessChecks), Passes(InputChecks),
         Passes(ResolutionEvidence),
         AsReplayed("output", Replayed), AsReplayed("id", Replayed), AsReplayed("effects", Replayed),
         AsReplayed("winnerCount", FromArtifact),
         AsReplayed("claim", Replayed), AsReplayed("ids", Replayed)
  PROVE  Consistent(kind)
<1>1. /\ V("config", "hash") = V("event", "hash") /\ V("resolution", "hash") = V("event", "hash")
      /\ V("resolution", "runtime") = V("event", "runtime") /\ V("resolution", "resolve") = V("event", "resolve")
      /\ V("header", "hash") = V("event", "hash") /\ V("header", "finalized") = 0
  BY BindingIs DEF Equal
<1>2. V("chunk", "binding") = 0 /\ V("blob", "hash") = V("event", "hash")
  BY BlobIs DEF Blob
<1>3. /\ V("event", "randomness") = Randomness /\ V("resolution", "randomness") = Randomness
      /\ RngV2(kind) =>
           /\ V("event", "snapshotHash") = FromArtifact
           /\ draw.commit => V("event", "reveal") = V("event", "commit")
           /\ V("state", "status") = 0
           /\ \A f \in RngV2State \ {"status"} : V("state", f) = V("event", f)
  BY RandomnessIs DEF StateBinding, Equal
<1>4. /\ V("event", "input") = V("resolution", "input") /\ V("event", "format") = V("resolution", "format")
      /\ V("event", "format") = FromArtifact
  BY InputIs DEF Equal
<1>5. RngV2(kind) =>
        /\ V("resolution", "layout") = 0
        /\ \A f \in Evidence : V("resolution", f) = V("event", f)
  BY EvidenceIs DEF Equal, Evidence
<1>6. /\ \A f \in {"output", "id", "effects", "claim", "ids"} \cap EventFields(kind) : V("event", f) = Replayed
      /\ \A f \in {"output", "id", "effects", "claim", "ids"} \cap Has(kind, "resolution") :
           V("resolution", f) = Replayed
  BY HasIs DEF AsReplayed
<1>7. /\ V("event", "winnerCount") = FromArtifact /\ V("resolution", "winnerCount") = FromArtifact
  <2>1. "winnerCount" \in Has(kind, "event") /\ "winnerCount" \in Has(kind, "resolution")
    BY HasIs, OutcomeFields DEF Result, ResolutionV4
  <2> QED
    BY <2>1 DEF AsReplayed
<1>8. ASSUME NEW f \in Has(kind, "resolution") PROVE f \in Own \/ V("resolution", f) = V("event", f)
  <2>1. /\ f \in Bound \cup Result \cup {"claim", "ids", "layout"} \/ (RngV2(kind) /\ f \in Evidence)
        /\ f # "layout" => f \in EventFields(kind)
    <3>1. CASE RngV2(kind)
      BY <3>1, HasIs, OutcomeFields DEF ResolutionV4
    <3>2. CASE ~RngV2(kind)
      BY <3>2, HasIs, OutcomeFields
    <3> QED
      BY <3>1, <3>2
  <2>2. CASE f = "layout"
    BY <2>2 DEF Own
  <2>3. CASE f \in {"output", "id", "effects", "claim", "ids"}
    BY <2>1, <2>3, <1>6
  <2>4. CASE f \in Bound \cup {"input", "randomness", "format", "winnerCount"}
    BY <2>4, <1>1, <1>3, <1>4, <1>7 DEF Bound
  <2>5. CASE RngV2(kind) /\ f \in Evidence
    BY <2>5, <1>5
  <2> QED
    BY <2>1, <2>2, <2>3, <2>4, <2>5 DEF Result
<1>9. ASSUME NEW r \in Records, NEW f \in Has(kind, r) PROVE f \in Own \/ V(r, f) = V("event", f)
  <2>1. CASE r = "event"
    BY <2>1
  <2>2. CASE r \in {"config", "blob", "header", "chunk"}
    BY <2>2, <1>1, <1>2, HasIs DEF Own
  <2>3. CASE r = "resolution"
    BY <2>3, <1>8
  <2>4. CASE r = "state"
    BY <2>4, <1>3, HasIs DEF Own
  <2> QED
    BY <2>1, <2>2, <2>3, <2>4 DEF Records
<1>10. kind \in Kinds /\ kind # "slot" /\ kind # "conditions"
  BY AttestationFields
<1>11. \A f \in UNION {Has(kind, r) : r \in Records} :
         \A r, s \in {x \in Records : f \in Has(kind, x)} : V(r, f) = V(s, f)
  BY <1>9, <1>10, AgreeWithEvent
<1>12. EventFields(kind) \cap {"entrants", "scoreSum", "digest", "facts", "stops"} = {}
  BY OutcomeFields DEF Bound, Result, Evidence
<1>13. \A f \in EventFields(kind) \cap {"format", "entrants", "scoreSum", "digest", "facts"} :
         V("event", f) = FromArtifact
  BY <1>4, <1>12
<1>14. \A f \in EventFields(kind) \cap {"output", "id", "ids", "claim", "effects", "stops"} :
         V("event", f) = Replayed
  BY <1>6, <1>12
<1> QED
  BY <1>1, <1>2, <1>3, <1>5, <1>7, <1>10, <1>11, <1>13, <1>14 DEF Consistent

\* The same for a round.
LEMMA ConditionsConsistent ==
  ASSUME DrawOK, kind = "conditions", Equal("config", "event", {"hash"}),
         Passes(SlotBindingChecks), Passes(BlobChecks), Passes(ConditionsChecks)
  PROVE  Consistent(kind)
<1>1. /\ V("config", "hash") = V("event", "hash") /\ V("header", "hash") = V("event", "hash")
      /\ V("header", "finalized") = 0 /\ V("chunk", "binding") = 0
      /\ V("blob", "hash") = V("event", "hash")
  BY SlotBindingIs, BlobIs DEF Equal, Blob
<1>2. /\ V("event", "entrants") = FromArtifact /\ V("event", "winnerCount") = FromArtifact
      /\ V("event", "scoreSum") = FromArtifact /\ V("event", "digest") = FromArtifact
      /\ V("event", "facts") = FromArtifact
  BY ConditionsIs
<1>3. kind \in Kinds /\ ~RngV2(kind) /\ kind \notin OutcomeKinds /\ EventFields(kind) = ConditionsEvent
  BY AttestationFields
<1>4. ASSUME NEW r \in Records, NEW f \in Has(kind, r) PROVE f \in Own \/ V(r, f) = V("event", f)
  BY <1>1, <1>3, HasIs DEF Records, Own
<1>5. \A f \in UNION {Has(kind, r) : r \in Records} :
        \A r, s \in {x \in Records : f \in Has(kind, x)} : V(r, f) = V(s, f)
  BY <1>3, <1>4, AgreeWithEvent
<1>6. /\ \A f \in EventFields(kind) \cap {"format", "entrants", "scoreSum", "digest", "facts"} :
           V("event", f) = FromArtifact
      /\ EventFields(kind) \cap {"output", "id", "ids", "claim", "effects", "stops"} = {}
  BY <1>2, <1>3 DEF ConditionsEvent
<1> QED
  BY <1>1, <1>2, <1>3, <1>5, <1>6 DEF Consistent

\* The same for a spin.
LEMMA SlotConsistent ==
  ASSUME DrawOK, kind = "slot", Equal("config", "event", {"hash"}),
         Passes(SlotBindingChecks), Passes(BlobChecks), Passes(SlotChecks)
  PROVE  Consistent(kind)
<1>1. /\ V("config", "hash") = V("event", "hash") /\ V("header", "hash") = V("event", "hash")
      /\ V("header", "finalized") = 0 /\ V("chunk", "binding") = 0
      /\ V("blob", "hash") = V("event", "hash")
  BY SlotBindingIs, BlobIs DEF Equal, Blob
<1>2. /\ V("event", "randomness") = Randomness /\ V("event", "stops") = Replayed
      /\ V("event", "rawWin") = SpinReplayed /\ V("event", "payout") = SpinReplayed
  BY SlotIs
<1>3. kind \in Kinds /\ ~RngV2(kind) /\ kind \notin OutcomeKinds /\ EventFields(kind) = SlotEvent
  BY AttestationFields
<1>4. ASSUME NEW r \in Records, NEW f \in Has(kind, r) PROVE f \in Own \/ V(r, f) = V("event", f)
  BY <1>1, <1>3, HasIs DEF Records, Own
<1>5. \A f \in UNION {Has(kind, r) : r \in Records} :
        \A r, s \in {x \in Records : f \in Has(kind, x)} : V(r, f) = V(s, f)
  BY <1>3, <1>4, AgreeWithEvent
<1>6. /\ EventFields(kind) \cap {"format", "entrants", "scoreSum", "digest", "facts", "winnerCount"} = {}
      /\ \A f \in EventFields(kind) \cap {"output", "id", "ids", "claim", "effects", "stops"} :
           V("event", f) = Replayed
  BY <1>2, <1>3 DEF SlotEvent, Bound
<1> QED
  BY <1>1, <1>2, <1>3, <1>5, <1>6 DEF Consistent

-----------------------------------------------------------------------------
(* Consistent records pass every check. *)

LEMMA ConsistentPasses ==
  ASSUME DrawOK, kind \in Kinds, Consistent(kind), world.missing = {}, world.parses, ~draw.beyondSafe
  PROVE  /\ Equal("config", "event", {"hash"})
         /\ Passes(ConditionsBindingChecks) /\ Passes(SlotBindingChecks) /\ Passes(BlobChecks)
         /\ kind = "conditions" => Passes(ConditionsChecks)
         /\ kind = "slot" => Passes(SlotChecks)
         /\ kind \in OutcomeKinds =>
              /\ Passes(BindingChecks) /\ Passes(RandomnessChecks) /\ Passes(InputChecks)
              /\ Passes(ResolutionEvidence) /\ Passes(CompactChecks)
              /\ Passes(ScaleListChecks) /\ Passes(ScaleClaimChecks)
<1>0. {"event", "config", "blob", "header", "resolution", "state"} \subseteq Records
  BY DEF Records
<1>1. /\ V("config", "hash") = V("event", "hash") /\ V("header", "hash") = V("event", "hash")
      /\ V("blob", "hash") = V("event", "hash")
  BY <1>0, HasIs, EventOwnsNothing, Shared
<1>2. V("header", "finalized") = 0 /\ V("chunk", "binding") = 0
  BY DEF Consistent
<1>3. Equal("config", "event", {"hash"}) /\ Equal("header", "event", {"hash"})
  BY <1>1 DEF Equal
<1>4. Passes(ConditionsBindingChecks) /\ Passes(SlotBindingChecks)
  BY <1>2, <1>3, ConditionsBindingIs, SlotBindingIs
<1>5. Passes(BlobChecks)
  BY <1>1, <1>2, BlobIs DEF Blob
<1>6. ASSUME kind = "conditions" PROVE Passes(ConditionsChecks)
  <2>1. {"entrants", "scoreSum", "digest", "facts", "winnerCount"} \subseteq EventFields(kind)
    BY <1>6, AttestationFields DEF ConditionsEvent
  <2> QED
    BY <2>1, ConditionsIs DEF Consistent
<1>7. ASSUME kind = "slot" PROVE Passes(SlotChecks)
  <2>1. "stops" \in EventFields(kind)
    BY <1>7, AttestationFields DEF SlotEvent
  <2> QED
    BY <1>7, <2>1, SlotIs DEF Consistent
<1>8. ASSUME kind \in OutcomeKinds
      PROVE  /\ Passes(BindingChecks) /\ Passes(RandomnessChecks) /\ Passes(InputChecks)
             /\ Passes(ResolutionEvidence) /\ Passes(CompactChecks)
             /\ Passes(ScaleListChecks) /\ Passes(ScaleClaimChecks)
  <2>1. /\ Bound \cup Result \subseteq EventFields(kind)
        /\ Bound \cup Result \subseteq Has(kind, "resolution")
        /\ RngV2(kind) => /\ Evidence \subseteq Has(kind, "resolution") /\ RngV2State = Has(kind, "state")
                          /\ RngV2State \ {"status"} \subseteq EventFields(kind)
                          /\ Evidence \subseteq EventFields(kind)
        /\ \A f \in Has(kind, "resolution") : f = "layout" \/ f \in EventFields(kind)
    <3>1. CASE RngV2(kind)
      BY <1>8, <3>1, HasIs, OutcomeFields DEF ResolutionV4, RngV2State, Result
    <3>2. CASE ~RngV2(kind)
      BY <1>8, <3>2, HasIs, OutcomeFields DEF Bound, Result
    <3> QED
      BY <3>1, <3>2
  <2>2. \A f \in Has(kind, "resolution") \cap EventFields(kind) : V("resolution", f) = V("event", f)
    BY <1>0, HasIs, Shared
  <2>3. RngV2(kind) => \A f \in RngV2State \ {"status"} : V("state", f) = V("event", f)
    BY <1>0, <2>1, HasIs, Shared
  <2>4. Passes(BindingChecks)
    <3>1. Equal("resolution", "event", {"hash"}) /\ Equal("resolution", "event", {"runtime", "resolve"})
      BY <2>1, <2>2 DEF Equal, Bound
    <3> QED
      BY <3>1, <1>2, <1>3, BindingIs
  <2>5. V("event", "randomness") = Randomness /\ V("resolution", "randomness") = Randomness
    <3>1. kind # "conditions" /\ V("event", "randomness") = Randomness
      BY <1>8, AttestationFields DEF Consistent
    <3> QED
      BY <3>1, <2>1, <2>2 DEF Result
  <2>6. Passes(RandomnessChecks)
    <3>1. RngV2(kind) => StateBinding
      BY <2>3 DEF StateBinding, Equal, Consistent
    <3> QED
      BY <2>5, <3>1, RandomnessIs DEF Consistent
  <2>7. Passes(InputChecks)
    <3>1. Equal("event", "resolution", {"input"}) /\ Equal("event", "resolution", {"format"})
      BY <2>1, <2>2 DEF Equal, Result
    <3>2. V("event", "format") = FromArtifact
      BY <2>1 DEF Result, Consistent
    <3> QED
      BY <3>1, <3>2, InputIs
  <2>8. Passes(ResolutionEvidence)
    <3>1. CASE RngV2(kind)
      <4>1. /\ Equal("resolution", "event", {"snapshotHash", "slots"})
            /\ Equal("resolution", "event", {"commit", "reveal"})
        BY <2>1, <2>2, <3>1 DEF Equal, Evidence
      <4> QED
        BY <3>1, <4>1, EvidenceIs DEF Consistent
    <3>2. CASE ~RngV2(kind)
      BY <3>2 DEF ResolutionEvidence, Passes
    <3> QED
      BY <3>1, <3>2
  <2>9. ASSUME NEW f \in {"output", "id", "ids", "claim", "effects"} PROVE AsReplayed(f, Replayed)
    <3>1. f \in EventFields(kind) => V("event", f) = Replayed
      BY DEF Consistent
    <3>2. f \in Has(kind, "resolution") => f \in EventFields(kind)
      BY <2>1
    <3> QED
      BY <2>2, <3>1, <3>2, HasIs DEF AsReplayed
  <2>10. AsReplayed("winnerCount", FromArtifact)
    <3>1. V("event", "winnerCount") = FromArtifact
      BY <2>1 DEF Result, Consistent
    <3> QED
      BY <2>1, <2>2, <3>1, HasIs DEF AsReplayed, Result
  <2>11. Passes(CompactChecks)
    BY <1>8, <2>8, <2>9, <2>10, CompactIs
  <2>12. Passes(ScaleListChecks) /\ Passes(ScaleClaimChecks)
    BY <2>9, <2>10, ScaleListIs, ScaleClaimIs
  <2> QED
    BY <2>4, <2>6, <2>7, <2>8, <2>11, <2>12
<1> QED
  BY <1>3, <1>4, <1>5, <1>6, <1>7, <1>8

-----------------------------------------------------------------------------
(* The sources of a snapshot. *)

Distinct(s) == \A i, j \in DOMAIN s : s[i] = s[j] => i = j

\* Two lists without a common element.
LEMMA DistinctConcat ==
  ASSUME NEW S, NEW a \in Seq(S), NEW b \in Seq(S), Distinct(a), Distinct(b),
         \A i \in DOMAIN a, j \in DOMAIN b : a[i] # b[j]
  PROVE  a \o b \in Seq(S) /\ Distinct(a \o b)
<1>1. /\ a \o b \in Seq(S) /\ Len(a \o b) = Len(a) + Len(b)
      /\ \A i \in 1..Len(a)+Len(b) : (a \o b)[i] = IF i <= Len(a) THEN a[i] ELSE b[i - Len(a)]
      /\ Len(a) \in Nat /\ Len(b) \in Nat
  BY ConcatProperties, LenProperties
<1>2. /\ DOMAIN a = 1..Len(a) /\ DOMAIN b = 1..Len(b) /\ DOMAIN (a \o b) = 1..Len(a)+Len(b)
  BY <1>1, LenProperties
<1>3. ASSUME NEW i \in DOMAIN (a \o b), NEW j \in DOMAIN (a \o b), (a \o b)[i] = (a \o b)[j], i # j
      PROVE  FALSE
  <2>1. CASE i <= Len(a) /\ j <= Len(a)
    BY <1>1, <1>2, <1>3, <2>1 DEF Distinct
  <2>2. CASE i <= Len(a) /\ ~(j <= Len(a))
    <3>1. j - Len(a) \in DOMAIN b /\ i \in DOMAIN a
      BY <1>1, <1>2, <2>2
    <3> QED
      BY <1>1, <1>2, <1>3, <2>2, <3>1
  <2>3. CASE ~(i <= Len(a)) /\ j <= Len(a)
    <3>1. i - Len(a) \in DOMAIN b /\ j \in DOMAIN a
      BY <1>1, <1>2, <2>3
    <3> QED
      BY <1>1, <1>2, <1>3, <2>3, <3>1
  <2>4. CASE ~(i <= Len(a)) /\ ~(j <= Len(a))
    <3>1. i - Len(a) \in DOMAIN b /\ j - Len(a) \in DOMAIN b
      BY <1>1, <1>2, <2>4
    <3>2. i - Len(a) = j - Len(a)
      BY <1>1, <1>2, <1>3, <2>4, <3>1 DEF Distinct
    <3> QED
      BY <1>1, <1>2, <1>3, <3>2
  <2> QED
    BY <2>1, <2>2, <2>3, <2>4
<1> QED
  BY <1>1, <1>3 DEF Distinct

\* A new element at the end.
LEMMA DistinctAppend ==
  ASSUME NEW S, NEW a \in Seq(S), Distinct(a), NEW x \in S, x \notin ToSet(a)
  PROVE  Append(a, x) \in Seq(S) /\ Distinct(Append(a, x))
<1>1. /\ Append(a, x) \in Seq(S) /\ DOMAIN Append(a, x) = 1..Len(a)+1 /\ Len(a) \in Nat
      /\ Append(a, x)[Len(a) + 1] = x /\ \A i \in 1..Len(a) : Append(a, x)[i] = a[i]
      /\ DOMAIN a = 1..Len(a)
  BY AppendProperties, LenProperties
<1>2. \A i \in DOMAIN a : a[i] # x
  BY DEF ToSet
<1> QED
  BY <1>1, <1>2 DEF Distinct

\* Every source is listed once.
LEMMA CandidatesAre ==
  ASSUME DrawOK
  PROVE  SourceCandidates \in Seq(Sources) /\ Distinct(SourceCandidates)
<1> DEFINE a == IF world.localFile THEN <<"local">> ELSE <<>>
           b == UriSources(world.uri)
<1>1. /\ a \in Seq(Sources) /\ Distinct(a) /\ \A i \in DOMAIN a : a[i] = "local"
  <2>1. CASE world.localFile
    BY <2>1 DEF Sources, Distinct
  <2>2. CASE ~world.localFile
    BY <2>2, EmptySeq DEF Sources, Distinct
  <2> QED
    BY <2>1, <2>2
<1>2. /\ b \in Seq(Sources) /\ Distinct(b) /\ \A i \in DOMAIN b : b[i] # "local"
  <2>1. CASE world.uri = "hostless"
    BY <2>1 DEF UriSources, Sources, Distinct
  <2>2. CASE world.uri = "none"
    BY <2>2, EmptySeq DEF UriSources, Sources, Distinct
  <2>3. CASE world.uri \in {"host", "unknown", "mirror"}
    <3>1. b = <<world.uri>>
      BY <2>3 DEF UriSources
    <3> QED
      BY <2>3, <3>1 DEF Sources, Distinct
  <2> QED
    BY <2>1, <2>2, <2>3 DEF DrawOK
<1> HIDE DEF a, b
<1>3. a \o b \in Seq(Sources) /\ Distinct(a \o b)
  BY <1>1, <1>2, DistinctConcat
<1>4. SourceCandidates = IF "mirror" \in ToSet(a \o b) THEN a \o b ELSE Append(a \o b, "mirror")
  BY DEF SourceCandidates, a, b
<1>5. "mirror" \in Sources
  BY DEF Sources
<1> QED
  BY <1>3, <1>4, <1>5, DistinctAppend

\* The next source of the list is a new one.
LEMMA NextSource ==
  ASSUME NEW c \in Seq(Sources), Distinct(c), NEW a \in Seq(Sources), Len(a) < Len(c),
         \A i \in DOMAIN a : a[i] = c[i], Len(a) = Cardinality(ToSet(a))
  PROVE  /\ c[Len(a) + 1] \in Sources
         /\ Append(a, c[Len(a) + 1]) \in Seq(Sources) /\ Len(Append(a, c[Len(a) + 1])) = Len(a) + 1
         /\ \A i \in DOMAIN Append(a, c[Len(a) + 1]) : Append(a, c[Len(a) + 1])[i] = c[i]
         /\ Len(Append(a, c[Len(a) + 1])) = Cardinality(ToSet(Append(a, c[Len(a) + 1])))
         /\ Append(a, c[Len(a) + 1]) # <<>>
         /\ Last(Append(a, c[Len(a) + 1])) = c[Len(a) + 1]
<1> DEFINE x == c[Len(a) + 1]
<1>1. /\ Len(a) \in Nat /\ Len(c) \in Nat /\ DOMAIN a = 1..Len(a) /\ DOMAIN c = 1..Len(c)
  BY LenProperties
<1>2. x \in Sources
  BY <1>1, ElementOfSeq
<1>3. \A i \in DOMAIN a : a[i] # x
  BY <1>1 DEF Distinct
<1> HIDE DEF x
<1>4. /\ Append(a, x) \in Seq(Sources) /\ Len(Append(a, x)) = Len(a) + 1
      /\ DOMAIN Append(a, x) = 1..Len(a)+1
      /\ Append(a, x)[Len(a) + 1] = x /\ \A i \in 1..Len(a) : Append(a, x)[i] = a[i]
  BY <1>1, <1>2, AppendProperties, LenProperties
<1>5. ToSet(Append(a, x)) = ToSet(a) \cup {x} /\ x \notin ToSet(a)
  <2>1. x \notin ToSet(a)
    BY <1>3 DEF ToSet
  <2>2. ASSUME NEW y \in ToSet(Append(a, x)) PROVE y \in ToSet(a) \cup {x}
    <3>1. PICK i \in 1..Len(a)+1 : y = Append(a, x)[i]
      BY <1>4, <2>2 DEF ToSet
    <3>2. CASE i = Len(a) + 1
      BY <1>4, <3>1, <3>2
    <3>3. CASE i # Len(a) + 1
      <4>1. i \in 1..Len(a)
        BY <1>1, <3>1, <3>3
      <4> QED
        BY <1>1, <1>4, <3>1, <4>1 DEF ToSet
    <3> QED
      BY <3>2, <3>3
  <2>3. ASSUME NEW y \in ToSet(a) PROVE y \in ToSet(Append(a, x))
    <3>1. PICK i \in 1..Len(a) : y = a[i]
      BY <1>1, <2>3 DEF ToSet
    <3>2. i \in DOMAIN Append(a, x) /\ Append(a, x)[i] = y
      BY <1>1, <1>4, <3>1
    <3> QED
      BY <3>2 DEF ToSet
  <2>4. x \in ToSet(Append(a, x))
    <3>1. Len(a) + 1 \in DOMAIN Append(a, x)
      BY <1>1, <1>4
    <3> QED
      BY <1>4, <3>1 DEF ToSet
  <2> QED
    BY <2>1, <2>2, <2>3, <2>4
<1>6. IsFiniteSet(Sources) /\ ToSet(a) \subseteq Sources
  <2>1. IsFiniteSet(Sources)
    <3> DEFINE s1 == {"local"}
               s2 == s1 \cup {"host"}
               s3 == s2 \cup {"gateway1"}
               s4 == s3 \cup {"gateway2"}
               s5 == s4 \cup {"unknown"}
               s6 == s5 \cup {"mirror"}
    <3>1. IsFiniteSet(s1)
      BY FS_Singleton
    <3>2. IsFiniteSet(s6)
      BY <3>1, FS_AddElement
    <3>3. Sources = s6
      BY DEF Sources
    <3> QED
      BY <3>2, <3>3
  <2>2. ToSet(a) \subseteq Sources
    BY <1>1, ElementOfSeq DEF ToSet
  <2> QED
    BY <2>1, <2>2
<1>7. Cardinality(ToSet(Append(a, x))) = Len(a) + 1
  BY <1>5, <1>6, FS_Subset, FS_AddElement
<1>8. Last(Append(a, x)) = x /\ Append(a, x) # <<>>
  <2>1. Last(Append(a, x)) = Append(a, x)[Len(Append(a, x))]
    BY DEF Last
  <2>2. Len(Append(a, x)) # 0
    BY <1>1, <1>4
  <2> QED
    BY <1>4, <2>1, <2>2, EmptySeq
<1>9. \A i \in DOMAIN Append(a, x) : Append(a, x)[i] = c[i]
  BY <1>1, <1>4 DEF x
<1> QED
  BY <1>2, <1>4, <1>7, <1>8, <1>9 DEF x

-----------------------------------------------------------------------------
(* The log. *)

\* The recursion of Scan, and that it has a solution: built up line by line.
ScanStep(logs, wanted, g, i) ==
  IF i = 0 THEN NothingScanned ELSE ScanLine(logs, wanted, g[i - 1], i)

LEMMA ScanExists ==
  ASSUME NEW L \in Nat, NEW logs, NEW wanted
  PROVE  \E g : g = [i \in 0..L |-> ScanStep(logs, wanted, g, i)]
<1> DEFINE Upto(g, n) ==
      /\ g = [i \in 0..L |-> g[i]]
      /\ \A i \in 0..L : i <= n => g[i] = ScanStep(logs, wanted, g, i)
    Bad == {n \in Nat : ~ \E g : Upto(g, n)}
<1>1. Upto([i \in 0..L |-> NothingScanned], 0)
  BY DEF ScanStep
<1>2. ASSUME NEW n \in Nat, NEW g, Upto(g, n)
      PROVE  \E h : Upto(h, n + 1)
  <2> DEFINE h == [i \in 0..L |-> IF i <= n THEN g[i] ELSE ScanStep(logs, wanted, g, i)]
  <2>1. h = [i \in 0..L |-> h[i]]
    OBVIOUS
  <2>2. ASSUME NEW i \in 0..L, i <= n + 1 PROVE h[i] = ScanStep(logs, wanted, h, i)
    <3>1. h[i] = ScanStep(logs, wanted, g, i)
      BY <1>2
    <3>2. CASE i = 0
      BY <3>1, <3>2 DEF ScanStep
    <3>3. CASE i # 0
      <4>1. h[i - 1] = g[i - 1]
        BY <2>2, <3>3
      <4> QED
        BY <3>1, <3>3, <4>1 DEF ScanStep
    <3> QED
      BY <3>2, <3>3
  <2> QED
    BY <2>1, <2>2
<1>3. Bad = {}
  <2> SUFFICES ASSUME Bad # {} PROVE FALSE
    OBVIOUS
  <2> HIDE DEF Upto
  <2>1. Bad \in SUBSET Nat
    OBVIOUS
  <2>2. PICK n \in Bad : \A m \in Bad : n <= m
    BY <2>1, LeastNatural
  <2>3. n # 0
    BY <1>1
  <2>4. n - 1 \in Nat /\ n - 1 \notin Bad /\ (n - 1) + 1 = n
    BY <2>2, <2>3
  <2>5. PICK g : Upto(g, n - 1)
    BY <2>4
  <2>6. \E h : Upto(h, (n - 1) + 1)
    BY <2>4, <2>5, <1>2
  <2> QED
    BY <2>6, <2>4
<1>4. PICK g : Upto(g, L)
  BY <1>3
<1>5. \A i \in 0..L : g[i] = ScanStep(logs, wanted, g, i)
  BY <1>4
<1>6. g = [i \in 0..L |-> ScanStep(logs, wanted, g, i)]
  BY <1>4, <1>5
<1> QED
  BY <1>6

\* The scan after each line.
LEMMA ScanIs ==
  ASSUME NEW logs, Len(logs) \in Nat, NEW wanted
  PROVE  \E g : /\ Scan(logs, wanted) = g[Len(logs)]
                /\ g[0] = NothingScanned
                /\ \A i \in 1..Len(logs) : g[i] = ScanLine(logs, wanted, g[i - 1], i)
<1> DEFINE scan == CHOOSE g : g = [i \in 0..Len(logs) |->
                      IF i = 0 THEN NothingScanned ELSE ScanLine(logs, wanted, g[i - 1], i)]
<1>1. Scan(logs, wanted) = scan[Len(logs)]
  BY DEF Scan
<1>2. \E g : g = [i \in 0..Len(logs) |->
                    IF i = 0 THEN NothingScanned ELSE ScanLine(logs, wanted, g[i - 1], i)]
  <2>1. \E g : g = [i \in 0..Len(logs) |-> ScanStep(logs, wanted, g, i)]
    BY ScanExists
  <2> QED
    BY <2>1, Zenon DEF ScanStep
<1>3. scan = [i \in 0..Len(logs) |->
                IF i = 0 THEN NothingScanned ELSE ScanLine(logs, wanted, scan[i - 1], i)]
  BY <1>2
<1> HIDE DEF scan
<1>4. \A i \in 0..Len(logs) :
         scan[i] = IF i = 0 THEN NothingScanned ELSE ScanLine(logs, wanted, scan[i - 1], i)
  BY <1>3
<1>5. scan[0] = NothingScanned
  BY <1>4
<1>6. \A i \in 1..Len(logs) : scan[i] = ScanLine(logs, wanted, scan[i - 1], i)
  BY <1>4
<1> QED
  BY <1>1, <1>5, <1>6

\* A line is a call, its end or program data.
LEMMA LineIs ==
  ASSUME NEW logs \in Seq(Lines), NEW i \in 1..Len(logs)
  PROVE  /\ logs[i].op \in {"invoke", "finish", "data"}
         /\ logs[i].op \in {"invoke", "finish"} => logs[i].program \in {Us, Other}
         /\ logs[i].op = "data" => logs[i] = Data(logs[i].event)
         /\ \A e : logs[i] = Data(e) => logs[i].op = "data" /\ logs[i].event = e
<1>1. logs[i] \in Lines
  BY ElementOfSeq
<1> QED
  BY <1>1 DEF Lines, Invoke, Finish, Data

\* The depth goes up with a call and down with its end.
LEMMA DepthIs ==
  ASSUME NEW logs \in Seq(Lines)
  PROVE  /\ Depth(logs, 0) = 0
         /\ \A i \in 0..Len(logs) : Depth(logs, i) \in Int
         /\ \A i \in 0..Len(logs)-1 :
              /\ logs[i + 1].op = "invoke" => Depth(logs, i + 1) = Depth(logs, i) + 1
              /\ logs[i + 1].op = "finish" => Depth(logs, i + 1) = Depth(logs, i) - 1
              /\ logs[i + 1].op = "data" => Depth(logs, i + 1) = Depth(logs, i)
<1> DEFINE Of(op, i) == {j \in 1..i : logs[j].op = op}
<1>0. Len(logs) \in Nat
  BY LenProperties
<1>1. \A i \in Nat : \A op : Of(op, i) \subseteq 1..i /\ IsFiniteSet(Of(op, i)) /\ Cardinality(Of(op, i)) \in Nat
  <2> SUFFICES ASSUME NEW i \in Nat, NEW op
               PROVE  Of(op, i) \subseteq 1..i /\ IsFiniteSet(Of(op, i)) /\ Cardinality(Of(op, i)) \in Nat
    OBVIOUS
  <2>1. IsFiniteSet(1..i)
    BY FS_Interval
  <2>2. Of(op, i) \subseteq 1..i
    OBVIOUS
  <2> HIDE DEF Of
  <2>3. IsFiniteSet(Of(op, i))
    BY <2>1, <2>2, FS_Subset
  <2> QED
    BY <2>2, <2>3, FS_CardinalityType
<1>2. \A i : Depth(logs, i) = Cardinality(Of("invoke", i)) - Cardinality(Of("finish", i))
  BY DEF Depth
<1>3. ASSUME NEW i \in Nat, NEW op, logs[i + 1].op = op
      PROVE  Cardinality(Of(op, i + 1)) = Cardinality(Of(op, i)) + 1
  <2>1. Of(op, i + 1) = Of(op, i) \cup {i + 1} /\ i + 1 \notin Of(op, i)
    BY <1>3
  <2> HIDE DEF Of
  <2> QED
    BY <1>1, <2>1, FS_AddElement
<1>4. ASSUME NEW i \in Nat, NEW op, logs[i + 1].op # op
      PROVE  Cardinality(Of(op, i + 1)) = Cardinality(Of(op, i))
  <2>1. Of(op, i + 1) = Of(op, i)
    BY <1>4
  <2> HIDE DEF Of
  <2> QED
    BY <2>1
<1>5. Of("invoke", 0) = {} /\ Of("finish", 0) = {}
  OBVIOUS
<1> HIDE DEF Of
<1>6. Depth(logs, 0) = 0
  <2>1. Depth(logs, 0) = Cardinality(Of("invoke", 0)) - Cardinality(Of("finish", 0))
    BY <1>2
  <2>2. Cardinality(Of("invoke", 0)) = 0 /\ Cardinality(Of("finish", 0)) = 0
    BY <1>5, FS_EmptySet
  <2> QED
    BY <2>1, <2>2
<1>7. \A i \in 0..Len(logs) : Depth(logs, i) \in Int
  BY <1>0, <1>1, <1>2
<1>8. ASSUME NEW i \in 0..Len(logs)-1
      PROVE  /\ logs[i + 1].op = "invoke" => Depth(logs, i + 1) = Depth(logs, i) + 1
             /\ logs[i + 1].op = "finish" => Depth(logs, i + 1) = Depth(logs, i) - 1
             /\ logs[i + 1].op = "data" => Depth(logs, i + 1) = Depth(logs, i)
  <2>1. i \in Nat /\ i + 1 \in Nat
    BY <1>0
  <2>2. /\ Cardinality(Of("invoke", i)) \in Nat /\ Cardinality(Of("finish", i)) \in Nat
    BY <1>1, <2>1
  <2>3. CASE logs[i + 1].op = "invoke"
    <3>1. /\ Cardinality(Of("invoke", i + 1)) = Cardinality(Of("invoke", i)) + 1
          /\ Cardinality(Of("finish", i + 1)) = Cardinality(Of("finish", i))
      BY <2>1, <2>3, <1>3, <1>4
    <3> QED
      BY <1>2, <2>2, <2>3, <3>1
  <2>4. CASE logs[i + 1].op = "finish"
    <3>1. /\ Cardinality(Of("invoke", i + 1)) = Cardinality(Of("invoke", i))
          /\ Cardinality(Of("finish", i + 1)) = Cardinality(Of("finish", i)) + 1
      BY <2>1, <2>4, <1>3, <1>4
    <3> QED
      BY <1>2, <2>2, <2>4, <3>1
  <2>5. CASE logs[i + 1].op = "data"
    <3>1. /\ Cardinality(Of("invoke", i + 1)) = Cardinality(Of("invoke", i))
          /\ Cardinality(Of("finish", i + 1)) = Cardinality(Of("finish", i))
      BY <2>1, <2>5, <1>4
    <3> QED
      BY <1>2, <2>2, <2>5, <3>1
  <2> QED
    BY <2>3, <2>4, <2>5
<1> QED
  BY <1>6, <1>7, <1>8

\* The calls that are open after line i.
Open(logs, i) ==
  {j \in 1..i : logs[j].op = "invoke" /\ \A m \in j..i : Depth(logs, m) >= Depth(logs, j)}

\* A bounded set of numbers has a greatest element.
LEMMA Greatest ==
  ASSUME NEW n \in Nat, NEW T \in SUBSET (1..n), T # {}
  PROVE  Max(T) \in T /\ \A x \in T : Max(T) >= x
<1> DEFINE R == {n - x : x \in T}
<1>1. R \in SUBSET Nat /\ R # {}
  <2>1. \A x \in T : n - x \in Nat
    OBVIOUS
  <2>2. PICK x \in T : TRUE
    OBVIOUS
  <2>3. n - x \in R
    OBVIOUS
  <2> QED
    BY <2>1, <2>3
<1>2. PICK d \in R : \A e \in R : d <= e
  BY <1>1, LeastNatural
<1>3. PICK x \in T : d = n - x
  BY <1>2
<1>4. ASSUME NEW y \in T PROVE x >= y
  <2>1. n - y \in R /\ x \in 1..n /\ y \in 1..n
    OBVIOUS
  <2>2. d <= n - y
    BY <1>2, <2>1
  <2> QED
    BY <1>3, <2>1, <2>2
<1>5. \E z \in T : \A y \in T : z >= y
  BY <1>4
<1> QED
  BY <1>5 DEF Max

\* What a line does to the open calls.
LEMMA OpenStep ==
  ASSUME NEW logs \in Seq(Lines), NEW i \in 0..Len(logs)-1
  PROVE  /\ logs[i + 1].op = "invoke" => Open(logs, i + 1) = Open(logs, i) \cup {i + 1}
         /\ logs[i + 1].op = "data" => Open(logs, i + 1) = Open(logs, i)
         /\ logs[i + 1].op = "finish" =>
              Open(logs, i + 1) = {j \in Open(logs, i) : Depth(logs, j) <= Depth(logs, i) - 1}
<1>0. Len(logs) \in Nat /\ i \in Nat /\ i + 1 \in 1..Len(logs)
  BY LenProperties
<1>1. \A j \in 0..i+1 : Depth(logs, j) \in Int
  BY <1>0, DepthIs
<1>2. /\ logs[i + 1].op = "invoke" => Depth(logs, i + 1) = Depth(logs, i) + 1
      /\ logs[i + 1].op = "finish" => Depth(logs, i + 1) = Depth(logs, i) - 1
      /\ logs[i + 1].op = "data" => Depth(logs, i + 1) = Depth(logs, i)
  BY DepthIs
<1>3. ASSUME NEW j \in 1..i
      PROVE  j \in Open(logs, i + 1) <=> j \in Open(logs, i) /\ Depth(logs, i + 1) >= Depth(logs, j)
  <2>1. j..(i + 1) = (j..i) \cup {i + 1} /\ j \in 1..i+1
    BY <1>0
  <2> QED
    BY <2>1 DEF Open
<1>4. i + 1 \in Open(logs, i + 1) <=> logs[i + 1].op = "invoke"
  <2>1. (i + 1)..(i + 1) = {i + 1} /\ i + 1 \in 1..i+1
    BY <1>0
  <2>2. Depth(logs, i + 1) >= Depth(logs, i + 1)
    BY <1>0, <1>1
  <2> QED
    BY <2>1, <2>2 DEF Open
<1>5. Open(logs, i + 1) \subseteq (1..i) \cup {i + 1} /\ Open(logs, i) \subseteq 1..i /\ i + 1 \notin Open(logs, i)
  BY <1>0 DEF Open
<1>6. ASSUME NEW j \in Open(logs, i) PROVE Depth(logs, j) <= Depth(logs, i) /\ Depth(logs, j) \in Int
  <2>1. j \in 1..i /\ i \in j..i
    BY <1>0, <1>5
  <2>2. Depth(logs, i) >= Depth(logs, j)
    BY <2>1 DEF Open
  <2> QED
    BY <1>0, <1>1, <2>1, <2>2
<1>7. Depth(logs, i) \in Int
  BY <1>0, <1>1
<1> HIDE DEF Open
<1>8. CASE logs[i + 1].op = "invoke"
  BY <1>2, <1>3, <1>4, <1>5, <1>6, <1>7, <1>8
<1>9. CASE logs[i + 1].op = "data"
  BY <1>2, <1>3, <1>4, <1>5, <1>6, <1>7, <1>9
<1>10. CASE logs[i + 1].op = "finish"
  BY <1>2, <1>3, <1>4, <1>5, <1>6, <1>7, <1>10
<1> QED
  BY <1>8, <1>9, <1>10

\* The stack holds the programs of the open calls, by their depth.
StackIs(logs, i, stack) ==
  /\ stack \in Seq({Us, Other}) /\ Len(stack) = Depth(logs, i)
  /\ \A j \in Open(logs, i) : Depth(logs, j) \in 1..Len(stack) /\ stack[Depth(logs, j)] = logs[j].program
  /\ \A k \in 1..Len(stack) : \E j \in Open(logs, i) : Depth(logs, j) = k

\* Its top is the innermost call.
LEMMA TopIs ==
  ASSUME NEW logs \in Seq(Lines), NEW i \in 0..Len(logs), NEW stack, StackIs(logs, i, stack)
  PROVE  /\ stack = <<>> => EmittedBy(logs, i) = "none"
         /\ stack # <<>> => EmittedBy(logs, i) = Last(stack) /\ Len(stack) \in Nat \ {0}
<1>0. Len(logs) \in Nat /\ i \in Nat /\ Len(stack) \in Nat /\ stack \in Seq({Us, Other})
  BY LenProperties DEF StackIs
<1>1. EmittedBy(logs, i) = IF Open(logs, i) = {} THEN "none" ELSE logs[Max(Open(logs, i))].program
  BY DEF EmittedBy, Open
<1>2. CASE stack = <<>>
  <2>1. Len(stack) = 0
    BY <1>2, EmptySeq
  <2>2. Open(logs, i) = {}
    BY <2>1 DEF StackIs
  <2> QED
    BY <1>1, <1>2, <2>2
<1>3. CASE stack # <<>>
  <2>1. Len(stack) \in Nat \ {0}
    BY <1>0, <1>3, EmptySeq
  <2>2. PICK j \in Open(logs, i) : Depth(logs, j) = Len(stack)
    BY <2>1 DEF StackIs
  <2> DEFINE m == Max(Open(logs, i))
  <2>3. Open(logs, i) \in SUBSET (1..i)
    BY DEF Open
  <2>4. m \in Open(logs, i) /\ m >= j
    BY <1>0, <2>2, <2>3, Greatest
  <2> HIDE DEF m
  <2>5. Depth(logs, m) \in 1..Len(stack) /\ stack[Depth(logs, m)] = logs[m].program
    BY <2>4 DEF StackIs
  <2>6. Depth(logs, m) = Len(stack)
    <3>1. CASE m = j
      BY <2>2, <3>1
    <3>2. CASE m # j
      <4>1. m \in 1..i /\ j \in 1..i /\ m - 1 \in j..i /\ m - 1 \in 0..Len(logs)-1 /\ (m - 1) + 1 = m
        BY <1>0, <2>2, <2>3, <2>4, <3>2
      <4>2. Depth(logs, m - 1) >= Depth(logs, j)
        BY <2>2, <4>1 DEF Open
      <4>3. logs[m].op = "invoke"
        BY <2>4 DEF Open
      <4>4. Depth(logs, m) = Depth(logs, m - 1) + 1
        BY <4>1, <4>3, DepthIs
      <4>5. Depth(logs, m - 1) \in Int
        BY <1>0, <4>1, DepthIs
      <4> QED
        BY <1>0, <2>2, <2>5, <4>2, <4>4, <4>5
    <3> QED
      BY <3>1, <3>2
  <2> QED
    BY <1>1, <1>3, <2>1, <2>2, <2>5, <2>6 DEF Last, m
<1> QED
  BY <1>2, <1>3

\* The end of the innermost call takes the top off.
LEMMA PopTop ==
  ASSUME NEW stack \in Seq({Us, Other}), stack # <<>>, NEW p, Last(stack) = p
  PROVE  /\ Pop(stack, p) \in Seq({Us, Other}) /\ Len(Pop(stack, p)) = Len(stack) - 1
         /\ \A k \in 1..Len(stack)-1 : Pop(stack, p)[k] = stack[k]
<1> DEFINE n == Len(stack)
           calls == {k \in DOMAIN stack : stack[k] = p}
<1>1. n \in Nat \ {0} /\ DOMAIN stack = 1..n
  BY LenProperties, EmptySeq
<1>2. n \in calls /\ calls \in SUBSET (1..n)
  BY <1>1 DEF Last
<1>3. Max(calls) = n
  <2>1. Max(calls) \in calls /\ Max(calls) >= n
    BY <1>1, <1>2, Greatest
  <2> QED
    BY <1>1, <1>2, <2>1
<1>4. Pop(stack, p) = SubSeq(stack, 1, n - 1) \o SubSeq(stack, n + 1, n)
  BY <1>2, <1>3 DEF Pop, RemoveAt
<1> HIDE DEF n, calls
<1>5. /\ SubSeq(stack, 1, n - 1) \in Seq({Us, Other}) /\ Len(SubSeq(stack, 1, n - 1)) = n - 1
      /\ \A k \in 1..n-1 : SubSeq(stack, 1, n - 1)[k] = stack[k]
  BY <1>1, SubSeqProperties DEF n
<1>6. /\ SubSeq(stack, n + 1, n) \in Seq({Us, Other}) /\ Len(SubSeq(stack, n + 1, n)) = 0
  BY <1>1, SubSeqProperties DEF n
<1>7. SubSeq(stack, n + 1, n) = <<>>
  BY <1>6, EmptySeq
<1>8. Pop(stack, p) = SubSeq(stack, 1, n - 1)
  BY <1>4, <1>5, <1>7, ConcatEmptySeq
<1> QED
  BY <1>1, <1>5, <1>8 DEF n

\* One line keeps the stack.
LEMMA StackStep ==
  ASSUME NEW logs, Nested(logs), NEW i \in 0..Len(logs)-1, NEW stack, StackIs(logs, i, stack)
  PROVE  /\ logs[i + 1].op = "invoke" => StackIs(logs, i + 1, Append(stack, logs[i + 1].program))
         /\ logs[i + 1].op = "finish" => StackIs(logs, i + 1, Pop(stack, logs[i + 1].program))
         /\ logs[i + 1].op = "data" => StackIs(logs, i + 1, stack)
<1>0. /\ logs \in Seq(Lines) /\ Len(logs) \in Nat /\ i \in 0..Len(logs) /\ i + 1 \in 1..Len(logs)
      /\ i + 1 \in DOMAIN logs
  BY LenProperties DEF Nested
<1>1. /\ stack \in Seq({Us, Other}) /\ Len(stack) = Depth(logs, i) /\ Len(stack) \in Nat
      /\ \A j \in Open(logs, i) : Depth(logs, j) \in 1..Len(stack) /\ stack[Depth(logs, j)] = logs[j].program
      /\ \A k \in 1..Len(stack) : \E j \in Open(logs, i) : Depth(logs, j) = k
  BY LenProperties DEF StackIs
<1>2. CASE logs[i + 1].op = "invoke"
  <2> DEFINE p == logs[i + 1].program
             s == Append(stack, p)
  <2>1. p \in {Us, Other}
    BY <1>0, <1>2, LineIs
  <2>2. s \in Seq({Us, Other}) /\ Len(s) = Len(stack) + 1 /\ s[Len(stack) + 1] = p
        /\ \A k \in 1..Len(stack) : s[k] = stack[k]
    BY <1>1, <2>1, AppendProperties, LenProperties
  <2>3. Open(logs, i + 1) = Open(logs, i) \cup {i + 1} /\ Depth(logs, i + 1) = Len(stack) + 1
    BY <1>0, <1>1, <1>2, OpenStep, DepthIs
  <2> HIDE DEF s
  <2>4. ASSUME NEW j \in Open(logs, i + 1)
        PROVE  Depth(logs, j) \in 1..Len(s) /\ s[Depth(logs, j)] = logs[j].program
    BY <1>1, <2>2, <2>3
  <2>5. ASSUME NEW k \in 1..Len(s) PROVE \E j \in Open(logs, i + 1) : Depth(logs, j) = k
    BY <1>1, <2>2, <2>3
  <2> QED
    BY <1>2, <2>2, <2>3, <2>4, <2>5 DEF StackIs, s
<1>3. CASE logs[i + 1].op = "finish"
  <2> DEFINE p == logs[i + 1].program
             s == Pop(stack, p)
  <2>1. p \in {Us, Other} /\ EmittedBy(logs, i) = p
    <3>1. EmittedBy(logs, (i + 1) - 1) = p /\ (i + 1) - 1 = i
      BY <1>0, <1>3 DEF Nested
    <3> QED
      BY <1>0, <1>3, <3>1, LineIs
  <2>2. stack # <<>> /\ Last(stack) = p
    BY <1>0, <2>1, TopIs, ProgramsAssumption
  <2>3. s \in Seq({Us, Other}) /\ Len(s) = Len(stack) - 1 /\ \A k \in 1..Len(stack)-1 : s[k] = stack[k]
    BY <1>1, <2>2, PopTop
  <2>4. /\ Open(logs, i + 1) = {j \in Open(logs, i) : Depth(logs, j) <= Len(stack) - 1}
        /\ Depth(logs, i + 1) = Len(stack) - 1
    BY <1>0, <1>1, <1>3, OpenStep, DepthIs
  <2> HIDE DEF s
  <2>5. ASSUME NEW j \in Open(logs, i + 1)
        PROVE  Depth(logs, j) \in 1..Len(s) /\ s[Depth(logs, j)] = logs[j].program
    BY <1>1, <2>3, <2>4
  <2>6. ASSUME NEW k \in 1..Len(s) PROVE \E j \in Open(logs, i + 1) : Depth(logs, j) = k
    <3>1. k \in 1..Len(stack) /\ k <= Len(stack) - 1
      BY <1>1, <2>3
    <3> QED
      BY <1>1, <2>4, <3>1
  <2> QED
    BY <1>3, <2>3, <2>4, <2>5, <2>6 DEF StackIs, s
<1>4. CASE logs[i + 1].op = "data"
  <2>1. Open(logs, i + 1) = Open(logs, i) /\ Depth(logs, i + 1) = Depth(logs, i)
    BY <1>0, <1>4, OpenStep, DepthIs
  <2> QED
    BY <1>1, <1>4, <2>1 DEF StackIs
<1> QED
  BY <1>2, <1>3, <1>4

ScanStates == [stack : Seq({Us, Other}), invoked : BOOLEAN, data : BOOLEAN, foreign : BOOLEAN, at : Nat]

\* What the scan knows after line i.
ScanOK(logs, wanted, s, i) ==
  /\ s \in ScanStates /\ StackIs(logs, i, s.stack)
  /\ s.at # 0 => s.at \in 1..i /\ logs[s.at] = Data(wanted) /\ EmittedBy(logs, s.at) = Us
  /\ s.at = 0 => \A j \in 1..i : ~(logs[j] = Data(wanted) /\ EmittedBy(logs, j) = Us)
  /\ ~s.data => \A j \in 1..i : ~(logs[j].op = "data" /\ EmittedBy(logs, j) = Us)

\* A line that says nothing of the program.
LEMMA ScanExtends ==
  ASSUME NEW logs \in Seq(Lines), NEW wanted, NEW i \in 0..Len(logs)-1, NEW s, ScanOK(logs, wanted, s, i),
         NEW t \in ScanStates, StackIs(logs, i + 1, t.stack), t.at = s.at, t.data = s.data,
         ~(logs[i + 1].op = "data" /\ EmittedBy(logs, i + 1) = Us)
  PROVE  ScanOK(logs, wanted, t, i + 1)
<1>0. Len(logs) \in Nat /\ i \in Nat /\ i + 1 \in 1..Len(logs)
  BY LenProperties
<1>1. \A j \in 1..i+1 : j \in 1..i \/ j = i + 1
  BY <1>0
<1>2. ~(logs[i + 1] = Data(wanted) /\ EmittedBy(logs, i + 1) = Us)
  BY <1>0, LineIs
<1>3. t.at # 0 => t.at \in 1..i+1 /\ logs[t.at] = Data(wanted) /\ EmittedBy(logs, t.at) = Us
  <2>1. \A j \in 1..i : j \in 1..i+1
    BY <1>0
  <2> QED
    BY <2>1 DEF ScanOK
<1>4. t.at = 0 => \A j \in 1..i+1 : ~(logs[j] = Data(wanted) /\ EmittedBy(logs, j) = Us)
  BY <1>1, <1>2 DEF ScanOK
<1>5. ~t.data => \A j \in 1..i+1 : ~(logs[j].op = "data" /\ EmittedBy(logs, j) = Us)
  BY <1>1 DEF ScanOK
<1> QED
  BY <1>3, <1>4, <1>5 DEF ScanOK

\* One line.
LEMMA ScanLineOK ==
  ASSUME NEW logs, Nested(logs), NEW wanted, NEW i \in 0..Len(logs)-1, NEW s, ScanOK(logs, wanted, s, i)
  PROVE  ScanOK(logs, wanted, ScanLine(logs, wanted, s, i + 1), i + 1)
<1> DEFINE t == ScanLine(logs, wanted, s, i + 1)
           line == logs[i + 1]
<1>0. /\ logs \in Seq(Lines) /\ Len(logs) \in Nat /\ i \in Nat /\ i + 1 \in 1..Len(logs)
      /\ i + 1 \in 0..Len(logs) /\ i + 1 \in Nat /\ i + 1 # 0
  BY LenProperties DEF Nested
<1>1. s \in ScanStates /\ StackIs(logs, i, s.stack) /\ s.stack \in Seq({Us, Other}) /\ s.at \in Nat
  BY DEF ScanOK, ScanStates
<1>2. /\ line.op \in {"invoke", "finish", "data"}
      /\ line.op = "data" => line = Data(line.event)
      /\ \A e : line = Data(e) => line.op = "data" /\ line.event = e
  BY <1>0, LineIs
<1>3. /\ line.op = "invoke" => StackIs(logs, i + 1, Append(s.stack, line.program))
      /\ line.op = "finish" => StackIs(logs, i + 1, Pop(s.stack, line.program))
      /\ line.op = "data" => StackIs(logs, i + 1, s.stack)
  BY <1>1, StackStep
<1>4. CASE line.op = "invoke"
  <2> DEFINE stack == Append(s.stack, line.program)
             b == s.invoked \/ line.program = Us
  <2>1. t = [s EXCEPT !.stack = stack, !.invoked = b]
    BY <1>1, <1>4 DEF ScanLine, ScanStates
  <2>2. b \in BOOLEAN /\ StackIs(logs, i + 1, stack) /\ stack \in Seq({Us, Other})
    BY <1>3, <1>4 DEF StackIs
  <2> HIDE DEF t, stack, b
  <2>3. t \in ScanStates /\ t.stack = stack /\ t.at = s.at /\ t.data = s.data
    BY <1>1, <2>1, <2>2 DEF ScanStates
  <2>4. ScanOK(logs, wanted, t, i + 1)
    BY <1>0, <1>4, <2>2, <2>3, ScanExtends
  <2> QED
    BY <2>4 DEF t
<1>5. CASE line.op = "finish"
  <2> DEFINE stack == Pop(s.stack, line.program)
  <2>1. t = [s EXCEPT !.stack = stack]
    BY <1>1, <1>5 DEF ScanLine, ScanStates
  <2>2. StackIs(logs, i + 1, stack) /\ stack \in Seq({Us, Other})
    BY <1>3, <1>5 DEF StackIs
  <2> HIDE DEF t, stack
  <2>3. t \in ScanStates /\ t.stack = stack /\ t.at = s.at /\ t.data = s.data
    BY <1>1, <2>1, <2>2 DEF ScanStates
  <2>4. ScanOK(logs, wanted, t, i + 1)
    BY <1>0, <1>5, <2>2, <2>3, ScanExtends
  <2> QED
    BY <2>4 DEF t
<1>6. CASE line.op = "data"
  <2>1. /\ s.stack = <<>> => EmittedBy(logs, i + 1) = "none"
        /\ s.stack # <<>> => EmittedBy(logs, i + 1) = Last(s.stack)
    BY <1>0, <1>3, <1>6, TopIs
  <2>2. CASE s.stack = <<>>
    <3>1. t = s
      BY <1>6, <2>2 DEF ScanLine
    <3>2. EmittedBy(logs, i + 1) # Us
      BY <2>1, <2>2, ProgramsAssumption
    <3>3. ScanOK(logs, wanted, s, i + 1)
      BY <1>0, <1>1, <1>3, <1>6, <3>2, ScanExtends
    <3> QED
      BY <3>1, <3>3
  <2>3. CASE s.stack # <<>> /\ Last(s.stack) = Us
    <3> DEFINE new == s.at = 0 /\ line.event = wanted
               at == IF new THEN i + 1 ELSE s.at
    <3>1. t = [s EXCEPT !.data = TRUE, !.at = at]
      BY <1>1, <1>6, <2>3 DEF ScanLine, ScanStates
    <3>2. at \in Nat
      BY <1>0, <1>1
    <3>3. EmittedBy(logs, i + 1) = Us
      BY <2>1, <2>3
    <3>4. at # 0 => at \in 1..i+1 /\ logs[at] = Data(wanted) /\ EmittedBy(logs, at) = Us
      <4>1. CASE new
        BY <1>0, <1>2, <1>6, <3>3, <4>1
      <4>2. CASE ~new
        <5>1. \A j \in 1..i : j \in 1..i+1
          BY <1>0
        <5> QED
          BY <4>2, <5>1 DEF ScanOK
      <4> QED
        BY <4>1, <4>2
    <3>5. at = 0 => \A j \in 1..i+1 : ~(logs[j] = Data(wanted) /\ EmittedBy(logs, j) = Us)
      <4>1. ASSUME at = 0 PROVE s.at = 0 /\ line.event # wanted
        BY <1>0, <4>1
      <4>2. \A j \in 1..i+1 : j \in 1..i \/ j = i + 1
        BY <1>0
      <4> QED
        BY <1>2, <4>1, <4>2 DEF ScanOK
    <3> HIDE DEF t, at
    <3>6. t \in ScanStates /\ t.stack = s.stack /\ t.data = TRUE /\ t.at = at
      BY <1>1, <3>1, <3>2 DEF ScanStates
    <3>7. ScanOK(logs, wanted, t, i + 1)
      BY <1>3, <1>6, <3>4, <3>5, <3>6 DEF ScanOK
    <3> QED
      BY <3>7 DEF t
  <2>4. CASE s.stack # <<>> /\ Last(s.stack) # Us
    <3> DEFINE b == s.foreign \/ line.event = wanted
    <3>1. t = [s EXCEPT !.foreign = b] /\ b \in BOOLEAN
      BY <1>1, <1>6, <2>4 DEF ScanLine, ScanStates
    <3> HIDE DEF t, b
    <3>2. t \in ScanStates /\ t.stack = s.stack /\ t.data = s.data /\ t.at = s.at
      BY <1>1, <3>1 DEF ScanStates
    <3>3. EmittedBy(logs, i + 1) # Us
      BY <2>1, <2>4
    <3>4. ScanOK(logs, wanted, t, i + 1)
      BY <1>0, <1>3, <1>6, <3>2, <3>3, ScanExtends
    <3> QED
      BY <3>4 DEF t
  <2> QED
    BY <2>2, <2>3, <2>4
<1> QED
  BY <1>2, <1>4, <1>5, <1>6

\* The scan finds the first event the program emitted itself.
LEMMA ScanFinds ==
  ASSUME NEW logs, Nested(logs), NEW wanted
  PROVE  ScanOK(logs, wanted, Scan(logs, wanted), Len(logs))
<1>0. logs \in Seq(Lines) /\ Len(logs) \in Nat
  BY LenProperties DEF Nested
<1>1. PICK g : /\ Scan(logs, wanted) = g[Len(logs)]
               /\ g[0] = NothingScanned
               /\ \A i \in 1..Len(logs) : g[i] = ScanLine(logs, wanted, g[i - 1], i)
  BY <1>0, ScanIs
<1>2. ScanOK(logs, wanted, g[0], 0)
  <2>1. <<>> \in Seq({Us, Other}) /\ Len(<<>>) = 0
    BY EmptySeq
  <2>2. NothingScanned \in ScanStates /\ NothingScanned.stack = <<>> /\ NothingScanned.at = 0
    BY <2>1 DEF NothingScanned, ScanStates
  <2>3. Open(logs, 0) = {} /\ Depth(logs, 0) = 0
    BY <1>0, DepthIs DEF Open
  <2>4. StackIs(logs, 0, <<>>)
    BY <2>1, <2>3 DEF StackIs
  <2> QED
    BY <1>1, <2>2, <2>4 DEF ScanOK
<1> DEFINE Bad == {i \in 0..Len(logs) : ~ScanOK(logs, wanted, g[i], i)}
<1>3. Bad = {}
  <2> SUFFICES ASSUME Bad # {} PROVE FALSE
    OBVIOUS
  <2>1. Bad \in SUBSET Nat
    BY <1>0
  <2>2. PICK i \in Bad : \A j \in Bad : i <= j
    BY <2>1, LeastNatural
  <2>3. i # 0
    BY <1>2, <2>2
  <2>4. i - 1 \in 0..Len(logs)-1 /\ i - 1 \in 0..Len(logs) /\ i \in 1..Len(logs) /\ (i - 1) + 1 = i /\ ~(i <= i - 1)
    BY <1>0, <2>2, <2>3
  <2>5. ScanOK(logs, wanted, g[i - 1], i - 1)
    BY <2>2, <2>4
  <2>6. ScanOK(logs, wanted, ScanLine(logs, wanted, g[i - 1], (i - 1) + 1), (i - 1) + 1)
    BY <2>4, <2>5, ScanLineOK
  <2>7. g[i] = ScanLine(logs, wanted, g[i - 1], i)
    BY <1>1, <2>4
  <2> QED
    BY <2>2, <2>4, <2>6, <2>7
<1> QED
  BY <1>0, <1>1, <1>3


-----------------------------------------------------------------------------
(* What a step leaves alone, and the two ways it may end. *)

\* The program's own event e is in the transaction's logs.
Emits(e) == \E i \in DOMAIN world.logs : world.logs[i] = Data(e) /\ EmittedBy(world.logs, i) = Us

\* The checks read the draw, the world and the kind only.
LEMMA SameChecks ==
  ASSUME UNCHANGED <<draw, world, kind>>
  PROVE  /\ Equal("config", "event", {"hash"})' = Equal("config", "event", {"hash"})
         /\ Passes(SlotBindingChecks)' = Passes(SlotBindingChecks)
         /\ Passes(BindingChecks)' = Passes(BindingChecks)
         /\ Passes(BlobChecks)' = Passes(BlobChecks)
         /\ Passes(ConditionsChecks)' = Passes(ConditionsChecks)
         /\ Passes(SlotChecks)' = Passes(SlotChecks)
         /\ Passes(RandomnessChecks)' = Passes(RandomnessChecks)
         /\ Passes(InputChecks)' = Passes(InputChecks)
         /\ Passes(ResolutionEvidence)' = Passes(ResolutionEvidence)
         /\ Passes(CompactChecks)' = Passes(CompactChecks)
         /\ Passes(ScaleListChecks)' = Passes(ScaleListChecks)
         /\ Passes(ScaleClaimChecks)' = Passes(ScaleClaimChecks)
<1>1. /\ Equal("config", "event", {"hash"})' = Equal("config", "event", {"hash"})
      /\ SlotBindingChecks' = SlotBindingChecks /\ BindingChecks' = BindingChecks
  BY DEF SlotBindingChecks, BindingChecks, Check, Equal, V
<1>2. /\ BlobChecks' = BlobChecks /\ Blob' = Blob /\ FromArtifact' = FromArtifact
      /\ ResolutionEvidence' = ResolutionEvidence
  BY DEF BlobChecks, Blob, FromArtifact, Follows, ResolutionEvidence, Check, Equal, V
<1>3. Randomness' = Randomness /\ Replayed' = Replayed /\ SpinReplayed' = SpinReplayed
  BY DEF Randomness, Replayed, SpinReplayed, Follows, FromEvent, SeedFields, Blob, V
<1>4. ConditionsChecks' = ConditionsChecks /\ SlotChecks' = SlotChecks
  BY <1>2, <1>3 DEF ConditionsChecks, SlotChecks, Check, V
<1>5. RandomnessChecks' = RandomnessChecks /\ InputChecks' = InputChecks
  BY <1>2, <1>3 DEF RandomnessChecks, InputChecks, StateBinding, Check, Equal, V
<1>6. /\ OutputCheck' = OutputCheck /\ IdCheck' = IdCheck /\ WinnerCountCheck' = WinnerCountCheck
      /\ ClaimCheck' = ClaimCheck /\ IdsCheck' = IdsCheck /\ EffectsCheck' = EffectsCheck
      /\ ResultCheck' = ResultCheck
  BY <1>2, <1>3 DEF OutputCheck, IdCheck, WinnerCountCheck, ClaimCheck, IdsCheck, EffectsCheck,
                    ResultCheck, AsReplayed, Check, V
<1>7. /\ CompactChecks' = CompactChecks /\ ScaleListChecks' = ScaleListChecks
      /\ ScaleClaimChecks' = ScaleClaimChecks
  BY <1>2, <1>6 DEF CompactChecks, ScaleListChecks, ScaleClaimChecks
<1> QED
  BY <1>1, <1>2, <1>4, <1>5, <1>7 DEF Passes

\* So do the sources, the events and what counts against a draw.
LEMMA SameWorld ==
  ASSUME UNCHANGED <<draw, world>>
  PROVE  /\ DrawOK' = DrawOK
         /\ SourceCandidates' = SourceCandidates
         /\ \A s : Counts(s)' = Counts(s)
         /\ \A e : Emits(e)' = Emits(e)
         /\ Equal("blob", "event", {"hash"})' = Equal("blob", "event", {"hash"})
         /\ V("chunk", "binding")' = V("chunk", "binding")
<1>1. DrawOK' = DrawOK /\ SourceCandidates' = SourceCandidates
  BY DEF DrawOK, SourceCandidates
<1>2. (\A s : Counts(s)' = Counts(s)) /\ \A e : Emits(e)' = Emits(e)
  BY DEF Counts, Emits
<1>3. /\ Equal("blob", "event", {"hash"})' = Equal("blob", "event", {"hash"})
      /\ V("chunk", "binding")' = V("chunk", "binding")
  BY DEF Equal, V
<1> QED
  BY <1>1, <1>2, <1>3

LEMMA SameHonest ==
  ASSUME UNCHANGED <<draw, world, kind>>
  PROVE  Honest' = Honest
<1>1. Consistent(kind)' = Consistent(kind)
  BY DEF Consistent, V, Randomness, FromArtifact, FromEvent, Follows, SeedFields, Blob, Replayed, SpinReplayed
<1> QED
  BY <1>1 DEF Honest

LEMMA OursIs ==
  /\ EventIsOurs <=>
       /\ kind \in OutcomeKinds => Emits("outcome")
       /\ kind \in Attestations => Emits(kind)
       /\ verdict \in NoEventCodes => ~Emits("outcome")
       /\ verdict = "ERR_EVENT_NOT_FOUND_FOR_PROGRAM" => ~Emits("junk")
  /\ EventIsOurs' <=>
       /\ kind' \in OutcomeKinds => Emits("outcome")'
       /\ kind' \in Attestations => Emits(kind)'
       /\ verdict' \in NoEventCodes => ~Emits("outcome")'
       /\ verdict' = "ERR_EVENT_NOT_FOUND_FOR_PROGRAM" => ~Emits("junk")'
  BY DEF EventIsOurs, Emits, Attestations, NoEventCodes

\* A list of checks ends the verification with one of its codes or lets it go on.
LEMMA ProceedIs ==
  ASSUME NEW checks \in Seq(Checks), NEW next, Proceed(checks, next)
  PROVE  \/ Passes(checks) /\ pc' = next /\ verdict' = verdict
         \/ ~Passes(checks) /\ pc' = "done" /\ verdict' \in CheckCodes
<1>1. "OK" \notin CheckCodes
  BY DEF CheckCodes
<1> QED
  BY <1>1, FirstFailureIs DEF Proceed, Report, Checks

\* A step that ends the verification without a MATCH.
LEMMA Refused ==
  ASSUME VerifierInv, UNCHANGED <<Environment, kind, attempts>>, header' \in Statuses \cup {"none"},
         pc # "done", pc' = "done", verdict' \in Refusals,
         verdict' = "COMMITMENT" => Equal("blob", "event", {"hash"}) /\ V("chunk", "binding") = 0,
         verdict' \in NoEventCodes => ~Emits("outcome"),
         verdict' = "ERR_EVENT_NOT_FOUND_FOR_PROGRAM" => ~Emits("junk"),
         verdict' = "ERR_SNAPSHOT_UNAVAILABLE" => \A s \in ToSet(SourceCandidates) : ~Counts(s),
         Honest => \/ verdict' \in {"ERR_ARTIFACT_STATUS_INVALID", "ERR_SNAPSHOT_UNAVAILABLE"}
                   \/ verdict' = "ERR_REPLAY_UNHANDLED" /\ (world.flaky \/ (Scale(kind) /\ ~world.inspects))
  PROVE  VerifierInv'
<1>0. /\ DrawOK /\ ControlOK /\ SourcesOK /\ EventIsOurs
      /\ UNCHANGED <<draw, world, kind, status, allow, seen, reviews, attempts>>
  BY DEF VerifierInv, Environment
<1>1. verdict' # "OK" /\ verdict' # "NONE"
  BY DEF Refusals, CheckCodes, FetchCodes, NoEventCodes
<1>2. DrawOK'
  BY <1>0, SameWorld
<1>3. ControlOK'
  BY <1>0, <1>1 DEF ControlOK
<1>4. PassedOK'
  BY <1>1 DEF PassedOK, Past
<1>5. SourcesOK'
  <2>1. SourceCandidates' = SourceCandidates /\ \A s : Counts(s)' = Counts(s)
    BY <1>0, SameWorld
  <2> QED
    BY <2>1, <1>0 DEF SourcesOK
<1>6. HonestOK'
  BY <1>0, SameHonest DEF HonestOK
<1>7. EventIsOurs'
  BY <1>0, SameWorld, OursIs
<1>8. CommitmentIsTheArtifact'
  BY <1>0, SameWorld DEF CommitmentIsTheArtifact
<1> QED
  BY <1>2, <1>3, <1>4, <1>5, <1>6, <1>7, <1>8 DEF VerifierInv

\* A step that lets it go on.
LEMMA WentOn ==
  ASSUME VerifierInv, UNCHANGED <<Environment, kind, attempts, verdict>>, header' \in Statuses \cup {"none"},
         pc # "done", pc' \notin {"done", "logs", "sources", "compare"}, ControlOK', PassedOK',
         pc' # "match" => attempts = <<>>,
         pc' = "match" /\ Scale(kind) => attempts # <<>> /\ Counts(Last(attempts))
  PROVE  VerifierInv'
<1>0. /\ DrawOK /\ ControlOK /\ SourcesOK /\ EventIsOurs
      /\ UNCHANGED <<draw, world, kind, status, allow, seen, reviews, attempts, verdict>>
  BY DEF VerifierInv, Environment
<1>1. verdict = "NONE" /\ verdict' = "NONE"
  BY <1>0 DEF ControlOK
<1>2. DrawOK'
  BY <1>0, SameWorld
<1>5. SourcesOK'
  <2>1. SourceCandidates' = SourceCandidates /\ \A s : Counts(s)' = Counts(s)
    BY <1>0, SameWorld
  <2>2. Scale(kind)' = Scale(kind)
    BY <1>0 DEF Scale
  <2> QED
    BY <2>1, <2>2, <1>0, <1>1 DEF SourcesOK
<1>6. HonestOK'
  BY DEF HonestOK
<1>7. EventIsOurs'
  BY <1>0, SameWorld, OursIs
<1>8. CommitmentIsTheArtifact'
  BY <1>1 DEF CommitmentIsTheArtifact
<1> QED
  BY <1>2, <1>5, <1>6, <1>7, <1>8 DEF VerifierInv

-----------------------------------------------------------------------------
(* The invariant holds at the start and after every step. *)

LEMMA VerifierInitInv == VerifierInit => VerifierInv
<1> SUFFICES ASSUME VerifierInit PROVE VerifierInv
  OBVIOUS
<1>1. PICK w \in Worlds : /\ draw = w.draw /\ world = w.world
                          /\ status = w.status /\ allow = w.allow /\ reviews = w.reviews
  BY DEF VerifierInit
<1>2. DrawOK /\ status \in Statuses /\ allow \in BOOLEAN /\ reviews \in Nat
  BY <1>1, WorldsAssumption DEF DrawOK
<1>3. /\ pc = "logs" /\ kind = "none" /\ header = "none" /\ attempts = <<>> /\ verdict = "NONE"
      /\ seen \subseteq BOOLEAN
  BY <1>2 DEF VerifierInit, StatusAllowsBinding
<1>4. ControlOK
  BY <1>2, <1>3 DEF ControlOK
<1>5. PassedOK
  BY <1>3 DEF PassedOK, Past
<1>6. SourcesOK
  <2>1. SourceCandidates \in Seq(Sources)
    BY <1>2, CandidatesAre
  <2>2. attempts \in Seq(Sources) /\ Len(attempts) = 0 /\ Len(attempts) <= Len(SourceCandidates)
    BY <1>3, <2>1, EmptySeq, LenProperties
  <2>3. DOMAIN attempts = {} /\ ToSet(attempts) = {}
    BY <1>3 DEF ToSet
  <2>4. Cardinality(ToSet(attempts)) = 0
    BY <2>3, FS_EmptySet
  <2> QED
    BY <1>3, <2>2, <2>3, <2>4 DEF SourcesOK
<1>7. HonestOK /\ EventIsOurs /\ CommitmentIsTheArtifact
  BY <1>3, OursIs DEF HonestOK, CommitmentIsTheArtifact, OutcomeKinds, Attestations, NoEventCodes
<1> QED
  BY <1>2, <1>4, <1>5, <1>6, <1>7 DEF VerifierInv

\* What the three searches find is an event of the program, and they miss none.
LEMMA SearchIs ==
  ASSUME DrawOK, NEW wanted
  PROVE  /\ Scan(world.logs, wanted).at # 0 <=> Emits(wanted)
         /\ ~Scan(world.logs, wanted).data => ~Emits("junk")
         /\ Scan(world.logs, wanted).at # 0 /\ wanted = "outcome" => draw.kind \in OutcomeKinds
<1> DEFINE logs == world.logs
           s == Scan(logs, wanted)
<1>1. Nested(logs) /\ logs \in Seq(Lines) /\ DOMAIN logs = 1..Len(logs)
  BY LenProperties DEF DrawOK, Nested
<1>2. ScanOK(logs, wanted, s, Len(logs))
  BY <1>1, ScanFinds
<1>3. s.at # 0 <=> Emits(wanted)
  BY <1>1, <1>2 DEF ScanOK, Emits
<1>4. ~s.data => ~Emits("junk")
  BY <1>1, <1>2, LineIs DEF ScanOK, Emits
<1>5. s.at # 0 /\ wanted = "outcome" => draw.kind \in OutcomeKinds
  BY <1>1, <1>2 DEF ScanOK, DrawOK
<1> QED
  BY <1>3, <1>4, <1>5

\* An event is found.
LEMMA Found ==
  ASSUME VerifierInv, pc = "logs", UNCHANGED <<Environment, header, attempts, verdict>>, kind' \in Kinds,
         kind' \in OutcomeKinds => Emits("outcome"), kind' \in Attestations => Emits(kind'),
         pc' = IF draw.op = "verify" THEN "config" ELSE "header"
  PROVE  VerifierInv'
<1>0. /\ DrawOK /\ ControlOK /\ SourcesOK
      /\ UNCHANGED <<draw, world, status, allow, seen, reviews, attempts, verdict, header>>
  BY DEF VerifierInv, Environment
<1>1. verdict = "NONE" /\ verdict' = "NONE" /\ kind' # "none"
  BY <1>0 DEF ControlOK, Kinds, OutcomeKinds
<1>2. DrawOK'
  BY <1>0, SameWorld
<1>3. ControlOK'
  BY <1>0, <1>1 DEF ControlOK
<1>4. PassedOK'
  BY <1>0, <1>1 DEF PassedOK, Past
<1>5. SourcesOK'
  <2>1. SourceCandidates' = SourceCandidates
    BY <1>0, SameWorld
  <2> QED
    BY <2>1, <1>0, <1>1 DEF SourcesOK
<1>6. HonestOK'
  BY DEF HonestOK
<1>7. EventIsOurs'
  BY <1>0, <1>1, SameWorld, OursIs DEF NoEventCodes
<1>8. CommitmentIsTheArtifact'
  BY <1>1 DEF CommitmentIsTheArtifact
<1> QED
  BY <1>2, <1>3, <1>4, <1>5, <1>6, <1>7, <1>8 DEF VerifierInv

LEMMA LogsInv == VerifierInv /\ FetchTransactionLogs => VerifierInv'
<1> SUFFICES ASSUME VerifierInv, FetchTransactionLogs PROVE VerifierInv'
  OBVIOUS
<1> DEFINE logs == world.logs
<1>0. /\ DrawOK /\ ControlOK /\ pc = "logs" /\ kind = "none" /\ ~Honest
      /\ UNCHANGED <<Environment, header, attempts>> /\ header' \in Statuses \cup {"none"}
      /\ draw.op \in {"verify", "commitment"}
  BY DEF VerifierInv, ControlOK, DrawOK, FetchTransactionLogs, Honest
<1>1. CASE "tx" \in world.missing
  <2>1. Report("ERR_TX_NOT_FOUND_OR_NO_LOGS") /\ UNCHANGED kind
    BY <1>1 DEF FetchTransactionLogs
  <2>2. /\ pc' = "done" /\ verdict' \in Refusals /\ verdict' # "COMMITMENT" /\ verdict' \notin NoEventCodes
        /\ verdict' # "ERR_EVENT_NOT_FOUND_FOR_PROGRAM" /\ verdict' # "ERR_SNAPSHOT_UNAVAILABLE"
    BY <2>1 DEF Report, Refusals, FetchCodes, NoEventCodes
  <2> QED
    BY <1>0, <2>1, <2>2, Refused
<1>2. CASE "tx" \notin world.missing /\ draw.op = "verify" /\ FindConditionsResolvedEvent(logs) # 0
  <2>1. kind' = "conditions" /\ pc' = "config" /\ UNCHANGED verdict
    BY <1>2 DEF FetchTransactionLogs
  <2>2. Emits("conditions")
    BY <1>0, <1>2, SearchIs DEF FindConditionsResolvedEvent
  <2>3. "conditions" \in Kinds /\ "conditions" \notin OutcomeKinds
    BY DEF Kinds, OutcomeKinds
  <2> QED
    BY <1>0, <1>2, <2>1, <2>2, <2>3, Found
<1>3. CASE /\ "tx" \notin world.missing /\ draw.op = "verify" /\ FindConditionsResolvedEvent(logs) = 0
           /\ FindSlotSpinResolvedEvent(logs) # 0
  <2>1. kind' = "slot" /\ pc' = "config" /\ UNCHANGED verdict
    BY <1>3 DEF FetchTransactionLogs
  <2>2. Emits("slot")
    BY <1>0, <1>3, SearchIs DEF FindSlotSpinResolvedEvent
  <2>3. "slot" \in Kinds /\ "slot" \notin OutcomeKinds
    BY DEF Kinds, OutcomeKinds
  <2> QED
    BY <1>0, <1>3, <2>1, <2>2, <2>3, Found
<1>4. CASE /\ "tx" \notin world.missing /\ FindOutcomeResolvedEvent(logs) # 0
           /\ draw.op = "verify" => FindConditionsResolvedEvent(logs) = 0 /\ FindSlotSpinResolvedEvent(logs) = 0
  <2>1. kind' = draw.kind /\ pc' = (IF draw.op = "verify" THEN "config" ELSE "header") /\ UNCHANGED verdict
    BY <1>4 DEF FetchTransactionLogs
  <2>2. Emits("outcome") /\ draw.kind \in OutcomeKinds
    BY <1>0, <1>4, SearchIs DEF FindOutcomeResolvedEvent
  <2>3. kind' \in Kinds /\ kind' \notin Attestations
    BY <2>1, <2>2 DEF Kinds, OutcomeKinds, Attestations
  <2> QED
    BY <1>0, <2>1, <2>2, <2>3, Found
<1>5. CASE /\ "tx" \notin world.missing /\ FindOutcomeResolvedEvent(logs) = 0
           /\ draw.op = "verify" => FindConditionsResolvedEvent(logs) = 0 /\ FindSlotSpinResolvedEvent(logs) = 0
  <2>1. Report(NoEvent(logs)) /\ UNCHANGED kind
    BY <1>5 DEF FetchTransactionLogs
  <2>2. /\ ~Emits("outcome")
        /\ ~Scan(logs, "outcome").data => ~Emits("junk")
    BY <1>0, <1>5, SearchIs DEF FindOutcomeResolvedEvent
  <2>3. /\ NoEvent(logs) \in NoEventCodes
        /\ NoEvent(logs) = "ERR_EVENT_NOT_FOUND_FOR_PROGRAM" => ~Scan(logs, "outcome").data
    BY DEF NoEvent, NoEventCodes
  <2>4. /\ pc' = "done" /\ verdict' \in Refusals /\ verdict' # "COMMITMENT"
        /\ verdict' # "ERR_SNAPSHOT_UNAVAILABLE"
        /\ verdict' = "ERR_EVENT_NOT_FOUND_FOR_PROGRAM" => ~Emits("junk")
    BY <2>1, <2>2, <2>3 DEF Report, Refusals, NoEventCodes
  <2> QED
    BY <1>0, <2>1, <2>2, <2>4, Refused
<1> QED
  BY <1>1, <1>2, <1>3, <1>4, <1>5

\* A check that fails, or an account that is missing, speaks against the draw.
LEMMA Failed ==
  ASSUME VerifierInv, UNCHANGED <<Environment, kind, attempts>>, header' \in Statuses \cup {"none"},
         pc # "done", pc' = "done", verdict' \in CheckCodes \cup FetchCodes, ~Honest
  PROVE  VerifierInv'
<1>1. /\ verdict' \in Refusals /\ verdict' # "COMMITMENT" /\ verdict' \notin NoEventCodes
      /\ verdict' # "ERR_EVENT_NOT_FOUND_FOR_PROGRAM" /\ verdict' # "ERR_SNAPSHOT_UNAVAILABLE"
  BY DEF Refusals, CheckCodes, FetchCodes, NoEventCodes
<1> QED
  BY <1>1, Refused

\* The lists without a check.
LEMMA NoChecks == <<>> \in Seq(Checks) /\ Passes(<<>>)
  BY EmptySeq DEF Passes

\* The config's hash is compared at once where there is no resolution.
ConfigChecks ==
  IF kind \in OutcomeKinds THEN <<>>
  ELSE <<Check("ERR_CONFIG_HASH_MISMATCH", Equal("config", "event", {"hash"}))>>

LEMMA ConfigIs ==
  /\ ConfigChecks \in Seq(Checks)
  /\ Passes(ConfigChecks) <=> kind \in OutcomeKinds \/ Equal("config", "event", {"hash"})
<1> DEFINE ok == Equal("config", "event", {"hash"})
<1>1. ok \in BOOLEAN /\ "ERR_CONFIG_HASH_MISMATCH" \in CheckCodes
  BY DEF Equal, CheckCodes
<1>2. /\ Check("ERR_CONFIG_HASH_MISMATCH", ok) \in Checks
      /\ Check("ERR_CONFIG_HASH_MISMATCH", ok).ok = ok
  BY <1>1, CheckIs
<1> HIDE DEF ok
<1>3. ConfigChecks = IF kind \in OutcomeKinds THEN <<>> ELSE <<Check("ERR_CONFIG_HASH_MISMATCH", ok)>>
  BY DEF ConfigChecks, ok
<1>4. Passes(ConfigChecks) <=> kind \in OutcomeKinds \/ ok
  BY <1>1, <1>2, <1>3, List1, NoChecks
<1> QED
  BY <1>2, <1>3, <1>4, List1, NoChecks DEF ok

LEMMA ConfigEnds ==
  ASSUME FetchOutcomeConfig
  PROVE  \/ "config" \in world.missing /\ pc' = "done" /\ verdict' = "ERR_OUTCOME_CONFIG_NOT_FOUND"
         \/ ~Passes(ConfigChecks) /\ pc' = "done" /\ verdict' \in CheckCodes
         \/ /\ Passes(ConfigChecks) /\ verdict' = verdict
            /\ pc' = IF kind \in OutcomeKinds THEN "resolution" ELSE "header"
<1> DEFINE next == IF kind \in OutcomeKinds THEN "resolution" ELSE "header"
<1>1. CASE "config" \in world.missing
  BY <1>1 DEF FetchOutcomeConfig, Fetch, Report
<1>2. CASE "config" \notin world.missing
  <2>1. Proceed(ConfigChecks, next)
    BY <1>2 DEF FetchOutcomeConfig, Fetch, ConfigChecks
  <2> QED
    BY <2>1, ConfigIs, ProceedIs
<1> QED
  BY <1>1, <1>2

LEMMA ConfigInv == VerifierInv /\ FetchOutcomeConfig => VerifierInv'
<1> SUFFICES ASSUME VerifierInv, FetchOutcomeConfig PROVE VerifierInv'
  OBVIOUS
<1>0. /\ DrawOK /\ ControlOK /\ PassedOK /\ SourcesOK /\ pc = "config"
      /\ UNCHANGED <<Environment, kind, header, attempts>> /\ header' \in Statuses \cup {"none"}
      /\ UNCHANGED <<draw, world, kind, status, allow, seen, reviews, attempts>>
      /\ kind \in Kinds /\ draw.op = "verify" /\ verdict = "NONE" /\ attempts = <<>>
  BY DEF VerifierInv, ControlOK, SourcesOK, FetchOutcomeConfig, Environment
<1>1. CASE "config" \in world.missing /\ pc' = "done" /\ verdict' = "ERR_OUTCOME_CONFIG_NOT_FOUND"
  <2>1. ~Honest
    BY <1>1 DEF Honest
  <2> QED
    BY <1>0, <1>1, <2>1, Failed DEF FetchCodes
<1>2. CASE ~Passes(ConfigChecks) /\ pc' = "done" /\ verdict' \in CheckCodes
  <2>1. ~Honest
    BY <1>0, <1>2, ConfigIs, ConsistentPasses DEF Honest
  <2> QED
    BY <1>0, <1>2, <2>1, Failed
<1>3. CASE /\ Passes(ConfigChecks) /\ verdict' = verdict
           /\ pc' = IF kind \in OutcomeKinds THEN "resolution" ELSE "header"
  <2>1. ControlOK'
    BY <1>0, <1>3 DEF ControlOK, Kinds
  <2>2. PassedOK'
    BY <1>0, <1>3, ConfigIs, SameChecks, AttestationFields DEF PassedOK, Past, Attestations
  <2> QED
    BY <1>0, <1>3, <2>1, <2>2, WentOn
<1> QED
  BY <1>1, <1>2, <1>3, ConfigEnds

LEMMA ResolutionInv == VerifierInv /\ FetchDecodedOutcomeResolution => VerifierInv'
<1> SUFFICES ASSUME VerifierInv, FetchDecodedOutcomeResolution PROVE VerifierInv'
  OBVIOUS
<1> DEFINE next == IF RngV2(kind) THEN "state" ELSE "header"
<1>0. /\ DrawOK /\ ControlOK /\ PassedOK /\ SourcesOK /\ pc = "resolution"
      /\ UNCHANGED <<Environment, kind, header, attempts>> /\ header' \in Statuses \cup {"none"}
      /\ UNCHANGED <<draw, world, kind, status, allow, seen, reviews, attempts>>
      /\ kind \in OutcomeKinds /\ draw.op = "verify" /\ verdict = "NONE" /\ attempts = <<>>
  BY DEF VerifierInv, ControlOK, SourcesOK, FetchDecodedOutcomeResolution, Environment
<1>2. CASE "resolution" \in world.missing
  <2>1. pc' = "done" /\ verdict' = "ERR_RESOLUTION_ACCOUNT_NOT_FOUND" /\ ~Honest
    BY <1>2 DEF FetchDecodedOutcomeResolution, Fetch, Report, Honest
  <2> QED
    BY <1>0, <2>1, Failed DEF FetchCodes
<1>3. CASE "resolution" \notin world.missing
  <2>1. Proceed(<<>>, next)
    BY <1>3 DEF FetchDecodedOutcomeResolution, Fetch
  <2>2. pc' = next /\ verdict' = verdict
    BY <2>1, NoChecks, ProceedIs
  <2>3. ControlOK'
    BY <1>0, <2>2 DEF ControlOK
  <2>4. PassedOK'
    BY <1>0, <2>2, AttestationFields DEF PassedOK, Past, Attestations
  <2> QED
    BY <1>0, <2>2, <2>3, <2>4, WentOn
<1> QED
  BY <1>2, <1>3

LEMMA StateInv == VerifierInv /\ FetchDecodedRngV2State => VerifierInv'
<1> SUFFICES ASSUME VerifierInv, FetchDecodedRngV2State PROVE VerifierInv'
  OBVIOUS
<1>0. /\ DrawOK /\ ControlOK /\ PassedOK /\ SourcesOK /\ pc = "state"
      /\ UNCHANGED <<Environment, kind, header, attempts>> /\ header' \in Statuses \cup {"none"}
      /\ UNCHANGED <<draw, world, kind, status, allow, seen, reviews, attempts>>
      /\ kind \in OutcomeKinds /\ draw.op = "verify" /\ verdict = "NONE" /\ attempts = <<>>
  BY DEF VerifierInv, ControlOK, SourcesOK, FetchDecodedRngV2State, Environment
<1>2. CASE "state" \in world.missing
  <2>1. pc' = "done" /\ verdict' = "ERR_RNG_V2_STATE_MISMATCH" /\ ~Honest
    BY <1>2 DEF FetchDecodedRngV2State, Fetch, Report, Honest
  <2> QED
    BY <1>0, <2>1, Failed DEF FetchCodes
<1>3. CASE "state" \notin world.missing
  <2>1. Proceed(<<>>, "header")
    BY <1>3 DEF FetchDecodedRngV2State, Fetch
  <2>2. pc' = "header" /\ verdict' = verdict
    BY <2>1, NoChecks, ProceedIs
  <2>3. ControlOK'
    BY <1>0, <2>2 DEF ControlOK
  <2>4. PassedOK'
    BY <1>0, <2>2, AttestationFields DEF PassedOK, Past, Attestations
  <2> QED
    BY <1>0, <2>2, <2>3, <2>4, WentOn
<1> QED
  BY <1>2, <1>3

\* The checks of the header, by what is asked and the kind of the draw.
HeaderChecks ==
  CASE draw.op = "commitment" -> <<>>
    [] draw.op = "verify" /\ kind \in OutcomeKinds -> BindingChecks
    [] draw.op = "verify" /\ kind = "conditions" -> ConditionsBindingChecks
    [] draw.op = "verify" /\ kind = "slot" -> SlotBindingChecks

LEMMA HeaderIs ==
  ASSUME DrawOK, kind \in Kinds
  PROVE  /\ HeaderChecks \in Seq(Checks)
         /\ draw.op = "verify" /\ kind \in OutcomeKinds => (Passes(HeaderChecks) <=> Passes(BindingChecks))
         /\ draw.op = "verify" /\ kind \in Attestations => (Passes(HeaderChecks) <=> Passes(SlotBindingChecks))
         /\ draw.op = "commitment" => Passes(HeaderChecks)
<1>1. Passes(ConditionsBindingChecks) <=> Passes(SlotBindingChecks)
  BY ConditionsBindingIs, SlotBindingIs
<1>2. CASE draw.op = "commitment"
  BY <1>2, NoChecks DEF HeaderChecks
<1>3. CASE draw.op = "verify" /\ kind \in OutcomeKinds
  <2>1. HeaderChecks = BindingChecks /\ kind \notin Attestations
    BY <1>3 DEF HeaderChecks, OutcomeKinds, Attestations
  <2> QED
    BY <1>3, <2>1, BindingIs
<1>4. CASE draw.op = "verify" /\ kind = "conditions"
  <2>1. HeaderChecks = ConditionsBindingChecks /\ kind \notin OutcomeKinds
    BY <1>4 DEF HeaderChecks, OutcomeKinds
  <2> QED
    BY <1>1, <1>4, <2>1, ConditionsBindingIs
<1>5. CASE draw.op = "verify" /\ kind = "slot"
  <2>1. HeaderChecks = SlotBindingChecks /\ kind \notin OutcomeKinds
    BY <1>5 DEF HeaderChecks, OutcomeKinds
  <2> QED
    BY <1>5, <2>1, SlotBindingIs
<1> QED
  BY <1>2, <1>3, <1>4, <1>5 DEF Kinds, DrawOK

LEMMA HeaderEnds ==
  ASSUME DrawOK, kind \in Kinds, FetchArtifactHeader
  PROVE  \/ "header" \in world.missing /\ pc' = "done" /\ verdict' = "ERR_ARTIFACT_HEADER_NOT_FOUND"
         \/ ~Passes(HeaderChecks) /\ pc' = "done" /\ verdict' \in CheckCodes
         \/ /\ Passes(HeaderChecks) /\ verdict' = verdict
            /\ pc' = IF draw.op = "verify" /\ kind \in OutcomeKinds THEN "allow" ELSE "chunks"
<1> DEFINE next == IF draw.op = "verify" /\ kind \in OutcomeKinds THEN "allow" ELSE "chunks"
<1>1. CASE "header" \in world.missing
  BY <1>1 DEF FetchArtifactHeader, Fetch, Report
<1>2. CASE "header" \notin world.missing
  <2>1. Proceed(HeaderChecks, next)
    BY <1>2 DEF FetchArtifactHeader, Fetch, HeaderChecks
  <2> QED
    BY <2>1, HeaderIs, ProceedIs
<1> QED
  BY <1>1, <1>2

LEMMA HeaderInv == VerifierInv /\ FetchArtifactHeader => VerifierInv'
<1> SUFFICES ASSUME VerifierInv, FetchArtifactHeader PROVE VerifierInv'
  OBVIOUS
<1>0. /\ DrawOK /\ ControlOK /\ PassedOK /\ SourcesOK /\ pc = "header"
      /\ UNCHANGED <<Environment, kind, attempts>> /\ header' \in Statuses \cup {"none"} /\ header' \in Statuses
      /\ UNCHANGED <<draw, world, kind, status, allow, seen, reviews, attempts>>
      /\ kind \in Kinds /\ draw.op \in {"verify", "commitment"} /\ verdict = "NONE" /\ attempts = <<>>
  BY DEF VerifierInv, ControlOK, SourcesOK, DrawOK, FetchArtifactHeader, Environment
<1>1. CASE "header" \in world.missing /\ pc' = "done" /\ verdict' = "ERR_ARTIFACT_HEADER_NOT_FOUND"
  <2>1. ~Honest
    BY <1>1 DEF Honest
  <2> QED
    BY <1>0, <1>1, <2>1, Failed DEF FetchCodes
<1>2. CASE ~Passes(HeaderChecks) /\ pc' = "done" /\ verdict' \in CheckCodes
  <2>1. ~Honest
    BY <1>0, <1>2, HeaderIs, ConsistentPasses DEF Honest, Kinds, Attestations
  <2> QED
    BY <1>0, <1>2, <2>1, Failed
<1>3. CASE /\ Passes(HeaderChecks) /\ verdict' = verdict
           /\ pc' = IF draw.op = "verify" /\ kind \in OutcomeKinds THEN "allow" ELSE "chunks"
  <2>1. ControlOK'
    BY <1>0, <1>3 DEF ControlOK
  <2>2. kind \in OutcomeKinds => kind \notin Attestations
    BY DEF OutcomeKinds, Attestations
  <2>3. PassedOK'
    BY <1>0, <1>3, <2>2, HeaderIs, SameChecks DEF PassedOK, Past
  <2> QED
    BY <1>0, <1>3, <2>1, <2>3, WentOn
<1> QED
  BY <1>0, <1>1, <1>2, <1>3, HeaderEnds

\* The one check of the status.
LEMMA AllowOutcome ==
  ASSUME Proceed(<<Check("ERR_ARTIFACT_STATUS_INVALID", StatusAllowed)>>, "chunks")
  PROVE  \/ StatusAllowed /\ pc' = "chunks" /\ verdict' = verdict
         \/ ~StatusAllowed /\ pc' = "done" /\ verdict' = "ERR_ARTIFACT_STATUS_INVALID"
<1> DEFINE code == "ERR_ARTIFACT_STATUS_INVALID"
           check == Check(code, StatusAllowed)
<1>1. StatusAllowed \in BOOLEAN /\ "OK" \notin {code}
  BY DEF StatusAllowed, StatusAllowsBinding
<1>2. check \in [code : {code}, ok : BOOLEAN] /\ check.ok = StatusAllowed
  BY <1>1 DEF Check
<1> HIDE DEF check
<1>3. <<check>> \in Seq([code : {code}, ok : BOOLEAN]) /\ DOMAIN <<check>> = {1} /\ <<check>>[1] = check
  BY <1>2
<1>4. Passes(<<check>>) <=> StatusAllowed
  BY <1>2, <1>3 DEF Passes
<1>5. /\ Passes(<<check>>) => FirstFailure(<<check>>) = "OK"
      /\ ~Passes(<<check>>) => FirstFailure(<<check>>) \in {code}
  BY <1>1, <1>3, FirstFailureIs
<1> QED
  BY <1>4, <1>5 DEF Proceed, Report, check

LEMMA AllowInv == VerifierInv /\ ReadAllowUnreviewed => VerifierInv'
<1> SUFFICES ASSUME VerifierInv, ReadAllowUnreviewed PROVE VerifierInv'
  OBVIOUS
<1>0. /\ DrawOK /\ ControlOK /\ PassedOK /\ SourcesOK /\ pc = "allow"
      /\ UNCHANGED <<Environment, kind, header, attempts>> /\ header' \in Statuses \cup {"none"}
      /\ UNCHANGED <<draw, world, kind, status, allow, seen, reviews, attempts>>
      /\ kind \in OutcomeKinds /\ draw.op = "verify" /\ verdict = "NONE" /\ attempts = <<>>
  BY DEF VerifierInv, ControlOK, SourcesOK, ReadAllowUnreviewed, Environment
<1>1. \/ StatusAllowed /\ pc' = "chunks" /\ verdict' = verdict
      \/ ~StatusAllowed /\ pc' = "done" /\ verdict' = "ERR_ARTIFACT_STATUS_INVALID"
  BY AllowOutcome DEF ReadAllowUnreviewed
<1>2. CASE pc' = "done" /\ verdict' = "ERR_ARTIFACT_STATUS_INVALID"
  <2>1. /\ verdict' \in Refusals /\ verdict' # "COMMITMENT" /\ verdict' \notin NoEventCodes
        /\ verdict' # "ERR_EVENT_NOT_FOUND_FOR_PROGRAM" /\ verdict' # "ERR_SNAPSHOT_UNAVAILABLE"
    BY <1>2 DEF Refusals, NoEventCodes
  <2> QED
    BY <1>0, <1>2, <2>1, Refused
<1>3. CASE pc' = "chunks" /\ verdict' = verdict
  <2>1. ControlOK'
    BY <1>0, <1>3 DEF ControlOK
  <2>2. kind \notin Attestations
    BY <1>0 DEF OutcomeKinds, Attestations
  <2>3. PassedOK'
    BY <1>0, <1>3, <2>2, SameChecks DEF PassedOK, Past
  <2> QED
    BY <1>0, <1>3, <2>1, <2>3, WentOn
<1> QED
  BY <1>1, <1>2, <1>3

\* The checks of the replay, by the kind of the draw.
ReplayChecks ==
  CASE kind = "conditions" -> BlobChecks \o ConditionsChecks
    [] kind = "slot" -> BlobChecks \o SlotChecks
    [] kind \in OutcomeKinds /\ ~Scale(kind) ->
         BlobChecks \o ArtifactChecks \o RandomnessChecks \o InputChecks \o CompactChecks
    [] Scale(kind) -> BlobChecks \o ArtifactChecks \o RandomnessChecks \o InputChecks \o ResolutionEvidence

LEMMA ScaleIsOutcome ==
  ASSUME NEW k
  PROVE  /\ Scale(k) => k \in OutcomeKinds
         /\ k \in OutcomeKinds => k \in Kinds /\ k \notin Attestations /\ k # "conditions" /\ k # "slot"
         /\ k \in Kinds => k \in OutcomeKinds \/ k = "conditions" \/ k = "slot"
  BY DEF Scale, OutcomeKinds, Kinds, Attestations

LEMMA ReplayIs ==
  ASSUME DrawOK, kind \in Kinds
  PROVE  /\ ReplayChecks \in Seq(Checks)
         /\ Passes(ReplayChecks) => Passes(BlobChecks)
         /\ kind = "conditions" => (Passes(ReplayChecks) <=> Passes(BlobChecks) /\ Passes(ConditionsChecks))
         /\ kind = "slot" => (Passes(ReplayChecks) <=> Passes(BlobChecks) /\ Passes(SlotChecks))
         /\ kind \in OutcomeKinds =>
              (Passes(ReplayChecks) <=>
                 /\ Passes(BlobChecks) /\ Passes(ArtifactChecks) /\ Passes(RandomnessChecks)
                 /\ Passes(InputChecks) /\ Passes(ResolutionEvidence)
                 /\ ~Scale(kind) => Passes(CompactChecks))
<1>1. BlobChecks \in Seq(Checks)
  BY BlobIs
<1>2. CASE kind = "conditions"
  <2>1. ReplayChecks = BlobChecks \o ConditionsChecks /\ kind \notin OutcomeKinds
    BY <1>2 DEF ReplayChecks, OutcomeKinds, Scale
  <2> QED
    BY <1>1, <1>2, <2>1, ConditionsIs, PassesConcat
<1>3. CASE kind = "slot"
  <2>1. ReplayChecks = BlobChecks \o SlotChecks /\ kind \notin OutcomeKinds
    BY <1>3 DEF ReplayChecks, OutcomeKinds, Scale
  <2> QED
    BY <1>1, <1>3, <2>1, SlotIs, PassesConcat
<1>4. CASE kind \in OutcomeKinds
  <2> DEFINE a == BlobChecks \o ArtifactChecks
             b == a \o RandomnessChecks
             c == b \o InputChecks
  <2>1. /\ ArtifactChecks \in Seq(Checks) /\ RandomnessChecks \in Seq(Checks) /\ InputChecks \in Seq(Checks)
        /\ CompactChecks \in Seq(Checks) /\ ResolutionEvidence \in Seq(Checks)
        /\ Passes(CompactChecks) => Passes(ResolutionEvidence)
    BY <1>4, ArtifactIs, RandomnessIs, InputIs, CompactIs
  <2>2. a \in Seq(Checks) /\ (Passes(a) <=> Passes(BlobChecks) /\ Passes(ArtifactChecks))
    BY <1>1, <2>1, PassesConcat
  <2> HIDE DEF a
  <2>3. b \in Seq(Checks) /\ (Passes(b) <=> Passes(a) /\ Passes(RandomnessChecks))
    BY <2>1, <2>2, PassesConcat
  <2> HIDE DEF b
  <2>4. c \in Seq(Checks) /\ (Passes(c) <=> Passes(b) /\ Passes(InputChecks))
    BY <2>1, <2>3, PassesConcat
  <2>5. ReplayChecks = IF Scale(kind) THEN c \o ResolutionEvidence ELSE c \o CompactChecks
    BY <1>4, ScaleIsOutcome DEF ReplayChecks, a, b
  <2> HIDE DEF c
  <2>6. kind # "conditions" /\ kind # "slot"
    BY <1>4, ScaleIsOutcome
  <2>7. CASE Scale(kind)
    <3>1. /\ ReplayChecks \in Seq(Checks)
          /\ Passes(ReplayChecks) <=> Passes(c) /\ Passes(ResolutionEvidence)
      BY <2>1, <2>4, <2>5, <2>7, PassesConcat
    <3> QED
      BY <2>2, <2>3, <2>4, <2>6, <2>7, <3>1
  <2>8. CASE ~Scale(kind)
    <3>1. /\ ReplayChecks \in Seq(Checks)
          /\ Passes(ReplayChecks) <=> Passes(c) /\ Passes(CompactChecks)
      BY <2>1, <2>4, <2>5, <2>8, PassesConcat
    <3> QED
      BY <2>1, <2>2, <2>3, <2>4, <2>6, <2>8, <3>1
  <2> QED
    BY <2>7, <2>8
<1> QED
  BY <1>2, <1>3, <1>4, ScaleIsOutcome

LEMMA ReplayEnds ==
  ASSUME DrawOK, kind \in Kinds, ReplayDraw
  PROVE  \/ ~Passes(ReplayChecks) /\ pc' = "done" /\ verdict' \in CheckCodes
         \/ /\ Passes(ReplayChecks) /\ verdict' = verdict
            /\ pc' = IF Scale(kind) THEN "sources" ELSE "match"
<1> DEFINE next == IF Scale(kind) THEN "sources" ELSE "match"
<1>1. Proceed(ReplayChecks, next)
  BY ScaleIsOutcome DEF ReplayDraw, ReplayChecks
<1> QED
  BY <1>1, ReplayIs, ProceedIs

LEMMA ReplayInv == VerifierInv /\ ReplayDraw => VerifierInv'
<1> SUFFICES ASSUME VerifierInv, ReplayDraw PROVE VerifierInv'
  OBVIOUS
<1> DEFINE next == IF Scale(kind) THEN "sources" ELSE "match"
<1>0. /\ DrawOK /\ ControlOK /\ PassedOK /\ SourcesOK /\ pc = "chunks"
      /\ UNCHANGED <<Environment, kind, header, attempts>> /\ header' \in Statuses \cup {"none"}
      /\ UNCHANGED <<draw, world, kind, status, allow, seen, reviews, attempts>>
      /\ kind \in Kinds /\ draw.op = "verify" /\ verdict = "NONE" /\ attempts = <<>>
  BY DEF VerifierInv, ControlOK, SourcesOK, ReplayDraw, Environment
<1>2. CASE ~Passes(ReplayChecks) /\ pc' = "done" /\ verdict' \in CheckCodes
  <2>1. ~Honest
    <3> SUFFICES ASSUME Honest PROVE FALSE
      OBVIOUS
    <3>1. Passes(ArtifactChecks)
      BY <1>0, ArtifactIs DEF Honest
    <3>2. Passes(ReplayChecks)
      BY <1>0, <3>1, ConsistentPasses, ReplayIs, ScaleIsOutcome DEF Honest
    <3> QED
      BY <1>2, <3>2
  <2> QED
    BY <1>0, <1>2, <2>1, Failed
<1>3. CASE Passes(ReplayChecks) /\ pc' = next /\ verdict' = verdict
  <2>1. ControlOK'
    BY <1>0, <1>3 DEF ControlOK, Scale
  <2>2. PassedOK'
    <3>1. /\ Passes(BlobChecks)
          /\ kind = "conditions" => Passes(ConditionsChecks)
          /\ kind = "slot" => Passes(SlotChecks)
          /\ kind \in OutcomeKinds =>
               /\ Passes(RandomnessChecks) /\ Passes(InputChecks) /\ Passes(ResolutionEvidence)
               /\ ~Scale(kind) => Passes(CompactChecks)
      BY <1>0, <1>3, ReplayIs
    <3>2. kind \in {"scaleList", "scaleClaim", "rngScale"} <=> Scale(kind)
      BY DEF Scale
    <3>3. Scale(kind)' = Scale(kind)
      BY <1>0 DEF Scale
    <3> QED
      BY <1>0, <1>3, <3>1, <3>2, <3>3, SameChecks DEF PassedOK, Past
  <2>3. CASE ~Scale(kind)
    BY <1>0, <1>3, <2>1, <2>2, <2>3, WentOn
  <2>4. CASE Scale(kind)
    <3>1. DrawOK' /\ SourceCandidates' = SourceCandidates
      BY <1>0, SameWorld
    <3>2. SourcesOK'
      BY <1>0, <1>3, <2>4, <3>1 DEF SourcesOK
    <3>3. EventIsOurs'
      BY <1>0, <1>3, SameWorld, OursIs DEF VerifierInv
    <3>4. HonestOK' /\ CommitmentIsTheArtifact'
      BY <1>0, <1>3, <2>4 DEF HonestOK, CommitmentIsTheArtifact
    <3> QED
      BY <2>1, <2>2, <3>1, <3>2, <3>3, <3>4 DEF VerifierInv
  <2> QED
    BY <2>3, <2>4
<1> QED
  BY <1>0, <1>2, <1>3, ReplayEnds

LEMMA SourceInv == VerifierInv /\ TrySource => VerifierInv'
<1> SUFFICES ASSUME VerifierInv, TrySource PROVE VerifierInv'
  OBVIOUS
<1> DEFINE source == SourceCandidates[Len(attempts) + 1]
           tried == Append(attempts, source)
<1>0. /\ DrawOK /\ ControlOK /\ PassedOK /\ SourcesOK /\ pc = "sources"
      /\ UNCHANGED <<draw, world, kind, status, allow, seen, reviews, header, verdict>>
      /\ Scale(kind) /\ verdict = "NONE" /\ Len(attempts) < Len(SourceCandidates)
      /\ attempts' = tried /\ pc' = (IF Counts(source) THEN "compare" ELSE "sources")
  BY DEF VerifierInv, ControlOK, TrySource, Environment
<1>1. /\ DrawOK' /\ SourceCandidates' = SourceCandidates /\ \A s : Counts(s)' = Counts(s)
  BY <1>0, SameWorld
<1>2. /\ SourceCandidates \in Seq(Sources) /\ Distinct(SourceCandidates)
      /\ attempts \in Seq(Sources) /\ \A i \in DOMAIN attempts : attempts[i] = SourceCandidates[i]
      /\ Len(attempts) = Cardinality(ToSet(attempts)) /\ \A i \in DOMAIN attempts : ~Counts(attempts[i])
  BY <1>0, CandidatesAre DEF SourcesOK
<1>3. /\ tried \in Seq(Sources) /\ Len(tried) = Len(attempts) + 1
      /\ \A i \in DOMAIN tried : tried[i] = SourceCandidates[i]
      /\ Len(tried) = Cardinality(ToSet(tried)) /\ tried # <<>> /\ Last(tried) = source
  BY <1>0, <1>2, NextSource
<1>4. Len(tried) <= Len(SourceCandidates)
  BY <1>0, <1>2, <1>3, LenProperties
<1>5. pc' = "sources" => \A i \in DOMAIN tried : ~Counts(tried[i])
  <2> SUFFICES ASSUME ~Counts(source), NEW i \in DOMAIN tried PROVE ~Counts(tried[i])
    BY <1>0
  <2>1. i \in 1..Len(attempts) \/ i = Len(attempts) + 1
    BY <1>2, <1>3, LenProperties
  <2>2. DOMAIN attempts = 1..Len(attempts)
    BY <1>2, LenProperties
  <2> QED
    BY <1>2, <1>3, <2>1, <2>2
<1> HIDE DEF tried
<1>6. SourcesOK'
  <2>1. pc' \in {"sources", "compare"} /\ (pc' = "compare" => Counts(source))
    BY <1>0
  <2> QED
    BY <1>0, <1>1, <1>3, <1>4, <1>5, <2>1 DEF SourcesOK
<1>7. ControlOK'
  BY <1>0 DEF ControlOK, Scale
<1>8. PassedOK'
  <2>1. kind' \in OutcomeKinds /\ kind \in OutcomeKinds /\ kind' \notin Attestations
    BY <1>0, ScaleIsOutcome
  <2>2. kind \notin Attestations /\ kind # "conditions" /\ kind # "slot" /\ Scale(kind)'
    BY <1>0, <2>1, ScaleIsOutcome DEF Scale
  <2> QED
    BY <1>0, <2>1, <2>2, SameChecks DEF PassedOK, Past
<1>9. EventIsOurs' /\ HonestOK' /\ CommitmentIsTheArtifact'
  BY <1>0, SameWorld, OursIs DEF VerifierInv, HonestOK, CommitmentIsTheArtifact
<1> QED
  BY <1>1, <1>6, <1>7, <1>8, <1>9 DEF VerifierInv

LEMMA UnavailableInv == VerifierInv /\ SnapshotUnavailable => VerifierInv'
<1> SUFFICES ASSUME VerifierInv, SnapshotUnavailable PROVE VerifierInv'
  OBVIOUS
<1>0. /\ DrawOK /\ ControlOK /\ SourcesOK /\ pc = "sources" /\ Len(attempts) = Len(SourceCandidates)
      /\ UNCHANGED <<Environment, kind, header, attempts>> /\ header' \in Statuses \cup {"none"}
      /\ pc' = "done" /\ verdict' = "ERR_SNAPSHOT_UNAVAILABLE"
  BY DEF VerifierInv, ControlOK, SnapshotUnavailable, Report
<1>1. \A s \in ToSet(SourceCandidates) : ~Counts(s)
  <2>1. DOMAIN SourceCandidates = DOMAIN attempts
    BY <1>0, CandidatesAre, LenProperties DEF SourcesOK
  <2> QED
    BY <1>0, <2>1 DEF SourcesOK, ToSet
<1>2. verdict' \in Refusals /\ verdict' # "COMMITMENT" /\ verdict' \notin NoEventCodes
  BY <1>0 DEF Refusals, NoEventCodes
<1> QED
  BY <1>0, <1>1, <1>2, Refused

LEMMA CompareEnds ==
  ASSUME DrawOK, CompareClaim
  PROVE  LET checks == IF kind = "scaleList" THEN ScaleListChecks ELSE ScaleClaimChecks
         IN  \/ ~Passes(checks) /\ pc' = "done" /\ verdict' \in CheckCodes
             \/ Passes(checks) /\ pc' = "match" /\ verdict' = verdict
<1> DEFINE checks == IF kind = "scaleList" THEN ScaleListChecks ELSE ScaleClaimChecks
<1>1. checks \in Seq(Checks)
  BY ScaleListIs, ScaleClaimIs
<1>2. Proceed(checks, "match")
  BY DEF CompareClaim
<1> QED
  BY <1>1, <1>2, ProceedIs

LEMMA CompareInv == VerifierInv /\ CompareClaim => VerifierInv'
<1> SUFFICES ASSUME VerifierInv, CompareClaim PROVE VerifierInv'
  OBVIOUS
<1> DEFINE checks == IF kind = "scaleList" THEN ScaleListChecks ELSE ScaleClaimChecks
<1>0. /\ DrawOK /\ ControlOK /\ PassedOK /\ SourcesOK /\ pc = "compare"
      /\ UNCHANGED <<Environment, kind, header, attempts>> /\ header' \in Statuses \cup {"none"}
      /\ UNCHANGED <<draw, world, kind, status, allow, seen, reviews, attempts>>
      /\ Scale(kind) /\ draw.op = "verify" /\ verdict = "NONE"
      /\ attempts # <<>> /\ Counts(Last(attempts)) /\ world.inspects
  BY DEF VerifierInv, ControlOK, SourcesOK, CompareClaim, Environment
<1>1. kind \in OutcomeKinds /\ kind \in Kinds /\ kind \notin Attestations /\ kind # "conditions" /\ kind # "slot"
  BY <1>0, ScaleIsOutcome
<1>4. CASE ~Passes(checks) /\ pc' = "done" /\ verdict' \in CheckCodes
  <2>1. ~Honest
    BY <1>0, <1>1, <1>4, ConsistentPasses DEF Honest
  <2> QED
    BY <1>0, <1>4, <2>1, Failed
<1>5. CASE Passes(checks) /\ pc' = "match" /\ verdict' = verdict
  <2>1. ControlOK'
    BY <1>0, <1>5 DEF ControlOK
  <2>2. Scale(kind)' = Scale(kind)
    BY <1>0 DEF Scale
  <2>3. PassedOK'
    BY <1>0, <1>1, <1>5, <2>2, SameChecks DEF PassedOK, Past
  <2> QED
    BY <1>0, <1>5, <2>1, <2>3, WentOn
<1> QED
  BY <1>0, <1>4, <1>5, CompareEnds

LEMMA CommitmentInv == VerifierInv /\ ReadCommitment => VerifierInv'
<1> SUFFICES ASSUME VerifierInv, ReadCommitment PROVE VerifierInv'
  OBVIOUS
<1>0. /\ DrawOK /\ ControlOK /\ pc = "chunks" /\ draw.op = "commitment" /\ ~Honest
      /\ UNCHANGED <<Environment, kind, header, attempts>> /\ header' \in Statuses \cup {"none"} /\ pc' = "done"
  BY DEF VerifierInv, ControlOK, ReadCommitment, Report, Honest
<1>1. "OK" \notin CheckCodes
  BY DEF CheckCodes
<1>2. /\ Passes(BlobChecks) => FirstFailure(BlobChecks) = "OK"
      /\ ~Passes(BlobChecks) => FirstFailure(BlobChecks) \in CheckCodes
  BY <1>1, BlobIs, FirstFailureIs DEF Checks
<1>3. \/ verdict' \in CheckCodes
      \/ verdict' = "COMMITMENT" /\ Passes(BlobChecks)
      \/ verdict' = "THROWS"
  BY <1>1, <1>2 DEF ReadCommitment, Report
<1>4. CASE verdict' \in CheckCodes
  BY <1>0, <1>4, Failed
<1>5. CASE verdict' \in {"COMMITMENT", "THROWS"} /\ (verdict' = "COMMITMENT" => Passes(BlobChecks))
  <2>1. verdict' \in Refusals /\ verdict' \notin NoEventCodes /\ verdict' # "ERR_SNAPSHOT_UNAVAILABLE"
        /\ verdict' # "ERR_EVENT_NOT_FOUND_FOR_PROGRAM"
    BY <1>5 DEF Refusals, NoEventCodes
  <2>2. verdict' = "COMMITMENT" => Equal("blob", "event", {"hash"}) /\ V("chunk", "binding") = 0
    BY <1>5, BlobIs DEF Blob, Equal
  <2> QED
    BY <1>0, <2>1, <2>2, Refused
<1> QED
  BY <1>3, <1>4, <1>5

LEMMA MatchInv == VerifierInv /\ Match => VerifierInv'
<1> SUFFICES ASSUME VerifierInv, Match PROVE VerifierInv'
  OBVIOUS
<1>0. /\ DrawOK /\ ControlOK /\ PassedOK /\ SourcesOK /\ EventIsOurs /\ pc = "match"
      /\ UNCHANGED <<draw, world, kind, status, allow, seen, reviews, header, attempts>>
      /\ pc' = "done" /\ verdict' = "OK"
  BY DEF VerifierInv, Match, Environment, Report
<1>1. DrawOK' /\ SourceCandidates' = SourceCandidates
  BY <1>0, SameWorld
<1>2. ControlOK'
  BY <1>0 DEF ControlOK
<1>3. PassedOK'
  <2>1. Scale(kind)' = Scale(kind)
    BY <1>0 DEF Scale
  <2> QED
    BY <1>0, <2>1, SameChecks DEF PassedOK, Past
<1>4. SourcesOK'
  BY <1>0, <1>1 DEF SourcesOK
<1>5. HonestOK' /\ CommitmentIsTheArtifact'
  BY <1>0 DEF HonestOK, CommitmentIsTheArtifact
<1>6. EventIsOurs'
  BY <1>0, SameWorld, OursIs DEF NoEventCodes
<1> QED
  BY <1>1, <1>2, <1>3, <1>4, <1>5, <1>6 DEF VerifierInv

LEMMA ThrowsInv == VerifierInv /\ RpcThrows => VerifierInv'
<1> SUFFICES ASSUME VerifierInv, RpcThrows PROVE VerifierInv'
  OBVIOUS
<1>0. /\ ControlOK /\ world.flaky /\ pc # "done"
      /\ UNCHANGED <<Environment, kind, header, attempts>> /\ header' \in Statuses \cup {"none"}
      /\ pc' = "done" /\ verdict' = "ERR_REPLAY_UNHANDLED"
  BY DEF VerifierInv, ControlOK, RpcThrows, Report
<1>1. /\ verdict' \in Refusals /\ verdict' # "COMMITMENT" /\ verdict' \notin NoEventCodes
      /\ verdict' # "ERR_EVENT_NOT_FOUND_FOR_PROGRAM" /\ verdict' # "ERR_SNAPSHOT_UNAVAILABLE"
  BY <1>0 DEF Refusals, CheckCodes, NoEventCodes
<1> QED
  BY <1>0, <1>1, Refused

LEMMA InspectInv == VerifierInv /\ InspectThrows => VerifierInv'
<1> SUFFICES ASSUME VerifierInv, InspectThrows PROVE VerifierInv'
  OBVIOUS
<1>0. /\ ControlOK /\ Scale(kind) /\ ~world.inspects /\ pc # "done"
      /\ UNCHANGED <<Environment, kind, header, attempts>> /\ header' \in Statuses \cup {"none"}
      /\ pc' = "done" /\ verdict' = "ERR_REPLAY_UNHANDLED"
  BY DEF VerifierInv, ControlOK, InspectThrows, Report
<1>1. /\ verdict' \in Refusals /\ verdict' # "COMMITMENT" /\ verdict' \notin NoEventCodes
      /\ verdict' # "ERR_EVENT_NOT_FOUND_FOR_PROGRAM" /\ verdict' # "ERR_SNAPSHOT_UNAVAILABLE"
  BY <1>0 DEF Refusals, CheckCodes, NoEventCodes
<1> QED
  BY <1>0, <1>1, Refused

\* The admin's changes touch neither the draw nor the verification.
LEMMA ReviewInv == VerifierInv /\ Review => VerifierInv'
<1> SUFFICES ASSUME VerifierInv, Review PROVE VerifierInv'
  OBVIOUS
<1>0. /\ DrawOK /\ ControlOK /\ PassedOK /\ SourcesOK /\ EventIsOurs /\ HonestOK /\ CommitmentIsTheArtifact
      /\ UNCHANGED <<draw, world, pc, kind, header, attempts, verdict>>
  BY DEF VerifierInv, Review
<1>1. DrawOK' /\ SourceCandidates' = SourceCandidates /\ \A s : Counts(s)' = Counts(s)
  BY <1>0, SameWorld
<1>2. ControlOK'
  <2>0. /\ status \in Statuses /\ allow \in BOOLEAN /\ seen \subseteq BOOLEAN
        /\ seen' = seen \cup {StatusAllowsBinding(status', allow')}
        /\ reviews \in Nat /\ reviews > 0 /\ reviews' = reviews - 1
    BY <1>0 DEF Review, ControlOK
  <2>1. StatusAllowsBinding(status', allow') \in BOOLEAN
    BY DEF StatusAllowsBinding
  <2>2. status' \in Statuses /\ allow' \in BOOLEAN
    BY <2>0 DEF Review
  <2>3. reviews' \in Nat /\ seen' \subseteq BOOLEAN
    BY <2>0, <2>1
  <2>4. status' \in Statuses /\ allow' \in BOOLEAN /\ reviews' \in Nat /\ seen' \subseteq BOOLEAN
    BY <2>2, <2>3
  <2> QED
    BY <1>0, <2>4 DEF ControlOK, Scale
<1>3. PassedOK'
  <2>1. Scale(kind)' = Scale(kind)
    BY <1>0 DEF Scale
  <2> QED
    BY <1>0, <2>1, SameChecks DEF PassedOK, Past
<1>4. SourcesOK'
  <2>1. Scale(kind)' = Scale(kind)
    BY <1>0 DEF Scale
  <2> QED
    BY <1>0, <1>1, <2>1 DEF SourcesOK
<1>5. HonestOK'
  BY <1>0, SameHonest DEF HonestOK
<1>6. EventIsOurs' /\ CommitmentIsTheArtifact'
  BY <1>0, SameWorld, OursIs DEF CommitmentIsTheArtifact
<1> QED
  BY <1>1, <1>2, <1>3, <1>4, <1>5, <1>6 DEF VerifierInv

LEMMA VerifierStepInv == VerifierInv /\ [VerifierNext]_verifierVars => VerifierInv'
<1> SUFFICES ASSUME VerifierInv, [VerifierNext]_verifierVars PROVE VerifierInv'
  OBVIOUS
<1>1. CASE VerifierNext
  BY <1>1, LogsInv, ConfigInv, ResolutionInv, StateInv, HeaderInv, AllowInv, ReplayInv, SourceInv,
     UnavailableInv, InspectInv, CompareInv, CommitmentInv, MatchInv, ThrowsInv, ReviewInv DEF VerifierNext
<1>2. CASE UNCHANGED verifierVars
  <2>0. /\ DrawOK /\ ControlOK /\ PassedOK /\ SourcesOK /\ EventIsOurs /\ HonestOK /\ CommitmentIsTheArtifact
        /\ UNCHANGED <<draw, world, pc, kind, status, allow, reviews, seen, header, attempts, verdict>>
    BY <1>2 DEF VerifierInv, verifierVars
  <2>1. DrawOK' /\ SourceCandidates' = SourceCandidates /\ \A s : Counts(s)' = Counts(s)
    BY <2>0, SameWorld
  <2>2. Scale(kind)' = Scale(kind)
    BY <2>0 DEF Scale
  <2>3. ControlOK'
    BY <2>0, <2>2 DEF ControlOK
  <2>4. PassedOK'
    BY <2>0, <2>2, SameChecks DEF PassedOK, Past
  <2>5. SourcesOK'
    BY <2>0, <2>1, <2>2 DEF SourcesOK
  <2>6. HonestOK'
    BY <2>0, SameHonest DEF HonestOK
  <2>7. EventIsOurs' /\ CommitmentIsTheArtifact'
    BY <2>0, SameWorld, OursIs DEF CommitmentIsTheArtifact
  <2> QED
    BY <2>1, <2>3, <2>4, <2>5, <2>6, <2>7 DEF VerifierInv
<1> QED
  BY <1>1, <1>2

\* The invariant of a verification, from the logs to the verdict: what the checks
\* behind it established, which sources were tried, and why it ended.
THEOREM VerifierInductive == VerifierSpec => []VerifierInv
  BY VerifierInitInv, VerifierStepInv, PTL DEF VerifierSpec

-----------------------------------------------------------------------------
(* What the verdicts mean. *)

\* A MATCH is reported only when every list of checks of its kind is passed.
LEMMA MatchSound == VerifierInv => MatchIsConsistent
<1>a. VerifierInv /\ verdict = "OK" => (Scale(kind) => world.inspects)
  BY DEF VerifierInv, PassedOK, Past
<1> SUFFICES ASSUME VerifierInv, verdict = "OK" PROVE Consistent(kind)
  BY <1>a DEF MatchIsConsistent
<1>0. DrawOK /\ PassedOK /\ kind \in Kinds /\ draw.op = "verify"
  BY DEF VerifierInv, ControlOK
<1>1. Passes(BlobChecks)
  BY <1>0 DEF PassedOK, Past
<1>2. CASE kind \in Attestations
  <2>1. /\ Equal("config", "event", {"hash"}) /\ Passes(SlotBindingChecks)
        /\ kind = "conditions" => Passes(ConditionsChecks)
        /\ kind = "slot" => Passes(SlotChecks)
    BY <1>0, <1>2 DEF PassedOK, Past
  <2> QED
    BY <1>0, <1>1, <1>2, <2>1, ConditionsConsistent, SlotConsistent DEF Attestations
<1>3. CASE kind \in OutcomeKinds
  <2>1. /\ Passes(BindingChecks) /\ Passes(RandomnessChecks) /\ Passes(InputChecks)
        /\ Passes(ResolutionEvidence)
    BY <1>0, <1>3 DEF PassedOK, Past
  <2>2. /\ ~Scale(kind) => Passes(CompactChecks)
        /\ kind = "scaleList" => Passes(ScaleListChecks)
        /\ kind \in {"scaleClaim", "rngScale"} => Passes(ScaleClaimChecks)
    BY <1>0, <1>3 DEF PassedOK, Past
  <2>3. /\ AsReplayed("output", Replayed) /\ AsReplayed("id", Replayed) /\ AsReplayed("effects", Replayed)
        /\ AsReplayed("winnerCount", FromArtifact)
        /\ kind # "scaleList" => AsReplayed("claim", Replayed)
        /\ kind \notin {"scaleClaim", "rngScale"} => AsReplayed("ids", Replayed)
    BY <1>0, <1>3, <2>2, CompactIs, ScaleListIs, ScaleClaimIs DEF Scale
  <2>4. \A f : f \notin EventFields(kind) /\ f \notin ResolutionV4 => AsReplayed(f, Replayed)
    BY HasIs DEF AsReplayed
  <2>5. kind = "scaleList" => AsReplayed("claim", Replayed)
    <3>1. kind = "scaleList" => ~RngV2(kind) /\ "claim" \notin EventFields(kind)
      BY <1>3, OutcomeFields DEF RngV2
    <3> QED
      BY <1>3, <3>1, HasIs DEF AsReplayed
  <2>6. kind \in {"scaleClaim", "rngScale"} => AsReplayed("ids", Replayed)
    <3>1. kind \in {"scaleClaim", "rngScale"} => "ids" \notin EventFields(kind)
      BY <1>3, OutcomeFields
    <3>2. "ids" \notin ResolutionV4
      BY DEF ResolutionV4, Bound, Result, Evidence
    <3> QED
      BY <2>4, <3>1, <3>2
  <2> QED
    BY <1>0, <1>1, <1>3, <2>1, <2>3, <2>5, <2>6, OutcomeConsistent
<1> QED
  BY <1>0, <1>2, <1>3 DEF Kinds, Attestations

LEMMA VerifierSound == VerifierInv => VerdictSound
<1> SUFFICES ASSUME VerifierInv PROVE VerdictSound
  OBVIOUS
<1>1. VerifierTypeOK
  <2>1. attempts \in Seq(Sources) => ToSet(attempts) \subseteq Sources
    BY ElementOfSeq, LenProperties DEF ToSet
  <2> QED
    BY <2>1 DEF VerifierInv, ControlOK, SourcesOK, VerifierTypeOK
<1> QED
  BY <1>1, MatchSound DEF VerifierInv, VerdictSound

\* A MATCH means that event, config, resolution, state, header and artifact agree
\* on all they share and that the recorded result is the one the recorded inputs
\* give; the event is one the program emitted itself, none of its own is
\* overlooked, and a commitment is the artifact the event names
\* (verifyOutcomeStrict, verifyConditions, verifySlot, fetchSnapshotCommitment).
THEOREM VerdictAlwaysSound == VerifierSpec => []VerdictSound
  BY VerifierInductive, VerifierSound, PTL

LEMMA SourcesSound == VerifierInv => AnySourceSuffices
  BY DEF VerifierInv, SourcesOK, AnySourceSuffices, Counts

\* A scale draw is replayed over the committed snapshot, whatever earlier sources
\* answered, and the snapshot is called unavailable only when no source of the
\* list serves it (fetchCommittedSnapshot).
THEOREM AnySourceAlwaysSuffices == VerifierSpec => []AnySourceSuffices
  BY VerifierInductive, SourcesSound, PTL

-----------------------------------------------------------------------------
(* The status is read before the flag: with one change at most meanwhile, the *)
(* pair is one that was true.                                                 *)

LEMMA StatusInit == OneReview /\ VerifierInit => StatusOK
<1> SUFFICES ASSUME OneReview, VerifierInit PROVE StatusOK
  OBVIOUS
<1>1. /\ reviews \in {0, 1} /\ StatusAllowsBinding(status, allow) \in seen
      /\ pc = "logs" /\ verdict = "NONE"
  BY DEF VerifierInit, OneReview
<1> QED
  BY <1>1 DEF StatusOK, Past

\* No step but ReadAllowUnreviewed takes a verification of an outcome event past
\* the status, or refuses it because of it.
StatusBlind ==
  /\ UNCHANGED <<draw, status, allow, reviews, seen>> /\ pc' # "allow"
  /\ verdict' # "ERR_ARTIFACT_STATUS_INVALID" \/ UNCHANGED verdict
  /\ Past({"chunks", "sources", "compare", "match"})' =>
       \/ UNCHANGED kind /\ Past({"chunks", "sources", "compare", "match"})
       \/ ~(kind' \in OutcomeKinds /\ draw.op = "verify")

LEMMA BlindStep == StatusOK /\ StatusBlind => StatusOK'
<1> SUFFICES ASSUME StatusOK, StatusBlind PROVE StatusOK'
  OBVIOUS
<1>1. (StatusAllowsBinding(status, allow) \in seen)'
  BY DEF StatusOK, StatusBlind
<1> QED
  BY <1>1 DEF StatusOK, StatusBlind, Past

LEMMA CodesAreNoStatus ==
  ASSUME NEW c \in CheckCodes \cup FetchCodes \cup NoEventCodes
  PROVE  c # "ERR_ARTIFACT_STATUS_INVALID" /\ c # "OK" /\ c # "NONE"
  BY DEF CheckCodes, FetchCodes, NoEventCodes

LEMMA EarlyBlind ==
  VerifierInv /\ (FetchTransactionLogs \/ FetchOutcomeConfig \/ FetchDecodedOutcomeResolution
                    \/ FetchDecodedRngV2State \/ RpcThrows) => StatusBlind
<1> SUFFICES ASSUME VerifierInv PROVE
        FetchTransactionLogs \/ FetchOutcomeConfig \/ FetchDecodedOutcomeResolution
          \/ FetchDecodedRngV2State \/ RpcThrows => StatusBlind
  OBVIOUS
<1>0. (pc = "done" <=> verdict # "NONE") /\ ControlOK
  BY DEF VerifierInv, ControlOK
<1>1. ASSUME FetchTransactionLogs PROVE StatusBlind
  <2>1. /\ UNCHANGED <<draw, status, allow, reviews, seen>> /\ verdict = "NONE"
        /\ pc' \in {"done", "config", "header"}
        /\ verdict' \in {"NONE", "ERR_TX_NOT_FOUND_OR_NO_LOGS"} \cup NoEventCodes
    BY <1>0, <1>1 DEF FetchTransactionLogs, Environment, Report, NoEvent, NoEventCodes
  <2> QED
    BY <2>1 DEF StatusBlind, Past, NoEventCodes
<1>2. ASSUME FetchOutcomeConfig PROVE StatusBlind
  <2>1. /\ UNCHANGED <<draw, status, allow, reviews, seen>> /\ verdict = "NONE"
    BY <1>0, <1>2 DEF FetchOutcomeConfig, Environment
  <2>2. /\ pc' \in {"done", "resolution", "header"}
        /\ verdict' = "NONE" \/ verdict' \in CheckCodes \cup FetchCodes
    BY <1>2, <2>1, ConfigEnds DEF FetchCodes
  <2> QED
    BY <2>1, <2>2, CodesAreNoStatus DEF StatusBlind, Past
<1>3. ASSUME FetchDecodedOutcomeResolution PROVE StatusBlind
  <2>1. /\ UNCHANGED <<draw, status, allow, reviews, seen>> /\ verdict = "NONE"
    BY <1>0, <1>3 DEF FetchDecodedOutcomeResolution, Environment
  <2>2. \/ pc' = "done" /\ verdict' = "ERR_RESOLUTION_ACCOUNT_NOT_FOUND"
        \/ Proceed(<<>>, IF RngV2(kind) THEN "state" ELSE "header")
    BY <1>3 DEF FetchDecodedOutcomeResolution, Fetch, Report
  <2>3. /\ pc' \in {"done", "state", "header"}
        /\ verdict' = "NONE" \/ verdict' \in CheckCodes \cup FetchCodes
    BY <2>1, <2>2, NoChecks, ProceedIs DEF FetchCodes
  <2> QED
    BY <2>1, <2>3, CodesAreNoStatus DEF StatusBlind, Past
<1>4. ASSUME FetchDecodedRngV2State PROVE StatusBlind
  <2>1. /\ UNCHANGED <<draw, status, allow, reviews, seen>> /\ verdict = "NONE"
    BY <1>0, <1>4 DEF FetchDecodedRngV2State, Environment
  <2>2. \/ pc' = "done" /\ verdict' = "ERR_RNG_V2_STATE_MISMATCH"
        \/ Proceed(<<>>, "header")
    BY <1>4 DEF FetchDecodedRngV2State, Fetch, Report
  <2>3. /\ pc' \in {"done", "header"}
        /\ verdict' = "NONE" \/ verdict' \in CheckCodes \cup FetchCodes
    BY <2>1, <2>2, NoChecks, ProceedIs DEF FetchCodes
  <2> QED
    BY <2>1, <2>3, CodesAreNoStatus DEF StatusBlind, Past
<1>5. ASSUME RpcThrows PROVE StatusBlind
  BY <1>5 DEF RpcThrows, Report, Environment, StatusBlind, Past
<1> QED
  BY <1>1, <1>2, <1>3, <1>4, <1>5

LEMMA LateBlind ==
  VerifierInv /\ (ReplayDraw \/ TrySource \/ SnapshotUnavailable \/ InspectThrows \/ CompareClaim \/ ReadCommitment
        \/ Match) =>
    StatusBlind
<1> SUFFICES ASSUME VerifierInv PROVE
        ReplayDraw \/ TrySource \/ SnapshotUnavailable \/ InspectThrows \/ CompareClaim \/ ReadCommitment
        \/ Match => StatusBlind
  OBVIOUS
<1>0. /\ (pc = "done" <=> verdict # "NONE") /\ ControlOK /\ DrawOK
      /\ pc \notin {"logs", "done"} => kind \in Kinds
  BY DEF VerifierInv, ControlOK
<1>1. ASSUME ReplayDraw PROVE StatusBlind
  <2>1. /\ UNCHANGED <<draw, status, allow, reviews, seen, kind>> /\ verdict = "NONE" /\ pc = "chunks"
    BY <1>0, <1>1 DEF ReplayDraw, Environment
  <2>2. /\ pc' \in {"done", "sources", "match"}
        /\ verdict' = "NONE" \/ verdict' \in CheckCodes
    BY <1>0, <1>1, <2>1, ReplayEnds
  <2> QED
    BY <2>1, <2>2, CodesAreNoStatus DEF StatusBlind, Past
<1>2. ASSUME TrySource PROVE StatusBlind
  BY <1>2 DEF TrySource, Environment, StatusBlind, Past
<1>3. ASSUME SnapshotUnavailable PROVE StatusBlind
  BY <1>3 DEF SnapshotUnavailable, Report, Environment, StatusBlind, Past
<1>4. ASSUME CompareClaim PROVE StatusBlind
  <2>1. /\ UNCHANGED <<draw, status, allow, reviews, seen, kind>> /\ verdict = "NONE" /\ pc = "compare"
    BY <1>0, <1>4 DEF CompareClaim, Environment
  <2>2. /\ pc' \in {"done", "match"}
        /\ verdict' = "NONE" \/ verdict' \in CheckCodes
    BY <1>0, <1>4, <2>1, CompareEnds
  <2> QED
    BY <2>1, <2>2, CodesAreNoStatus DEF StatusBlind, Past
<1>5. ASSUME ReadCommitment PROVE StatusBlind
  <2>1. /\ UNCHANGED <<draw, status, allow, reviews, seen, kind>> /\ verdict = "NONE" /\ pc = "chunks"
        /\ pc' = "done"
    BY <1>0, <1>5 DEF ReadCommitment, Environment, Report
  <2>2. FirstFailure(BlobChecks) = "OK" \/ FirstFailure(BlobChecks) \in CheckCodes
    BY BlobIs, FirstFailureIs DEF Checks, CheckCodes
  <2>3. verdict' \in CheckCodes \/ verdict' \in {"COMMITMENT", "THROWS"}
    BY <1>5, <2>2 DEF ReadCommitment, Report
  <2> QED
    BY <2>1, <2>3, CodesAreNoStatus DEF StatusBlind, Past
<1>6. ASSUME Match PROVE StatusBlind
  BY <1>6 DEF Match, Report, Environment, StatusBlind, Past
<1>7. ASSUME InspectThrows PROVE StatusBlind
  BY <1>7 DEF InspectThrows, Report, Environment, StatusBlind, Past
<1> QED
  BY <1>1, <1>2, <1>3, <1>4, <1>5, <1>6, <1>7

\* The status that is read was true with the flag of that moment.
LEMMA HeaderStatus == VerifierInv /\ StatusOK /\ FetchArtifactHeader => StatusOK'
<1> SUFFICES ASSUME VerifierInv, StatusOK, FetchArtifactHeader PROVE StatusOK'
  OBVIOUS
<1>0. /\ UNCHANGED <<draw, status, allow, reviews, seen, kind>> /\ verdict = "NONE" /\ header' = status
      /\ status \in Statuses /\ allow \in BOOLEAN /\ kind \in Kinds /\ DrawOK
  BY DEF VerifierInv, ControlOK, FetchArtifactHeader, Environment
<1>1. \/ pc' = "done" /\ verdict' \in CheckCodes \cup FetchCodes
      \/ /\ verdict' = "NONE"
         /\ pc' = IF draw.op = "verify" /\ kind \in OutcomeKinds THEN "allow" ELSE "chunks"
  BY <1>0, HeaderEnds DEF FetchCodes
<1>2. verdict' # "ERR_ARTIFACT_STATUS_INVALID" /\ verdict' # "OK"
  BY <1>1, CodesAreNoStatus
<1>3. reviews \in {0, 1} /\ StatusAllowsBinding(status, allow) \in seen
  BY DEF StatusOK
<1>4. /\ header' \in Statuses /\ StatusAllowsBinding(header', allow) \in seen'
      /\ status' = header' /\ allow' = allow
      /\ StatusAllowsBinding(status', allow') \in seen' /\ reviews' \in {0, 1}
  BY <1>0, <1>3
<1>5. ~(kind' \in OutcomeKinds /\ draw'.op = "verify" /\ Past({"chunks", "sources", "compare", "match"})')
  BY <1>0, <1>1, <1>2 DEF Past
<1> QED
  BY <1>0, <1>2, <1>4, <1>5 DEF StatusOK

\* A flag read after one change still fits the status or replaces the pair.
LEMMA AllowStatus == VerifierInv /\ StatusOK /\ ReadAllowUnreviewed => StatusOK'
<1> SUFFICES ASSUME VerifierInv, StatusOK, ReadAllowUnreviewed PROVE StatusOK'
  OBVIOUS
<1>0. /\ UNCHANGED <<draw, status, allow, reviews, seen, kind>> /\ verdict = "NONE" /\ pc = "allow"
      /\ status \in Statuses /\ allow \in BOOLEAN
  BY DEF VerifierInv, ControlOK, ReadAllowUnreviewed, Environment
<1>1. PICK flag \in BOOLEAN :
         /\ header \in Statuses /\ StatusAllowsBinding(header, flag) \in seen
         /\ status = header \/ allow = flag
  BY <1>0 DEF StatusOK
<1>2. reviews \in {0, 1} /\ StatusAllowsBinding(status, allow) \in seen
  BY DEF StatusOK
<1>3. \/ StatusAllowed = StatusAllowsBinding(header, flag)
      \/ StatusAllowed = StatusAllowsBinding(status, allow)
  BY <1>0, <1>1 DEF StatusAllowed, StatusAllowsBinding, Statuses
<1>4. StatusAllowed \in seen /\ StatusAllowed \in BOOLEAN
  BY <1>1, <1>2, <1>3 DEF StatusAllowed, StatusAllowsBinding
<1>5. \/ StatusAllowed /\ pc' = "chunks" /\ verdict' = verdict
      \/ ~StatusAllowed /\ pc' = "done" /\ verdict' = "ERR_ARTIFACT_STATUS_INVALID"
  BY AllowOutcome DEF ReadAllowUnreviewed
<1>6. \/ TRUE \in seen' /\ pc' = "chunks" /\ verdict' = "NONE"
      \/ FALSE \in seen' /\ pc' = "done" /\ verdict' = "ERR_ARTIFACT_STATUS_INVALID"
  BY <1>0, <1>4, <1>5
<1>7. StatusAllowsBinding(status', allow') \in seen' /\ reviews' \in {0, 1}
  BY <1>0, <1>2
<1> QED
  BY <1>6, <1>7 DEF StatusOK, Past

\* One change leaves the status or the flag as it was read.
LEMMA ReviewStatus == VerifierInv /\ StatusOK /\ Review => StatusOK'
<1> SUFFICES ASSUME VerifierInv, StatusOK, Review PROVE StatusOK'
  OBVIOUS
<1>0. /\ UNCHANGED <<draw, world, pc, kind, header, attempts, verdict>>
      /\ seen' = seen \cup {StatusAllowsBinding(status', allow')}
      /\ UNCHANGED status \/ UNCHANGED allow
      /\ reviews \in {0, 1} /\ reviews > 0 /\ reviews' = reviews - 1
  BY DEF Review, StatusOK
<1>1. reviews = 1 /\ reviews' = 0
  BY <1>0
<1>2. seen \subseteq seen' /\ StatusAllowsBinding(status', allow') \in seen'
  BY <1>0
<1>3. pc' = "allow" =>
        \E flag \in BOOLEAN :
          /\ header' \in Statuses /\ StatusAllowsBinding(header', flag) \in seen'
          /\ status' = header' \/ allow' = flag
  <2> SUFFICES ASSUME pc = "allow"
               PROVE  \E flag \in BOOLEAN :
                        /\ header' \in Statuses /\ StatusAllowsBinding(header', flag) \in seen'
                        /\ status' = header' \/ allow' = flag
    BY <1>0
  <2>1. PICK flag \in BOOLEAN :
           /\ header \in Statuses /\ StatusAllowsBinding(header, flag) \in seen
           /\ status = header /\ allow = flag
    BY <1>1 DEF StatusOK
  <2>2. StatusAllowsBinding(header', flag) \in seen'
    BY <1>0, <1>2, <2>1
  <2> QED
    BY <1>0, <2>1, <2>2
<1>4. Past({"chunks", "sources", "compare", "match"})' = Past({"chunks", "sources", "compare", "match"})
  BY <1>0 DEF Past
<1>5. kind' \in OutcomeKinds /\ draw'.op = "verify" /\ Past({"chunks", "sources", "compare", "match"})' => TRUE \in seen'
  BY <1>0, <1>2, <1>4 DEF StatusOK
<1>6. verdict' = "ERR_ARTIFACT_STATUS_INVALID" => FALSE \in seen'
  BY <1>0, <1>2 DEF StatusOK
<1>7. reviews' \in {0, 1} /\ reviews' # 1
  BY <1>1
<1>8. pc' = "allow" =>
        \E flag \in BOOLEAN :
          /\ header' \in Statuses /\ StatusAllowsBinding(header', flag) \in seen'
          /\ reviews' = 1 => status' = header' /\ allow' = flag
          /\ status' = header' \/ allow' = flag
  BY <1>3, <1>7, Zenon
<1> QED
  BY <1>2, <1>5, <1>6, <1>7, <1>8, Zenon DEF StatusOK

LEMMA StatusStep == VerifierInv /\ StatusOK /\ [VerifierNext]_verifierVars => StatusOK'
<1> SUFFICES ASSUME VerifierInv, StatusOK, [VerifierNext]_verifierVars PROVE StatusOK'
  OBVIOUS
<1>1. CASE VerifierNext
  BY <1>1, BlindStep, EarlyBlind, LateBlind, HeaderStatus, AllowStatus, ReviewStatus DEF VerifierNext
<1>2. CASE UNCHANGED verifierVars
  <2>1. UNCHANGED <<draw, world, pc, kind, status, allow, reviews, seen, header, attempts, verdict>>
    BY <1>2 DEF verifierVars
  <2> QED
    BY <2>1 DEF StatusOK, Past
<1> QED
  BY <1>1, <1>2

\* A verdict that rests on the review status was true at some moment of the
\* verification, though the status is read before the flag, when the admin makes
\* at most one change meanwhile (fetchArtifactHeader, then the ProgramConfig).
THEOREM StatusAlwaysTrueAtSomeMoment ==
  ASSUME OneReview
  PROVE  VerifierSpec => []StatusTrueAtSomeMoment
<1>1. VerifierInit => StatusOK
  BY StatusInit
<1>2. VerifierInv /\ StatusOK => StatusTrueAtSomeMoment
  BY DEF VerifierInv, ControlOK, StatusOK, Past, StatusTrueAtSomeMoment
<1> QED
  BY <1>1, <1>2, VerifierInductive, StatusStep, PTL DEF VerifierSpec

\* No check refuses what the program writes: a draw nothing speaks against
\* matches unless the node or the disk throws, the artifact could not be bound at
\* some moment, or the snapshot is unavailable or not the one its own count and
\* root describe (all comparisons of verifyOutcome, in the order they are made).
THEOREM ConsistentAlwaysMatches ==
  ASSUME OneReview
  PROVE  VerifierSpec => []ConsistentMatches
<1>1. VerifierInit => StatusOK
  BY StatusInit
<1>2. VerifierInv /\ StatusOK => ConsistentMatches
  BY DEF VerifierInv, HonestOK, Honest, StatusOK, ConsistentMatches
<1> QED
  BY <1>1, <1>2, VerifierInductive, StatusStep, PTL DEF VerifierSpec

=============================================================================
