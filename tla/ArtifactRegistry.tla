--------------------------- MODULE ArtifactRegistry ---------------------------
(***************************************************************************)
(* The registry of compiled artifacts: a publisher submits a hash, uploads *)
(* the blob in chunks and finalizes it, the program's admin reviews it,    *)
(* and anyone binds a new runtime to it                                    *)
(* (programs/outcome/src/instructions/*compiled_artifact*,                 *)
(* *program_config*, initialize_outcome_config.rs).                        *)
(*                                                                         *)
(* Hashes are ideal: a hash names one blob, Blobs[h], that nobody can      *)
(* exchange.  What the parsers say about a blob is a constant of the blob. *)
(***************************************************************************)
EXTENDS ArtifactStatus, Naturals, Sequences, SequencesExt

CONSTANTS
  Keys, UpgradeAuthority, \* signers; the one the loader names
  Hashes,        \* compiled_artifact_hash values
  Blobs,         \* the blob behind a hash, a sequence of Bytes
  FormatOf,      \* the format the parsers recognise in it, "junk" for none
  BandOf,        \* the input band in its header
  Bytes,         \* values of a byte
  Formats,       \* formats submit accepts
  ScaleFormats,  \* the ones parse_snapshot_v4 reads (4, 6, 7)
  DeclaredLens,  \* blob lengths publishers declare
  ChunkSize,     \* CHUNK_SIZE (1024)
  MaxChunks,     \* MAX_CHUNKS (8); MAX_COMPILED_ARTIFACT_BYTES is their product
  MaxWrite,      \* MAX_WRITE_CHUNK_BYTES (900)
  Bands,         \* input bands initialize_outcome_config is called with
  AllowChoices, Reviews, \* what the admin sets allow and a status to
  Runtimes       \* runtime ids

ASSUME KeysAssumption == UpgradeAuthority \in Keys
ASSUME BlobsAssumption ==
  /\ Blobs \in [Hashes -> Seq(Bytes)] /\ BandOf \in [Hashes -> Bands]
  /\ ScaleFormats \subseteq Formats /\ "junk" \notin Formats
  /\ FormatOf \in [Hashes -> Formats \cup {"junk"}]
ASSUME SizesAssumption ==
  /\ ChunkSize \in Nat \ {0} /\ MaxChunks \in Nat /\ MaxWrite \in Nat \ {0}
  /\ DeclaredLens \subseteq Nat
ASSUME RegistryChoicesAssumption ==
  AllowChoices \subseteq BOOLEAN /\ Reviews \subseteq Statuses

VARIABLES
  config,     \* ProgramConfig: admin and allow_unreviewed_binding
  artifact,   \* ApprovedOutcomeArtifact per hash
  chunk,      \* ApprovedOutcomeArtifactChunk per hash and index: whether the
              \* account exists, and data[..written_len]
  runtime,    \* OutcomeConfig per runtime id
  funded      \* runtime ids whose vault address holds lamports

vars == <<config, artifact, chunk, runtime, funded>>

NoConfig == [admin |-> "none"]
NoArtifact == [status |-> "none"]
NoChunk == [made |-> FALSE, data |-> <<>>]
NoRuntime == [hash |-> "none"]

Indices == 0..(MaxChunks - 1)

-----------------------------------------------------------------------------
(* Helpers. *)

\* chunk_count_for_blob: ceil(len / CHUNK_SIZE), at most MAX_CHUNKS.
ChunkCount(len) == (len + ChunkSize - 1) \div ChunkSize

\* expected_chunk_len, for an index below chunk_count.
\* Mutant: all that is left of the blob.
ChunkUnbounded(len, i) == len - i * ChunkSize
ExpectedChunkLen(len, i) ==
  IF len - i * ChunkSize < ChunkSize THEN len - i * ChunkSize ELSE ChunkSize

\* The part of a blob that belongs in chunk i.
Slice(blob, i) ==
  SubSeq(blob, i * ChunkSize + 1,
         IF Len(blob) < (i + 1) * ChunkSize THEN Len(blob) ELSE (i + 1) * ChunkSize)

\* What init_chunk, write_chunk and finalize all require.
\* Mutant: a rejected artifact can still be uploaded.
UploadableReviewed(h, a) ==
  artifact[h] # NoArtifact /\ ~artifact[h].finalized /\ artifact[h].publisher = a
Uploadable(h, a) ==
  /\ artifact[h] # NoArtifact /\ artifact[h].status = "PENDING"
  /\ ~artifact[h].finalized /\ artifact[h].publisher = a

\* load_blob_from_remaining succeeds: every chunk exists and is full.
ChunksComplete(h) ==
  \A i \in 0..(artifact[h].chunk_count - 1) :
    chunk[h][i].made /\ Len(chunk[h][i].data) = ExpectedChunkLen(artifact[h].blob_len, i)

\* sha256 of the loaded blob is the hash: it is the blob of that hash.
\* Mutant: only the length is compared.
LengthMatches(h) == artifact[h].blob_len = Len(Blobs[h])
HashMatches(h) ==
  /\ artifact[h].blob_len = Len(Blobs[h])
  /\ \A i \in 0..(artifact[h].chunk_count - 1) : chunk[h][i].data = Slice(Blobs[h], i)

\* The parser finalize and bind choose by the declared format accepts the
\* blob; the one for the scale formats does not compare the version.
ParsesAs(declared, actual) ==
  IF declared \in ScaleFormats THEN actual \in ScaleFormats ELSE actual = declared

\* Where a write goes.  Mutant: a chunk is written in one piece.
OnlyOnce(h, i, offset) == offset = 0 /\ chunk[h][i].data = <<>>
AtTheEnd(h, i, offset) == offset = Len(chunk[h][i].data)

\* Mutant of Binding: a runtime may be bound while the upload is going on.
BindsUnfinalized(h) == StatusAllowsBinding(artifact[h].status, config.allow)
Binding(h) ==
  artifact[h].finalized /\ StatusAllowsBinding(artifact[h].status, config.allow)

\* Mutant of Reviewable: the admin need not wait for the upload.
ReviewsUploads(h, new) == MayReview(artifact[h].status, TRUE, new)
Reviewable(h, new) == MayReview(artifact[h].status, artifact[h].finalized, new)

-----------------------------------------------------------------------------
Init ==
  /\ config = NoConfig
  /\ artifact = [h \in Hashes |-> NoArtifact]
  /\ chunk = [h \in Hashes |-> [i \in Indices |-> NoChunk]]
  /\ runtime = [r \in Runtimes |-> NoRuntime]
  /\ funded = {}

(* Program configuration. *)

\* Only the upgrade authority of the program can create the configuration.
InitializeProgramConfig(a) ==
  /\ config = NoConfig /\ a = UpgradeAuthority
  /\ config' = [admin |-> a, allow |-> FALSE]
  /\ UNCHANGED <<artifact, chunk, runtime, funded>>

SetProgramConfig(a, new, allow) ==
  /\ config # NoConfig /\ a = config.admin
  /\ config' = [admin |-> new, allow |-> allow]
  /\ UNCHANGED <<artifact, chunk, runtime, funded>>

\* The upgrade authority takes the configuration back from a lost admin key.
RecoverProgramConfigAdmin(a, new) ==
  /\ config # NoConfig /\ a = UpgradeAuthority
  /\ config' = [config EXCEPT !.admin = new]
  /\ UNCHANGED <<artifact, chunk, runtime, funded>>

-----------------------------------------------------------------------------
(* Upload. *)

\* The first to submit a hash is its publisher: accounts are never closed.
SubmitCompiledArtifact(a, h, format, len) ==
  /\ artifact[h] = NoArtifact
  /\ len > 0 /\ len <= ChunkSize * MaxChunks /\ ChunkCount(len) <= MaxChunks
  /\ artifact' = [artifact EXCEPT ![h] =
       [publisher |-> a, status |-> "PENDING", finalized |-> FALSE,
        format |-> format, blob_len |-> len, chunk_count |-> ChunkCount(len)]]
  /\ UNCHANGED <<config, chunk, runtime, funded>>

InitCompiledArtifactChunk(a, h, i) ==
  /\ Uploadable(h, a) /\ i < artifact[h].chunk_count
  /\ ~chunk[h][i].made
  /\ chunk' = [chunk EXCEPT ![h][i].made = TRUE]
  /\ UNCHANGED <<config, artifact, runtime, funded>>

\* data lands at offset, which must be the end of what is written.
WriteCompiledArtifactChunk(a, h, i, offset, data) ==
  /\ Uploadable(h, a) /\ i < artifact[h].chunk_count
  /\ data # <<>> /\ Len(data) <= MaxWrite
  /\ chunk[h][i].made
  /\ offset + Len(data) <= ExpectedChunkLen(artifact[h].blob_len, i)
  /\ AtTheEnd(h, i, offset)
  /\ chunk' = [chunk EXCEPT ![h][i].data = SubSeq(@, 1, offset) \o data]
  /\ UNCHANGED <<config, artifact, runtime, funded>>

FinalizeCompiledArtifact(a, h) ==
  /\ Uploadable(h, a)
  /\ ChunksComplete(h) /\ HashMatches(h)
  /\ ParsesAs(artifact[h].format, FormatOf[h])
  /\ artifact' = [artifact EXCEPT ![h].finalized = TRUE]
  /\ UNCHANGED <<config, chunk, runtime, funded>>

-----------------------------------------------------------------------------
(* Review and binding. *)

ReviewCompiledArtifact(a, h, new) ==
  /\ config # NoConfig /\ a = config.admin
  /\ artifact[h] # NoArtifact /\ Reviewable(h, new)
  /\ artifact' = [artifact EXCEPT ![h].status = new]
  /\ UNCHANGED <<config, chunk, runtime, funded>>

\* The vault is created with the runtime: create_account fails if the address
\* already holds lamports.
InitializeOutcomeConfig(a, r, h, band) ==
  /\ config # NoConfig /\ artifact[h] # NoArtifact /\ runtime[r] = NoRuntime
  /\ Binding(h)
  /\ ChunksComplete(h) /\ ParsesAs(artifact[h].format, FormatOf[h])
  /\ band = BandOf[h]
  /\ r \notin funded
  /\ runtime' = [runtime EXCEPT ![r] = [authority |-> a, hash |-> h, band |-> band]]
  /\ funded' = funded \cup {r}
  /\ UNCHANGED <<config, artifact, chunk>>

\* Anyone can transfer lamports to an address.
FundVaultAddress(r) ==
  /\ r \notin funded /\ funded' = funded \cup {r}
  /\ UNCHANGED <<config, artifact, chunk, runtime>>

-----------------------------------------------------------------------------
Writes == UNION {[1..n -> Bytes] : n \in 1..MaxWrite}

Next ==
  \E a \in Keys :
    \/ InitializeProgramConfig(a)
    \/ \E new \in Keys :
         \/ \E allow \in AllowChoices : SetProgramConfig(a, new, allow)
         \/ RecoverProgramConfigAdmin(a, new)
    \/ \E h \in Hashes :
         \/ \E format \in Formats, len \in DeclaredLens : SubmitCompiledArtifact(a, h, format, len)
         \/ \E i \in Indices :
              \/ InitCompiledArtifactChunk(a, h, i)
              \/ \E offset \in 0..ChunkSize, data \in Writes :
                   WriteCompiledArtifactChunk(a, h, i, offset, data)
         \/ FinalizeCompiledArtifact(a, h)
         \/ \E new \in Reviews : ReviewCompiledArtifact(a, h, new)
         \/ \E r \in Runtimes, band \in Bands : InitializeOutcomeConfig(a, r, h, band)
    \/ \E r \in Runtimes : FundVaultAddress(r)

Spec == Init /\ [][Next]_vars

(***************************************************************************)
(* The publisher's client keeps going until the upload is finalized: every *)
(* chunk it still has to create or write, and the finalization, are weakly *)
(* fair.  What it writes is not: it may write anything.                    *)
(***************************************************************************)
Fairness ==
  \A a \in Keys, h \in Hashes :
    /\ \A i \in Indices :
         /\ WF_vars(InitCompiledArtifactChunk(a, h, i))
         /\ WF_vars(\E offset \in 0..ChunkSize, data \in Writes :
                      WriteCompiledArtifactChunk(a, h, i, offset, data))
    /\ WF_vars(FinalizeCompiledArtifact(a, h))

FairSpec == Spec /\ Fairness

-----------------------------------------------------------------------------
(* Properties. *)

Artifacts ==
  [publisher : Keys, status : Statuses, finalized : BOOLEAN, format : Formats,
   blob_len : 1..(ChunkSize * MaxChunks), chunk_count : 1..MaxChunks]

\* Every account has the shape of its Rust type, and a chunk never holds more
\* than CHUNK_SIZE bytes.
RegistryTypeOK ==
  /\ config \in [admin : Keys, allow : BOOLEAN] \cup {NoConfig}
  /\ artifact \in [Hashes -> Artifacts \cup {NoArtifact}]
  /\ chunk \in [Hashes -> [Indices -> [made : BOOLEAN, data : Seq(Bytes)]]]
  /\ \A h \in Hashes, i \in Indices : Len(chunk[h][i].data) <= ChunkSize
  /\ runtime \in [Runtimes ->
       [authority : Keys, hash : Hashes, band : Bands] \cup {NoRuntime}]
  /\ funded \subseteq Runtimes

\* The chunk accounts, read byte by byte, hold the blob the hash names.
HoldsBlob(h) ==
  /\ artifact[h].blob_len = Len(Blobs[h])
  /\ \A j \in 0..(Len(Blobs[h]) - 1) :
       LET data == chunk[h][j \div ChunkSize].data IN
       j % ChunkSize < Len(data) /\ data[(j % ChunkSize) + 1] = Blobs[h][j + 1]

\* The accounts of a finalized artifact hold exactly the blob its hash names,
\* now and after every later transaction: handlers that load it again need not
\* hash it again.
FinalizedBlobIntact ==
  \A h \in Hashes : artifact[h] # NoArtifact /\ artifact[h].finalized =>
    HoldsBlob(h) /\ ParsesAs(artifact[h].format, FormatOf[h])

\* An APPROVED or DEPRECATED artifact is finalized and stays so: the admin never
\* approves an upload that can still change.
ReviewedIsFinalized ==
  \A h \in Hashes :
    artifact[h] # NoArtifact /\ artifact[h].status \in {"APPROVED", "DEPRECATED"} =>
      artifact[h].finalized

\* A runtime is bound to an artifact that is finalized, with the band that is in
\* its blob, whatever happened to the artifact's status since.
BoundToIntactArtifact ==
  \A r \in Runtimes : runtime[r] # NoRuntime =>
    LET h == runtime[r].hash IN
    artifact[h].finalized /\ HoldsBlob(h) /\ runtime[r].band = BandOf[h]

\* What the registry vouches for is the blob the hash names: from finalization
\* on, through every review, and for every runtime bound to it.
ArtifactsIntact ==
  /\ RegistryTypeOK
  /\ FinalizedBlobIntact
  /\ ReviewedIsFinalized
  /\ BoundToIntactArtifact

\* Bytes that were written never change, finalization is never undone, a review
\* never leads back to PENDING nor from a rejection to an approval, and nobody
\* takes over an artifact.
UploadsOnlyGrow ==
  [][\A h \in Hashes :
       /\ \A i \in Indices : IsPrefix(chunk[h][i].data, chunk'[h][i].data)
       /\ artifact[h] # NoArtifact =>
            /\ artifact'[h].publisher = artifact[h].publisher
            /\ artifact[h].finalized => artifact'[h].finalized
            /\ artifact[h].status # "PENDING" =>
                 /\ artifact'[h].finalized = artifact[h].finalized
                 /\ chunk'[h] = chunk[h]
                 /\ artifact'[h].status = "APPROVED" => artifact[h].status = "APPROVED"]_vars

\* The upload went wrong: the declaration does not fit the blob, a byte that
\* was written is not the blob's, or the artifact was reviewed early.
Spoiled(h) ==
  \/ artifact[h].blob_len # Len(Blobs[h]) \/ ~ParsesAs(artifact[h].format, FormatOf[h])
  \/ artifact[h].status # "PENDING"
  \/ \E i \in 0..(artifact[h].chunk_count - 1) :
       ~IsPrefix(chunk[h][i].data, Slice(Blobs[h], i))

\* An upload whose publisher keeps sending the right bytes is finalized, in any
\* order of chunks and writes, even interrupted: an append is never refused.
UploadCompletes ==
  \A h \in Hashes :
    artifact[h] # NoArtifact ~>
      artifact[h] # NoArtifact /\ (artifact[h].finalized \/ Spoiled(h))

=============================================================================
