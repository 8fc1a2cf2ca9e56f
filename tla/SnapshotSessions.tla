--------------------------- MODULE SnapshotSessions ---------------------------
(***************************************************************************)
(* Snapshot draws of the web server (web/server.mjs): a partner opens a    *)
(* session, uploads its participants in chunks and finalizes it.  The      *)
(* finalize job builds the snapshot, publishes it, and only then commits   *)
(* the draw on chain.  Session metadata and chunks are files that survive  *)
(* a restart; the jobs live in memory and do not.                          *)
(*                                                                         *)
(* A snapshot is the function from chunk index to chunk; it stands for its *)
(* own SHA-256.  A chunk is its number of participants.                    *)
(***************************************************************************)
EXTENDS Naturals, FiniteSets, FiniteSetsExt

CONSTANTS
  Sessions,      \* session ids (UUIDs, never reused)
  Abandoned,     \* those whose partner sends nothing once they are open
  ChunkIndexes,  \* chunk_index values partners send
  ChunkSizes,    \* participants in a chunk
  MediumMax,     \* PARTNER_SNAPSHOT_MEDIUM_MAX: above it a file is sorted
  TTL,           \* PARTNER_SNAPSHOT_SESSION_TTL_MS
  MaxClock,      \* bound on the clock
  MaxCrashes,    \* bound on server crashes
  MaxFinalizes   \* bound on finalize requests that start a job

ASSUME SizesAssumption ==
  /\ ChunkIndexes \subseteq Nat /\ IsFiniteSet(ChunkIndexes) /\ ChunkSizes \subseteq Nat \ {0}
  /\ MediumMax \in Nat /\ TTL \in Nat
  /\ MaxClock \in Nat /\ MaxCrashes \in Nat /\ MaxFinalizes \in Nat

VARIABLES
  dir,        \* session directories on disk
  meta,       \* meta.json per session
  files,      \* chunk files per session
  mirror,     \* snapshots in the hash-addressed mirror
  published,  \* snapshots readable from the public storage
  index,      \* by-signature index file of the session's draw
  jobs,       \* snapshotFinalizeJobs and what each job holds
  draws,      \* draws sent to the chain
  clock,
  crashes, finalizes,
  \* History:
  issued,     \* session ids handed out
  acked,      \* chunks acknowledged with 200, as first acknowledged
  unrecorded, \* sessions whose job was lost in a restart, or failed without the
              \* failure being saved
  unindexed   \* sessions whose index file was not written when their draw settled

disk == <<dir, meta, files, mirror, published, index>>
vars == <<disk, jobs, draws, clock, crashes, finalizes, issued, acked, unrecorded, unindexed>>

NoMeta == [status |-> "missing"]
Torn == [status |-> "torn"]     \* writeFileSync cut short: not JSON
NoJob == [pc |-> "none"]
NoFiles == [i \in {} |-> 0]
TornChunk == 0

Readable(s) == meta[s] \notin {NoMeta, Torn}
Running(s) == jobs[s] # NoJob

\* A function on a subset of the chunk indexes.
Chunkings == UNION {[D -> ChunkSizes \cup {TornChunk}] : D \in SUBSET ChunkIndexes}
With(f, i, c) == [j \in DOMAIN f \cup {i} |-> IF j = i THEN c ELSE f[j]]
Extends(f, g) == \A i \in DOMAIN g : i \in DOMAIN f /\ f[i] = g[i]
Participants(f) == SumFunction([i \in ChunkIndexes |-> IF i \in DOMAIN f THEN f[i] ELSE 0])

\* Mutant: a draw that stopped while committing may be finalized again.
RetryableAlways == {"building", "publishing", "committing"}
\* SNAPSHOT_FINALIZE_RETRYABLE_STAGES.
RetryableStages == {"building", "publishing"}

\* classifySnapshotMode, as far as finalizeSnapshotSession tells modes apart:
\* simple and medium are built in memory, bulk and streaming from a file.
FileMode(count) == count > MediumMax

Init ==
  /\ dir = {} /\ issued = {} /\ unrecorded = {} /\ unindexed = {}
  /\ meta = [s \in Sessions |-> NoMeta]
  /\ files = [s \in Sessions |-> NoFiles]
  /\ acked = [s \in Sessions |-> NoFiles]
  /\ index = [s \in Sessions |-> "none"]
  /\ jobs = [s \in Sessions |-> NoJob]
  /\ mirror = {} /\ published = {} /\ draws = {}
  /\ clock = 0 /\ crashes = 0 /\ finalizes = 0

-----------------------------------------------------------------------------
(* Uploading. *)

\* Mutant: finalized sessions expire as well.
ExpiredAll == {s \in dir : Readable(s) /\ clock - meta[s].born > TTL}
\* cleanupExpiredSnapshotSessions removes these; metadata it cannot read is kept.
Expired ==
  {s \in dir : Readable(s) /\ meta[s].status # "finalized" /\ clock - meta[s].born > TTL}

Cleanup ==
  /\ dir' = dir \ Expired
  /\ meta' = [s \in Sessions |-> IF s \in Expired THEN NoMeta ELSE meta[s]]
  /\ files' = [s \in Sessions |-> IF s \in Expired THEN NoFiles ELSE files[s]]

\* createSnapshotSession writes this metadata.
NewMeta == [status |-> "open", stage |-> "none", born |-> clock, chunks |-> {}, count |-> 0]

\* handlePartnerSnapshotInit.
CreateSession(s) ==
  /\ s \notin issued
  /\ issued' = issued \cup {s}
  /\ dir' = (dir \ Expired) \cup {s}
  /\ meta' = [t \in Sessions |->
       CASE t = s -> NewMeta
         [] t \in Expired -> NoMeta
         [] OTHER -> meta[t]]
  /\ files' = [t \in Sessions |-> IF t \in Expired THEN NoFiles ELSE files[t]]
  /\ UNCHANGED <<mirror, published, index, jobs, draws, clock, crashes, finalizes,
                 acked, unrecorded, unindexed>>

\* loadSnapshotSession: the checks before a chunk is taken.
Uploadable(s) ==
  Readable(s) /\ meta[s].status = "open" /\ clock - meta[s].born <= TTL

\* Mutant: a chunk that was taken can be replaced.
NewChunkAny(s, i) == TRUE
NewChunk(s, i) == i \notin meta[s].chunks

\* handlePartnerSnapshotChunk: the chunk file, then the metadata.
UploadChunk(s, i, c) ==
  /\ Uploadable(s) /\ NewChunk(s, i)
  /\ files' = [files EXCEPT ![s] = With(@, i, c)]
  /\ meta' = [meta EXCEPT ![s].chunks = @ \cup {i}, ![s].count = @ + c]
  /\ acked' = [acked EXCEPT ![s] = IF i \in DOMAIN @ THEN @ ELSE With(@, i, c)]
  /\ UNCHANGED <<dir, mirror, published, index, jobs, draws, clock, crashes, finalizes,
                 issued, unrecorded, unindexed>>

-----------------------------------------------------------------------------
(* The finalize job. *)

\* loadSnapshotSessionForFinalize.
Finalizable(s) ==
  /\ Readable(s) /\ ~Running(s)
  /\ \/ meta[s].status = "open"
     \/ meta[s].status \in {"finalizing", "failed"} /\ meta[s].stage \in RetryableStages

\* handlePartnerSnapshotFinalize: the job keeps its own copy of the metadata.
StartFinalize(s) ==
  LET m == [meta[s] EXCEPT !.status = "finalizing", !.stage = "building"] IN
  /\ Finalizable(s)
  /\ finalizes < MaxFinalizes /\ finalizes' = finalizes + 1
  /\ meta' = [meta EXCEPT ![s] = m]
  /\ jobs' = [jobs EXCEPT ![s] = [pc |-> "building", m |-> m, snap |-> NoFiles]]
  /\ UNCHANGED <<dir, files, mirror, published, index, draws, clock, crashes,
                 issued, acked, unrecorded, unindexed>>

\* setStage: the metadata the job holds is saved with its new stage, which
\* throws when the directory is gone.
\* Mutant: the save recreates a session that was removed.
SetStageAnyway(s, stage, snap) ==
  LET m == [jobs[s].m EXCEPT !.stage = stage] IN
  /\ meta' = [meta EXCEPT ![s] = m]
  /\ jobs' = [jobs EXCEPT ![s] = [pc |-> stage, m |-> m, snap |-> snap]]
SetStage(s, stage, snap) ==
  LET m == [jobs[s].m EXCEPT !.stage = stage] IN
  /\ s \in dir
  /\ meta' = [meta EXCEPT ![s] = m]
  /\ jobs' = [jobs EXCEPT ![s] = [pc |-> stage, m |-> m, snap |-> snap]]

\* listSnapshotChunkIndexes: the files on disk, which must be contiguous.
Contiguous(f) == f # NoFiles /\ \A i \in DOMAIN f : 0..i \subseteq DOMAIN f

\* finalizeSnapshotSession: what is on disk must be contiguous chunks of at
\* least 2 participants; inspectSnapshotFile also compares the count.
\* Mutant: the file is not compared with the number of participants taken.
BuildableUncounted(s) ==
  /\ Contiguous(files[s])
  /\ \A i \in DOMAIN files[s] : files[s][i] # TornChunk
  /\ jobs[s].m.count >= 2
Buildable(s) ==
  /\ Contiguous(files[s])
  /\ \A i \in DOMAIN files[s] : files[s][i] # TornChunk
  /\ jobs[s].m.count >= 2
  /\ FileMode(jobs[s].m.count) => Participants(files[s]) = jobs[s].m.count

JobBuild(s) ==
  /\ jobs[s].pc = "building" /\ Buildable(s)
  /\ SetStage(s, "publishing", files[s])
  /\ UNCHANGED <<dir, files, mirror, published, index, draws, clock, crashes, finalizes,
                 issued, acked, unrecorded, unindexed>>

\* storeMirrorCopy: a partial file renamed into place under its hash.
StoreMirrorCopy(s) ==
  /\ jobs[s].pc = "publishing"
  /\ mirror' = mirror \cup {jobs[s].snap}
  /\ jobs' = [jobs EXCEPT ![s].pc = "mirrored"]
  /\ UNCHANGED <<dir, meta, files, published, index, draws, clock, crashes, finalizes,
                 issued, acked, unrecorded, unindexed>>

\* storage.publish of either provider: it returns a URI, under which the
\* snapshot is readable at once, later or never.
StoragePublish(snap) == {published, published \cup {snap}}

JobUpload(s) ==
  /\ jobs[s].pc = "mirrored"
  /\ published' \in StoragePublish(jobs[s].snap)
  /\ jobs' = [jobs EXCEPT ![s].pc = "uploaded"]
  /\ UNCHANGED <<dir, meta, files, mirror, index, draws, clock, crashes, finalizes,
                 issued, acked, unrecorded, unindexed>>

\* The read-back loop passes when the published copy is there and has the
\* hash; a job that never reads it fails.  Then the stage is committing.
\* Mutant: the upload is trusted.
JobReadBackNothing(s) ==
  /\ jobs[s].pc = "uploaded"
  /\ SetStage(s, "committing", jobs[s].snap)
  /\ UNCHANGED <<dir, files, mirror, published, index, draws, clock, crashes, finalizes,
                 issued, acked, unrecorded, unindexed>>
JobReadBack(s) ==
  /\ jobs[s].pc = "uploaded" /\ jobs[s].snap \in published
  /\ SetStage(s, "committing", jobs[s].snap)
  /\ UNCHANGED <<dir, files, mirror, published, index, draws, clock, crashes, finalizes,
                 issued, acked, unrecorded, unindexed>>

\* resolveInlineRngV2 recreates the output directory, writes the artifact and
\* sends the prepare.
JobPrepare(s) ==
  /\ jobs[s].pc = "committing"
  /\ dir' = dir \cup {s}
  /\ draws' = draws \cup {[session |-> s, snap |-> jobs[s].snap,
                           count |-> jobs[s].m.count, state |-> "preparing"]}
  /\ jobs' = [jobs EXCEPT ![s].pc = "drawing"]
  /\ UNCHANGED <<meta, files, mirror, published, index, clock, crashes, finalizes,
                 issued, acked, unrecorded, unindexed>>

\* The prepare was confirmed and its slots have passed: the settle is sent.
JobSettle(s) ==
  /\ jobs[s].pc = "drawing"
  /\ \E d \in draws :
       /\ d.session = s /\ d.state = "prepared"
       /\ draws' = (draws \ {d}) \cup {[d EXCEPT !.state = "settling"]}
  /\ UNCHANGED <<disk, jobs, clock, crashes, finalizes, issued, acked, unrecorded, unindexed>>

\* Whether the draw of session s has the given state.
DrawIs(s, state) == \E d \in draws : d.session = s /\ d.state = state

\* The metadata of a draw that settled, which now has the draw's signature.
Finished(s) == [jobs[s].m EXCEPT !.status = "finalized", !.stage = "settled"]

\* The draw settled and replayed: manifests, metadata and the signature index
\* are written, and the job is deleted.
\* Mutant: the session is finalized when the prepare is confirmed.
JobFinishEarly(s) ==
  /\ jobs[s].pc = "drawing" /\ DrawIs(s, "prepared") /\ s \in dir
  /\ meta' = [meta EXCEPT ![s] = Finished(s)]
  /\ index' = [index EXCEPT ![s] = "written"]
  /\ jobs' = [jobs EXCEPT ![s] = NoJob]
  /\ UNCHANGED <<dir, files, mirror, published, draws, clock, crashes, finalizes,
                 issued, acked, unrecorded, unindexed>>
\* Mutant: the index is left to the first lookup.
JobFinishUnindexed(s) ==
  /\ jobs[s].pc = "drawing" /\ DrawIs(s, "settled") /\ s \in dir
  /\ meta' = [meta EXCEPT ![s] = Finished(s)]
  /\ jobs' = [jobs EXCEPT ![s] = NoJob]
  /\ UNCHANGED <<dir, files, mirror, published, index, draws, clock, crashes, finalizes,
                 issued, acked, unrecorded, unindexed>>
JobFinish(s) ==
  /\ jobs[s].pc = "drawing" /\ DrawIs(s, "settled") /\ s \in dir
  /\ meta' = [meta EXCEPT ![s] = Finished(s)]
  /\ index' = [index EXCEPT ![s] = "written"]
  /\ jobs' = [jobs EXCEPT ![s] = NoJob]
  /\ UNCHANGED <<dir, files, mirror, published, draws, clock, crashes, finalizes,
                 issued, acked, unrecorded, unindexed>>

\* The write of the index throws, before or after it truncated the file, when
\* the metadata is already saved: markSnapshotFinalizeFailed then calls the
\* session failed although its draw settled, unless its own save fails too.
JobIndexFails(s) ==
  /\ jobs[s].pc = "drawing" /\ DrawIs(s, "settled") /\ s \in dir
  /\ \E m \in {Finished(s), [Finished(s) EXCEPT !.status = "failed"], Torn} :
       meta' = [meta EXCEPT ![s] = m]
  /\ \E file \in {"none", "torn"} : index' = [index EXCEPT ![s] = file]
  /\ unindexed' = unindexed \cup {s}
  /\ jobs' = [jobs EXCEPT ![s] = NoJob]
  /\ UNCHANGED <<dir, files, mirror, published, draws, clock, crashes, finalizes,
                 issued, acked, unrecorded>>

\* Any step may throw (a bad chunk, a refused upload, an RPC error or timeout,
\* a missing directory, a full disk): markSnapshotFinalizeFailed rewrites what it
\* reads from disk, in place, and ignores what it cannot read or write; the job
\* is deleted.
\* Mutant: the failure is not recorded.
MarkNothing(s) == {meta}
MarkFailed(s) ==
  IF Readable(s) THEN {[meta EXCEPT ![s].status = "failed"], [meta EXCEPT ![s] = Torn]} ELSE {meta}

\* The failure is recorded, or cannot be.
FailureSaved(s) ==
  \/ meta' \in MarkFailed(s) /\ UNCHANGED unrecorded
  \/ UNCHANGED meta /\ unrecorded' = unrecorded \cup {s}

\* Mutant: a transaction that is never confirmed is awaited for ever.
JobFailNoDeadline(s) ==
  /\ Running(s) /\ jobs[s].pc # "drawing"
  /\ FailureSaved(s)
  /\ jobs' = [jobs EXCEPT ![s] = NoJob]
  /\ UNCHANGED <<dir, files, mirror, published, index, draws, clock, crashes, finalizes,
                 issued, acked, unindexed>>
JobFail(s) ==
  /\ Running(s)
  /\ FailureSaved(s)
  /\ jobs' = [jobs EXCEPT ![s] = NoJob]
  /\ UNCHANGED <<dir, files, mirror, published, index, draws, clock, crashes, finalizes,
                 issued, acked, unindexed>>

-----------------------------------------------------------------------------
(* Reading, and the world outside. *)

\* handlePartnerSnapshotStatus: what the partner is told.
StatusOf(s) ==
  CASE meta[s] = NoMeta -> "404"
    [] meta[s] = Torn -> "500"
    [] meta[s].status = "finalizing" /\ ~Running(s) -> "interrupted by a server restart"
    [] OTHER -> meta[s].status

\* The metadata names the draw's signature: saved once the draw settled, kept
\* when the session is then marked as failed.
HasSignature(s) == Readable(s) /\ meta[s].stage = "settled"

\* loadSnapshotSessionBySignature, when there is no index file, or one of a
\* session that is gone: a cleanup, then a scan of the directories, which throws
\* at metadata it cannot read and writes the index when it finds the signature.
\* A file that is there is only read: a torn one throws, whatever else is there.
LookupBySignature(s) ==
  /\ index[s] = "none" \/ (index[s] = "written" /\ meta[s] = NoMeta)
  /\ Cleanup
  /\ \/ UNCHANGED index
     \/ /\ HasSignature(s) /\ s \notin Expired
        /\ \E file \in {"written", "torn"} : index' = [index EXCEPT ![s] = file]
  /\ UNCHANGED <<mirror, published, jobs, draws, clock, crashes, finalizes,
                 issued, acked, unrecorded, unindexed>>

\* Whether a lookup is sure to find the session: through its index file, or by a
\* scan that meets no metadata it cannot read.
\* Mutant: without an index file there is no session.
FoundIndexed(s) == Readable(s) /\ index[s] = "written"
Found(s) ==
  \/ Readable(s) /\ index[s] = "written"
  \/ HasSignature(s) /\ index[s] = "none" /\ \A t \in dir : meta[t] # Torn

\* handlePartnerDrawProof: a Merkle proof is built from the mirrored snapshot of
\* a finalized session that the lookup finds.
ProofServed(s) ==
  /\ Found(s) /\ meta[s].status = "finalized"
  /\ \E d \in draws : d.session = s /\ d.state = "settled" /\ d.snap \in mirror

\* A transaction lands, in its own time: also after its job failed or died.
Land(d) ==
  /\ d.state \in {"preparing", "settling"}
  /\ draws' = (draws \ {d}) \cup
       {[d EXCEPT !.state = IF @ = "preparing" THEN "prepared" ELSE "settled"]}
  /\ UNCHANGED <<disk, jobs, clock, crashes, finalizes, issued, acked, unrecorded, unindexed>>

Tick ==
  /\ clock < MaxClock /\ clock' = clock + 1
  /\ UNCHANGED <<disk, jobs, draws, crashes, finalizes, issued, acked, unrecorded, unindexed>>

\* The process dies and restarts: jobs are gone, files stay.
Restart ==
  /\ crashes < MaxCrashes /\ crashes' = crashes + 1
  /\ unrecorded' = unrecorded \cup {s \in Sessions : Running(s)}
  /\ jobs' = [s \in Sessions |-> NoJob]
  /\ UNCHANGED <<mirror, published, draws, clock, finalizes, issued, acked>>

CrashIdle == Restart /\ UNCHANGED <<dir, meta, files, index, unindexed>>

\* In the middle of saving a session that some request or job is changing.
CrashInSave(s) ==
  /\ Restart
  /\ s \in dir /\ Readable(s) /\ (Running(s) \/ Uploadable(s) \/ Finalizable(s))
  /\ meta' = [meta EXCEPT ![s] = Torn]
  /\ UNCHANGED <<dir, files, index, unindexed>>

\* Between the chunk file and the metadata, or in the middle of the former.
CrashInUpload(s, i, c) ==
  /\ Restart
  /\ Uploadable(s) /\ NewChunk(s, i)
  /\ files' = [files EXCEPT ![s] = With(@, i, c)]
  /\ UNCHANGED <<dir, meta, index, unindexed>>

\* Between the finalized metadata and its signature index, or in the middle of
\* the latter.
CrashBeforeIndex(s) ==
  /\ Restart
  /\ jobs[s].pc = "drawing" /\ DrawIs(s, "settled") /\ s \in dir
  /\ meta' = [meta EXCEPT ![s] = Finished(s)]
  /\ \E file \in {"none", "torn"} : index' = [index EXCEPT ![s] = file]
  /\ unindexed' = unindexed \cup {s}
  /\ UNCHANGED <<dir, files>>

\* In the middle of the index a lookup writes.
CrashInLookup(s) ==
  /\ Restart
  /\ index[s] = "none" /\ HasSignature(s) /\ s \notin Expired
  /\ Cleanup
  /\ index' = [index EXCEPT ![s] = "torn"]
  /\ UNCHANGED unindexed

Job(s) ==
  \/ JobBuild(s) \/ StoreMirrorCopy(s) \/ JobUpload(s)
  \/ JobReadBack(s)
  \/ JobPrepare(s) \/ JobSettle(s) \/ JobFinish(s) \/ JobIndexFails(s) \/ JobFail(s)

Next ==
  \/ \E s \in Sessions :
       \/ CreateSession(s) \/ Job(s) \/ LookupBySignature(s)
       \/ CrashInSave(s) \/ CrashBeforeIndex(s) \/ CrashInLookup(s)
  \/ \E s \in Sessions \ Abandoned :
       \/ StartFinalize(s)
       \/ \E i \in ChunkIndexes, c \in ChunkSizes : UploadChunk(s, i, c)
       \/ \E i \in ChunkIndexes, c \in ChunkSizes \cup {TornChunk} : CrashInUpload(s, i, c)
  \/ \E d \in draws : Land(d)
  \/ Tick \/ CrashIdle

Spec == Init /\ [][Next]_vars

\* Every call a job awaits returns or throws (the waits for transactions and
\* slots have deadlines, POLL_DEADLINE_MS), so a job takes its next step or fails.
FairSpec == Spec /\ \A s \in Sessions : WF_vars(Job(s))

-----------------------------------------------------------------------------
(* Properties. *)

Stages == {"none", "building", "publishing", "committing", "settled"}
MetaRecords ==
  [status : {"open", "finalizing", "failed", "finalized"}, stage : Stages,
   born : Nat, chunks : SUBSET ChunkIndexes, count : Nat]
JobRecords ==
  [pc : {"building", "publishing", "mirrored", "uploaded", "committing", "drawing"},
   m : MetaRecords, snap : Chunkings]
DrawRecords ==
  [session : Sessions, snap : Chunkings, count : Nat,
   state : {"preparing", "prepared", "settling", "settled"}]

\* The state of the session store has its type; directories are of issued
\* sessions, and metadata and chunk files exist only in a directory.
SessionsTypeOK ==
  /\ dir \subseteq issued /\ issued \subseteq Sessions
  /\ \A s \in Sessions \ dir : meta[s] = NoMeta /\ files[s] = NoFiles
  /\ meta \in [Sessions -> MetaRecords \cup {NoMeta, Torn}]
  /\ files \in [Sessions -> Chunkings] /\ acked \in [Sessions -> Chunkings]
  /\ index \in [Sessions -> {"none", "written", "torn"}]
  /\ jobs \in [Sessions -> JobRecords \cup {NoJob}]
  /\ mirror \subseteq Chunkings /\ published \subseteq Chunkings
  /\ draws \subseteq DrawRecords
  /\ clock \in Nat /\ crashes \in Nat /\ finalizes \in Nat
  /\ unrecorded \subseteq Sessions /\ unindexed \subseteq Sessions

\* However often a session is finalized, fails and is finalized again, across
\* restarts, at most one draw is ever sent to the chain for it
\* (loadSnapshotSessionForFinalize and the order of setStage).
AtMostOneDraw ==
  \A d, e \in draws : d.session = e.session => d = e

\* A session the server would finalize again has nothing on chain, nor
\* anything sent there that could still land ("Failures before the artifact is
\* committed leave nothing on chain", server.mjs).
RetryableHasNoDraw ==
  \A s \in Sessions : Finalizable(s) => \A d \in draws : d.session # s

\* One session, one draw: neither a retry, a restart nor a transaction that
\* lands after its job was given up leads to a second one.
OneDrawPerSession == AtMostOneDraw /\ RetryableHasNoDraw

\* The snapshot of every draw was in the mirror and readable from the public
\* storage before its prepare was sent, so its replay can find it.
DrawnIsPublished ==
  \A d \in draws : d.snap \in mirror /\ d.snap \in published

\* A chunk acknowledged to the partner is in the snapshot that is drawn, as
\* it was acknowledged: neither lost nor replaced by a retry or a crash.
AckedIsDrawn ==
  \A d \in draws : Extends(d.snap, acked[d.session])

\* In the sorted-file modes nothing else is drawn either: a chunk file whose
\* upload a crash interrupted never enters the draw unacknowledged.
FileModeDrawsOnlyAcked ==
  \A d \in draws : FileMode(d.count) => d.snap = acked[d.session]

\* What is drawn is what the partner uploaded and anyone can read back: nothing
\* acknowledged is missing, nothing else is in, and all of it was published.
DrawIsTheUpload == DrawnIsPublished /\ AckedIsDrawn /\ FileModeDrawsOnlyAcked

\* A session the partner is told is finalized has a draw that settled on chain
\* and a mirrored snapshot, and the proof endpoint finds it by its signature; it
\* may fail to only if the index was not written when the draw settled, and then
\* only when a later write of it was cut short, or another session's metadata is
\* unreadable and stops the scan (loadSnapshotSessionBySignature).
FinalizedIsProvable ==
  \A s \in Sessions : StatusOf(s) = "finalized" =>
    /\ \E d \in draws : d.session = s /\ d.state = "settled" /\ d.snap \in mirror
    /\ \/ ProofServed(s)
       \/ s \in unindexed /\ (index[s] = "torn" \/ \E t \in dir \ {s} : meta[t] = Torn)

\* The status endpoint blames a server restart only when one killed the job, or
\* when the failure of the job could not be saved.
InterruptedMeansRestart ==
  \A s \in Sessions : StatusOf(s) = "interrupted by a server restart" => s \in unrecorded

\* What the status endpoint says of a session is true of the chain, the mirror
\* and the process, over torn writes and restarts.
StatusIsTrue == SessionsTypeOK /\ FinalizedIsProvable /\ InterruptedMeansRestart

\* A finalized session is never removed, reopened or changed: it backs the
\* proofs of a committed draw.
FinalizedIsKept ==
  [][\A s \in Sessions : (Readable(s) /\ meta[s].status = "finalized") =>
       meta'[s] = meta[s] /\ s \in dir']_vars

\* A finalize job ends, also when none of its transactions lands: its session
\* is not left finalizing, and a retryable one can be finalized again.
FinalizeEnds ==
  \A s \in Sessions : Running(s) ~> ~Running(s)

=============================================================================
