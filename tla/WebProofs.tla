----------------------------- MODULE WebProofs ------------------------------
(***************************************************************************)
(* Proofs about the web tier, for any number of sessions, chunks, restarts *)
(* and requests, of wallets, addresses and clicks.  First the snapshot     *)
(* draws of the server: the inductive invariant relates what is on disk,   *)
(* what a running job holds in memory, and what was sent to the chain.     *)
(* Then the pages: what a page says of the wallet is so, and answers that  *)
(* arrive late or out of order do no harm.                                 *)
(***************************************************************************)
EXTENDS SnapshotSessions, Pages, SequenceTheorems, Sums
\* Nothing was sent to the chain for the session.
NoDraw(s) == \A d \in draws : d.session # s

\* The draw of the session settled and its snapshot is in the mirror.
Backed(s) == \E d \in draws : d.session = s /\ d.state = "settled" /\ d.snap \in mirror

\* The stage a job last saved, by where it is.
StageOf(pc) ==
  CASE pc = "building" -> "building"
    [] pc \in {"publishing", "mirrored", "uploaded"} -> "publishing"
    [] OTHER -> "committing"

\* A snapshot f may be drawn for the chunks g that were acknowledged.
Faithful(f, g, count) == Extends(f, g) /\ (FileMode(count) => f = g)

\* What a running job holds agrees with the disk, or the session is gone; it
\* has done what its stage says and nothing beyond.
JobOK(s) ==
  Running(s) =>
    /\ jobs[s].m.status = "finalizing" /\ jobs[s].m.stage = StageOf(jobs[s].pc)
    /\ jobs[s].m.count = Participants(acked[s])
    /\ meta[s] # Torn
    /\ Readable(s) => meta[s] = jobs[s].m
    /\ (s \in dir /\ jobs[s].pc # "drawing") => Readable(s)
    /\ jobs[s].pc # "building" => Faithful(jobs[s].snap, acked[s], jobs[s].m.count)
    /\ jobs[s].pc \in {"mirrored", "uploaded", "committing", "drawing"} => jobs[s].snap \in mirror
    /\ jobs[s].pc \in {"committing", "drawing"} => jobs[s].snap \in published
    /\ jobs[s].pc # "drawing" => NoDraw(s)

\* What the metadata says of the session is so: the chunks it counts are those
\* acknowledged and on disk, and before committing nothing was sent.
MetaOK(s) ==
  Readable(s) =>
    /\ meta[s].status = "open" => meta[s].stage = "none" /\ meta[s].chunks = DOMAIN acked[s]
    /\ meta[s].stage # "settled" =>
         meta[s].count = Participants(acked[s]) /\ Extends(files[s], acked[s])
    /\ meta[s].stage \in {"none", "building", "publishing"} => NoDraw(s)
    /\ (meta[s].status = "finalizing" /\ ~Running(s)) => s \in unrecorded
    /\ meta[s].status = "finalized" => meta[s].stage = "settled" /\ Backed(s)

\* A session id not handed out yet has no job, chunk or draw.
FreshOK(s) == s \notin issued => jobs[s] = NoJob /\ acked[s] = NoFiles /\ NoDraw(s)

SessionOK(s) == JobOK(s) /\ MetaOK(s) /\ FreshOK(s)

\* A draw on its way or on chain was published and is faithful to the upload.
DrawOK(d) ==
  d.snap \in mirror /\ d.snap \in published /\ Faithful(d.snap, acked[d.session], d.count)
DrawsOK == AtMostOneDraw /\ \A d \in draws : DrawOK(d)

SessionsInv == SessionsTypeOK /\ (\A s \in Sessions : SessionOK(s)) /\ DrawsOK

-----------------------------------------------------------------------------
(* Chunkings, their extensions and their counts. *)

\* A chunking is a function on some of the indexes to sizes.
LEMMA ChunkingIs ==
  ASSUME NEW f \in Chunkings
  PROVE  /\ DOMAIN f \subseteq ChunkIndexes
         /\ f = [i \in DOMAIN f |-> f[i]]
         /\ \A i \in DOMAIN f : f[i] \in ChunkSizes \cup {TornChunk} /\ f[i] \in Nat
<1>1. PICK D \in SUBSET ChunkIndexes : f \in [D -> ChunkSizes \cup {TornChunk}]
  BY DEF Chunkings
<1>2. DOMAIN f = D /\ f = [i \in D |-> f[i]]
  BY <1>1
<1>3. ChunkSizes \cup {TornChunk} \subseteq Nat
  BY SizesAssumption DEF TornChunk
<1>4. \A i \in D : f[i] \in ChunkSizes \cup {TornChunk}
  BY <1>1
<1> QED
  BY <1>2, <1>3, <1>4

\* Such a function is a chunking.
LEMMA IsChunking ==
  ASSUME NEW D \in SUBSET ChunkIndexes, NEW f \in [D -> ChunkSizes \cup {TornChunk}]
  PROVE  f \in Chunkings
  BY DEF Chunkings

\* No chunks is a chunking, and everything extends it.
LEMMA EmptyChunking ==
  NoFiles \in Chunkings /\ DOMAIN NoFiles = {} /\ \A f : Extends(f, NoFiles)
<1>1. DOMAIN NoFiles = {}
  BY DEF NoFiles
<1>2. NoFiles \in [{} -> ChunkSizes \cup {TornChunk}]
  BY DEF NoFiles
<1>3. NoFiles \in Chunkings
  BY <1>2, IsChunking
<1> QED
  BY <1>1, <1>3 DEF Extends

\* With adds or replaces one chunk.
LEMMA WithIs ==
  ASSUME NEW f \in Chunkings, NEW i \in ChunkIndexes, NEW c \in ChunkSizes \cup {TornChunk}
  PROVE  /\ With(f, i, c) \in Chunkings
         /\ DOMAIN With(f, i, c) = DOMAIN f \cup {i}
         /\ With(f, i, c)[i] = c
         /\ \A j \in DOMAIN f \ {i} : With(f, i, c)[j] = f[j]
<1>1. DOMAIN f \cup {i} \in SUBSET ChunkIndexes
  BY ChunkingIs
<1>2. With(f, i, c) \in [DOMAIN f \cup {i} -> ChunkSizes \cup {TornChunk}]
  BY ChunkingIs DEF With
<1>3. With(f, i, c) \in Chunkings
  BY <1>1, <1>2, IsChunking
<1> QED
  BY <1>3 DEF With

\* A new chunk on both sides, or on the larger one only, keeps an extension.
LEMMA WithExtends ==
  ASSUME NEW f \in Chunkings, NEW g \in Chunkings, Extends(f, g),
         NEW i \in ChunkIndexes, i \notin DOMAIN g, NEW c \in ChunkSizes \cup {TornChunk}
  PROVE  Extends(With(f, i, c), g) /\ Extends(With(f, i, c), With(g, i, c))
<1>1. /\ DOMAIN With(f, i, c) = DOMAIN f \cup {i} /\ With(f, i, c)[i] = c
      /\ \A j \in DOMAIN f \ {i} : With(f, i, c)[j] = f[j]
  BY WithIs
<1>2. /\ DOMAIN With(g, i, c) = DOMAIN g \cup {i} /\ With(g, i, c)[i] = c
      /\ \A j \in DOMAIN g \ {i} : With(g, i, c)[j] = g[j]
  BY WithIs
<1> QED
  BY <1>1, <1>2 DEF Extends

\* Participants is a sum of sizes over the indexes.
Sizes(f) == [i \in ChunkIndexes |-> IF i \in DOMAIN f THEN f[i] ELSE 0]

\* The sizes are naturals.
LEMMA SizesType ==
  ASSUME NEW f \in Chunkings
  PROVE  /\ Sizes(f) \in [ChunkIndexes -> Nat] /\ Sizes(f) \in [ChunkIndexes -> Int]
         /\ Participants(f) = SumFunction(Sizes(f)) /\ IsFiniteSet(ChunkIndexes)
<1>1. Sizes(f) \in [ChunkIndexes -> Nat]
  BY ChunkingIs DEF Sizes
<1>2. Sizes(f) \in [ChunkIndexes -> Int]
  BY <1>1
<1> QED
  BY <1>1, <1>2, SizesAssumption, Zenon DEF Sizes, Participants

\* No chunks, no participants.
LEMMA NoParticipants == Participants(NoFiles) = 0
<1>1. Sizes(NoFiles) = [i \in ChunkIndexes |-> 0]
  BY EmptyChunking DEF Sizes
<1> QED
  BY <1>1, SumZero, SizesType, EmptyChunking

\* A new chunk adds its participants: the metadata counts what it takes.
LEMMA WithParticipants ==
  ASSUME NEW f \in Chunkings, NEW i \in ChunkIndexes, i \notin DOMAIN f, NEW c \in ChunkSizes
  PROVE  Participants(With(f, i, c)) = Participants(f) + c /\ Participants(f) \in Nat
<1>1. c \in Nat /\ c \in ChunkSizes \cup {TornChunk}
  BY SizesAssumption
<1>2. With(f, i, c) \in Chunkings
  BY <1>1, WithIs
<1> DEFINE F == Sizes(f)
    G == Sizes(With(f, i, c))
<1>3. F[i] = 0 /\ G[i] = c /\ \A j \in ChunkIndexes \ {i} : F[j] = G[j]
  <2>1. DOMAIN With(f, i, c) = DOMAIN f \cup {i} /\ With(f, i, c)[i] = c
    BY <1>1, WithIs
  <2>2. \A j \in DOMAIN f \ {i} : With(f, i, c)[j] = f[j]
    BY <1>1, WithIs
  <2> QED
    BY <2>1, <2>2 DEF Sizes
<1>4. F \in [ChunkIndexes -> Int] /\ G \in [ChunkIndexes -> Int] /\ F \in [ChunkIndexes -> Nat]
  BY <1>2, SizesType
<1>5. Participants(f) = SumFunction(F) /\ Participants(With(f, i, c)) = SumFunction(G)
  BY <1>2, SizesType
<1> HIDE DEF F, G
<1>6. SumFunction(G) = SumFunction(F) - F[i] + G[i]
  <2>1. IsFiniteSet(ChunkIndexes)
    BY SizesAssumption
  <2> QED
    BY <1>3, <1>4, <2>1, SumChange
<1>7. SumFunction(F) \in Nat
  BY <1>4, SumAtLeast, SizesAssumption
<1> QED
  BY <1>1, <1>3, <1>5, <1>6, <1>7

\* The comparison of the counts in the file modes: whole chunks that extend
\* others and count the same are the same chunks.
LEMMA SameCountSameChunks ==
  ASSUME NEW f \in Chunkings, NEW g \in Chunkings, Extends(f, g),
         \A i \in DOMAIN f : f[i] # TornChunk, Participants(f) = Participants(g)
  PROVE  f = g
<1>1. DOMAIN f \subseteq ChunkIndexes /\ DOMAIN g \subseteq ChunkIndexes
  BY ChunkingIs
<1>2. DOMAIN f = DOMAIN g
  <2>1. DOMAIN g \subseteq DOMAIN f
    BY DEF Extends
  <2>2. ASSUME NEW i \in DOMAIN f, i \notin DOMAIN g PROVE FALSE
    <3> DEFINE F == Sizes(f)
        G == Sizes(g)
    <3>1. i \in ChunkIndexes
      BY <1>1
    <3>2. f[i] \in Nat \ {0}
      BY ChunkingIs DEF TornChunk
    <3>3. G[i] < F[i]
      BY <3>1, <3>2, <2>2 DEF Sizes
    <3>4. ASSUME NEW j \in ChunkIndexes PROVE G[j] <= F[j]
      <4>1. CASE j \in DOMAIN g
        BY <4>1, ChunkingIs DEF Sizes, Extends
      <4>2. CASE j \notin DOMAIN g
        BY <4>2, ChunkingIs DEF Sizes
      <4> QED
        BY <4>1, <4>2
    <3>5. F \in [ChunkIndexes -> Int] /\ G \in [ChunkIndexes -> Int]
      BY SizesType
    <3>6. Participants(f) = SumFunction(F) /\ Participants(g) = SumFunction(G)
      BY SizesType
    <3> HIDE DEF F, G
    <3>7. SumFunction(G) < SumFunction(F)
      BY <3>1, <3>3, <3>4, <3>5, SumStrict, SizesAssumption
    <3>8. SumFunction(F) \in Int /\ SumFunction(G) \in Int
      BY <3>5, SumType, SizesAssumption
    <3>9. SumFunction(F) = SumFunction(G)
      BY <3>6
    <3> QED
      BY <3>7, <3>8, <3>9
  <2> QED
    BY <2>1, <2>2
<1>3. \A i \in DOMAIN g : f[i] = g[i]
  BY DEF Extends
<1>4. f = [i \in DOMAIN f |-> f[i]] /\ g = [i \in DOMAIN g |-> g[i]]
  BY ChunkingIs
<1> QED
  BY <1>2, <1>3, <1>4

-----------------------------------------------------------------------------
(* Records, and what a readable session and a running job have. *)

\* Metadata that was read is a record of its own, whatever its status.
LEMMA MetaIs ==
  ASSUME NEW m \in MetaRecords
  PROVE  /\ m # NoMeta /\ m # Torn
         /\ m.status \in {"open", "finalizing", "failed", "finalized"}
         /\ m.stage \in Stages /\ m.born \in Nat /\ m.chunks \in SUBSET ChunkIndexes
         /\ m.count \in Nat
<1>1. /\ m.status \in {"open", "finalizing", "failed", "finalized"}
      /\ m.stage \in Stages /\ m.born \in Nat /\ m.chunks \in SUBSET ChunkIndexes
      /\ m.count \in Nat
  BY DEF MetaRecords
<1>2. NoMeta.status = "missing" /\ Torn.status = "torn"
  BY DEF NoMeta, Torn
<1> QED
  BY <1>1, <1>2

\* Readable metadata is in a directory of an issued session.
LEMMA ReadableIs ==
  ASSUME SessionsTypeOK, NEW s \in Sessions, Readable(s)
  PROVE  meta[s] \in MetaRecords /\ s \in dir /\ s \in issued
<1>1. meta[s] \in MetaRecords \cup {NoMeta, Torn} /\ dir \subseteq issued
  BY DEF SessionsTypeOK
<1>2. meta[s] # NoMeta /\ meta[s] # Torn
  BY DEF Readable
<1>3. s \in dir
  BY <1>2 DEF SessionsTypeOK
<1> QED
  BY <1>1, <1>2, <1>3

\* A job that is somewhere runs, and is a record.
LEMMA RunningIs ==
  ASSUME SessionsTypeOK, NEW s \in Sessions, Running(s)
  PROVE  /\ jobs[s] \in JobRecords /\ jobs[s].m \in MetaRecords /\ jobs[s].snap \in Chunkings
         /\ jobs[s] = [pc |-> jobs[s].pc, m |-> jobs[s].m, snap |-> jobs[s].snap]
<1>1. jobs[s] \in JobRecords
  BY DEF SessionsTypeOK, Running
<1> QED
  BY <1>1 DEF JobRecords

\* A job at a stage runs.
LEMMA AtStageRuns ==
  ASSUME NEW s, jobs[s].pc # "none"
  PROVE  Running(s)
  BY DEF Running, NoJob

\* The job records an action makes.
LEMMA JobMade ==
  ASSUME NEW pc \in {"building", "publishing", "mirrored", "uploaded", "committing", "drawing"},
         NEW m \in MetaRecords, NEW f \in Chunkings
  PROVE  LET j == [pc |-> pc, m |-> m, snap |-> f] IN
         j \in JobRecords /\ j # NoJob /\ j.pc = pc /\ j.m = m /\ j.snap = f
<1> DEFINE j == [pc |-> pc, m |-> m, snap |-> f]
<1>1. j \in JobRecords /\ j.pc = pc /\ j.m = m /\ j.snap = f
  BY DEF JobRecords
<1>2. NoJob.pc = "none"
  BY DEF NoJob
<1> QED
  BY <1>1, <1>2

-----------------------------------------------------------------------------
(* Frames: what an action leaves of a session and of the draws. *)

\* A session no step touched keeps its invariant.
LEMMA Kept ==
  ASSUME NEW t \in Sessions, SessionOK(t),
         meta'[t] = meta[t], files'[t] = files[t], acked'[t] = acked[t], jobs'[t] = jobs[t],
         t \in dir' <=> t \in dir, mirror \subseteq mirror', published \subseteq published',
         unrecorded \subseteq unrecorded', issued \subseteq issued',
         NoDraw(t) => NoDraw(t)', Backed(t) => Backed(t)'
  PROVE  SessionOK(t)'
<1>1. JobOK(t)'
  BY DEF SessionOK, JobOK, Running, Readable
<1>2. MetaOK(t)'
  BY DEF SessionOK, MetaOK, Running, Readable
<1>3. FreshOK(t)'
  BY DEF SessionOK, FreshOK
<1> QED
  BY <1>1, <1>2, <1>3 DEF SessionOK

\* A session whose files were removed: its job, if any, finds no directory.
LEMMA Removed ==
  ASSUME NEW t \in Sessions, SessionOK(t),
         meta'[t] = NoMeta, acked'[t] = acked[t], jobs'[t] = jobs[t], t \notin dir',
         mirror' = mirror, published' = published, draws' = draws, issued \subseteq issued'
  PROVE  SessionOK(t)'
<1>1. ~Readable(t)' /\ NoMeta # Torn
  BY DEF Readable, NoMeta, Torn
<1>2. JobOK(t)'
  BY <1>1 DEF SessionOK, JobOK, Running, NoDraw
<1>3. MetaOK(t)'
  BY <1>1 DEF MetaOK
<1>4. FreshOK(t)'
  BY DEF SessionOK, FreshOK, NoDraw
<1> QED
  BY <1>2, <1>3, <1>4 DEF SessionOK

\* A session over a restart that left its files.
LEMMA RestartedOK ==
  ASSUME NEW t \in Sessions, SessionOK(t), Restart, meta'[t] = meta[t], files'[t] = files[t]
  PROVE  SessionOK(t)'
<1>1. ~Running(t)' /\ (Running(t) => t \in unrecorded') /\ unrecorded \subseteq unrecorded'
  BY DEF Restart, Running
<1>2. JobOK(t)'
  BY <1>1 DEF JobOK
<1>3. MetaOK(t)'
  BY <1>1 DEF SessionOK, MetaOK, Readable, Restart, NoDraw, Backed
<1>4. FreshOK(t)'
  BY DEF SessionOK, FreshOK, NoDraw, Restart
<1> QED
  BY <1>2, <1>3, <1>4 DEF SessionOK

\* Draws no step touched.
LEMMA DrawsKept ==
  ASSUME DrawsOK, draws' = draws, mirror \subseteq mirror', published \subseteq published',
         \A d \in draws : acked'[d.session] = acked[d.session]
  PROVE  DrawsOK' /\ \A t : (NoDraw(t) => NoDraw(t)') /\ (Backed(t) => Backed(t)')
<1>1. AtMostOneDraw'
  BY DEF DrawsOK, AtMostOneDraw
<1>2. ASSUME NEW d \in draws' PROVE DrawOK(d)'
  BY DEF DrawsOK, DrawOK
<1> QED
  BY <1>1, <1>2 DEF DrawsOK, NoDraw, Backed

\* A draw that moves on, on chain or by its job, is the same draw.
LEMMA DrawMoved ==
  ASSUME SessionsTypeOK, DrawsOK, NEW d \in draws, d.state # "settled",
         NEW st \in {"preparing", "prepared", "settling", "settled"},
         draws' = (draws \ {d}) \cup {[d EXCEPT !.state = st]},
         mirror' = mirror, published' = published, acked' = acked
  PROVE  /\ DrawsOK' /\ draws' \subseteq DrawRecords
         /\ \A t : (NoDraw(t) => NoDraw(t)') /\ (Backed(t) => Backed(t)')
<1> DEFINE e == [d EXCEPT !.state = st]
<1>1. d \in DrawRecords /\ draws \subseteq DrawRecords
  BY DEF SessionsTypeOK
<1>2. e \in DrawRecords /\ e.session = d.session /\ e.snap = d.snap /\ e.count = d.count
  BY <1>1 DEF DrawRecords
<1>3. draws' = (draws \ {d}) \cup {e}
  OBVIOUS
<1> HIDE DEF e
<1>4. AtMostOneDraw'
  BY <1>2, <1>3 DEF DrawsOK, AtMostOneDraw
<1>5. ASSUME NEW x \in draws' PROVE DrawOK(x)'
  BY <1>2, <1>3 DEF DrawsOK, DrawOK
<1>6. draws' \subseteq DrawRecords
  BY <1>1, <1>2, <1>3
<1>7. ASSUME NEW t PROVE (NoDraw(t) => NoDraw(t)') /\ (Backed(t) => Backed(t)')
  BY <1>2, <1>3 DEF NoDraw, Backed
<1> QED
  BY <1>4, <1>5, <1>6, <1>7 DEF DrawsOK

-----------------------------------------------------------------------------
(* Each action keeps the invariant. *)

\* A fresh server.
LEMMA InitSessions ==
  ASSUME Init
  PROVE  SessionsInv
<1>1. SessionsTypeOK
  BY EmptyChunking DEF Init, SessionsTypeOK
<1>2. ASSUME NEW s \in Sessions PROVE SessionOK(s)
  <2>1. ~Running(s) /\ ~Readable(s) /\ acked[s] = NoFiles /\ NoDraw(s)
    BY DEF Init, Running, Readable, NoDraw
  <2> QED
    BY <2>1 DEF SessionOK, JobOK, MetaOK, FreshOK, Running
<1>3. DrawsOK
  BY DEF Init, DrawsOK, AtMostOneDraw
<1> QED
  BY <1>1, <1>2, <1>3 DEF SessionsInv

\* handlePartnerSnapshotInit: the new session is empty, the expired are gone.
LEMMA CreateStep ==
  ASSUME SessionsInv, NEW s \in Sessions, CreateSession(s)
  PROVE  SessionsInv'
<1> USE DEF SessionsInv
<1>1. s \notin issued /\ s \notin dir /\ s \notin Expired /\ Expired \subseteq dir
  BY DEF CreateSession, SessionsTypeOK, Expired
<1>2. NewMeta \in MetaRecords /\ NewMeta.status = "open" /\ NewMeta.stage = "none"
      /\ NewMeta.chunks = {} /\ NewMeta.count = 0
  BY DEF NewMeta, MetaRecords, SessionsTypeOK, Stages
<1>3. /\ meta'[s] = NewMeta /\ files'[s] = NoFiles /\ files'[s] = files[s]
      /\ dir' = (dir \ Expired) \cup {s} /\ issued' = issued \cup {s}
  BY <1>1 DEF CreateSession, SessionsTypeOK
<1>4. ASSUME NEW t \in Sessions, t \in Expired
      PROVE  meta'[t] = NoMeta /\ files'[t] = NoFiles /\ t \notin dir'
  BY <1>1, <1>3, <1>4 DEF CreateSession
<1>5. ASSUME NEW t \in Sessions, t # s, t \notin Expired
      PROVE  meta'[t] = meta[t] /\ files'[t] = files[t] /\ (t \in dir' <=> t \in dir)
  BY <1>3, <1>5 DEF CreateSession
<1>6. /\ DOMAIN meta' = Sessions /\ DOMAIN files' = Sessions
      /\ UNCHANGED <<mirror, published, index, jobs, draws, clock, crashes, finalizes,
                     acked, unrecorded, unindexed>>
      /\ meta' = [t \in Sessions |-> meta'[t]] /\ files' = [t \in Sessions |-> files'[t]]
  BY DEF CreateSession
<1>7. SessionsTypeOK'
  <2>1. ASSUME NEW t \in Sessions
        PROVE  meta'[t] \in MetaRecords \cup {NoMeta, Torn} /\ files'[t] \in Chunkings
    BY <1>2, <1>3, <1>4, <1>5, EmptyChunking DEF SessionsTypeOK
  <2>2. ASSUME NEW t \in Sessions \ dir' PROVE meta'[t] = NoMeta /\ files'[t] = NoFiles
    BY <1>3, <1>4, <1>5 DEF SessionsTypeOK
  <2> QED
    BY <1>3, <1>6, <2>1, <2>2 DEF SessionsTypeOK
<1>8. DrawsOK' /\ \A t : (NoDraw(t) => NoDraw(t)') /\ (Backed(t) => Backed(t)')
  BY <1>6, DrawsKept
<1>9. ASSUME NEW t \in Sessions PROVE SessionOK(t)'
  <2>1. CASE t = s
    <3>1. ~Running(s)' /\ acked'[s] = NoFiles /\ NoDraw(s)'
      BY <1>1, <1>6, <1>8 DEF SessionOK, FreshOK, Running
    <3>2. DOMAIN acked'[s] = {} /\ Participants(acked'[s]) = 0 /\ Extends(files'[s], acked'[s])
      BY <3>1, EmptyChunking, NoParticipants
    <3>3. MetaOK(s)'
      BY <1>2, <1>3, <3>1, <3>2 DEF MetaOK
    <3> QED
      BY <2>1, <3>1, <3>3, <1>3 DEF SessionOK, JobOK, FreshOK
  <2>2. CASE t \in Expired
    <3>1. SessionOK(t) /\ meta'[t] = NoMeta /\ t \notin dir'
      BY <2>2, <1>4
    <3> QED
      BY <3>1, <1>3, <1>6, Removed
  <2>3. CASE t # s /\ t \notin Expired
    <3>1. SessionOK(t) /\ meta'[t] = meta[t] /\ files'[t] = files[t] /\ (t \in dir' <=> t \in dir)
      BY <2>3, <1>5
    <3> QED
      BY <3>1, <1>3, <1>6, <1>8, Kept
  <2> QED
    BY <2>1, <2>2, <2>3
<1> QED
  BY <1>7, <1>8, <1>9

\* handlePartnerSnapshotChunk: the file, the metadata and the acknowledgement
\* take the same chunk.
LEMMA UploadStep ==
  ASSUME SessionsInv, NEW s \in Sessions, NEW i \in ChunkIndexes, NEW c \in ChunkSizes,
         UploadChunk(s, i, c)
  PROVE  SessionsInv'
<1> USE DEF SessionsInv
<1>1. /\ Readable(s) /\ meta[s].status = "open" /\ i \notin meta[s].chunks
      /\ meta[s] \in MetaRecords /\ s \in dir
  BY ReadableIs DEF UploadChunk, Uploadable, NewChunk
<1>2. /\ meta[s].stage = "none" /\ meta[s].chunks = DOMAIN acked[s]
      /\ meta[s].count = Participants(acked[s]) /\ Extends(files[s], acked[s])
      /\ NoDraw(s)
  BY <1>1 DEF SessionOK, MetaOK
<1>3. ~Running(s)
  BY <1>1 DEF SessionOK, JobOK
<1>4. files[s] \in Chunkings /\ acked[s] \in Chunkings /\ c \in ChunkSizes \cup {TornChunk}
      /\ c \in Nat
  BY SizesAssumption DEF SessionsTypeOK
<1>5. /\ files' = [files EXCEPT ![s] = With(files[s], i, c)]
      /\ acked' = [acked EXCEPT ![s] = With(acked[s], i, c)]
      /\ UNCHANGED <<dir, mirror, published, index, jobs, draws, clock, crashes, finalizes,
                     issued, unrecorded, unindexed>>
  BY <1>1, <1>2 DEF UploadChunk, SessionsTypeOK
<1> DEFINE n == [meta[s] EXCEPT !.chunks = @ \cup {i}, !.count = @ + c]
<1>6. /\ n \in MetaRecords /\ n.status = "open" /\ n.stage = "none"
      /\ n.chunks = meta[s].chunks \cup {i} /\ n.count = meta[s].count + c
  <2>1. meta[s].chunks \cup {i} \in SUBSET ChunkIndexes /\ meta[s].count + c \in Nat
    BY <1>1, <1>4, MetaIs
  <2> QED
    BY <1>1, <1>2, <2>1 DEF MetaRecords
<1>7. meta' = [meta EXCEPT ![s] = n]
  BY DEF UploadChunk, SessionsTypeOK
<1> HIDE DEF n
<1>8. /\ With(files[s], i, c) \in Chunkings /\ With(acked[s], i, c) \in Chunkings
      /\ DOMAIN With(acked[s], i, c) = DOMAIN acked[s] \cup {i}
  BY <1>4, WithIs
<1>9. Extends(With(files[s], i, c), With(acked[s], i, c))
  BY <1>1, <1>2, <1>4, WithExtends
<1>10. Participants(With(acked[s], i, c)) = Participants(acked[s]) + c
  BY <1>1, <1>2, <1>4, WithParticipants
<1>11. SessionsTypeOK'
  BY <1>1, <1>5, <1>6, <1>7, <1>8 DEF SessionsTypeOK
<1>12. /\ meta'[s] = n /\ files'[s] = With(files[s], i, c) /\ acked'[s] = With(acked[s], i, c)
       /\ \A t \in Sessions \ {s} :
            meta'[t] = meta[t] /\ files'[t] = files[t] /\ acked'[t] = acked[t]
  BY <1>5, <1>7 DEF SessionsTypeOK
<1>13. DrawsOK' /\ \A t : (NoDraw(t) => NoDraw(t)') /\ (Backed(t) => Backed(t)')
  <2>1. \A d \in draws : d.session \in Sessions /\ d.session # s
    BY <1>2 DEF NoDraw, SessionsTypeOK, DrawRecords
  <2>2. \A d \in draws : acked'[d.session] = acked[d.session]
    BY <2>1, <1>12
  <2> QED
    BY <2>2, <1>5, DrawsKept
<1>14. SessionOK(s)'
  <2>1. ~Running(s)' /\ NoDraw(s)' /\ s \in issued'
    BY <1>1, <1>2, <1>3, <1>5, <1>13 DEF Running, SessionsTypeOK
  <2>2. MetaOK(s)'
    BY <2>1, <1>2, <1>6, <1>8, <1>9, <1>10, <1>12 DEF MetaOK
  <2> QED
    BY <2>1, <2>2 DEF SessionOK, JobOK, FreshOK
<1>15. ASSUME NEW t \in Sessions, t # s PROVE SessionOK(t)'
  BY <1>5, <1>12, <1>13, <1>15, Kept
<1> QED
  BY <1>11, <1>13, <1>14, <1>15

\* handlePartnerSnapshotFinalize: the job starts from the metadata it saved.
LEMMA StartStep ==
  ASSUME SessionsInv, NEW s \in Sessions, StartFinalize(s)
  PROVE  SessionsInv'
<1> USE DEF SessionsInv
<1> DEFINE m == [meta[s] EXCEPT !.status = "finalizing", !.stage = "building"]
    j == [pc |-> "building", m |-> m, snap |-> NoFiles]
<1>1. /\ Readable(s) /\ ~Running(s) /\ meta[s] \in MetaRecords /\ s \in dir
      /\ \/ meta[s].status = "open"
         \/ meta[s].status \in {"finalizing", "failed"} /\ meta[s].stage \in {"building", "publishing"}
  BY ReadableIs DEF StartFinalize, Finalizable, RetryableStages
<1>2. /\ meta[s].count = Participants(acked[s]) /\ Extends(files[s], acked[s]) /\ NoDraw(s)
  BY <1>1 DEF SessionOK, MetaOK
<1>3. /\ m \in MetaRecords /\ m.status = "finalizing" /\ m.stage = "building"
      /\ m.count = meta[s].count
  BY <1>1 DEF MetaRecords, Stages
<1>4. j \in JobRecords /\ j # NoJob /\ j.pc = "building" /\ j.m = m
  <2> HIDE DEF m
  <2> QED
    BY <1>3, JobMade, EmptyChunking
<1>5. /\ meta' = [meta EXCEPT ![s] = m] /\ jobs' = [jobs EXCEPT ![s] = j]
      /\ UNCHANGED <<dir, files, mirror, published, index, draws, clock, crashes,
                     issued, acked, unrecorded, unindexed>>
      /\ finalizes' = finalizes + 1
  BY DEF StartFinalize
<1> HIDE DEF m, j
<1>6. SessionsTypeOK'
  BY <1>1, <1>3, <1>4, <1>5 DEF SessionsTypeOK
<1>7. /\ meta'[s] = m /\ jobs'[s] = j
      /\ \A t \in Sessions \ {s} : meta'[t] = meta[t] /\ jobs'[t] = jobs[t]
  BY <1>5 DEF SessionsTypeOK
<1>8. DrawsOK' /\ \A t : (NoDraw(t) => NoDraw(t)') /\ (Backed(t) => Backed(t)')
  BY <1>5, DrawsKept
<1>9. SessionOK(s)'
  <2>1. Readable(s)' /\ Running(s)' /\ NoDraw(s)' /\ m # Torn
    BY <1>2, <1>3, <1>4, <1>7, <1>8, MetaIs DEF Readable, Running
  <2>2. JobOK(s)'
    BY <2>1, <1>2, <1>3, <1>4, <1>5, <1>7 DEF JobOK, StageOf
  <2>3. MetaOK(s)'
    BY <2>1, <1>2, <1>3, <1>5, <1>7 DEF MetaOK
  <2>4. FreshOK(s)'
    BY <1>1, <1>5 DEF FreshOK, SessionsTypeOK
  <2> QED
    BY <2>2, <2>3, <2>4 DEF SessionOK
<1>10. ASSUME NEW t \in Sessions, t # s PROVE SessionOK(t)'
  BY <1>5, <1>7, <1>8, <1>10, Kept
<1> QED
  BY <1>6, <1>8, <1>9, <1>10

\* setStage: a stage the job has reached is saved while the session is there.
LEMMA StageStep ==
  ASSUME SessionsInv, NEW s \in Sessions, Running(s),
         NEW sg \in {"publishing", "committing"}, NEW snap \in Chunkings,
         SetStage(s, sg, snap), jobs[s].pc \in {"building", "uploaded"},
         Faithful(snap, acked[s], jobs[s].m.count),
         sg = "committing" => snap \in mirror /\ snap \in published,
         UNCHANGED <<dir, files, mirror, published, index, draws, clock, crashes, finalizes,
                     issued, acked, unrecorded, unindexed>>
  PROVE  SessionsInv'
<1> USE DEF SessionsInv
<1> DEFINE m == [jobs[s].m EXCEPT !.stage = sg]
    j == [pc |-> sg, m |-> m, snap |-> snap]
<1>1. /\ s \in dir /\ Readable(s) /\ meta[s] = jobs[s].m /\ jobs[s].m \in MetaRecords
      /\ jobs[s].m.status = "finalizing" /\ jobs[s].m.count = Participants(acked[s])
      /\ NoDraw(s) /\ meta[s] \in MetaRecords
  BY RunningIs DEF SetStage, SessionOK, JobOK
<1>2. Extends(files[s], acked[s])
  BY <1>1 DEF SessionOK, JobOK, MetaOK, StageOf
<1>3. /\ m \in MetaRecords /\ m.status = "finalizing" /\ m.stage = sg
      /\ m.count = jobs[s].m.count
  BY <1>1 DEF MetaRecords, Stages
<1>4. j \in JobRecords /\ j # NoJob /\ j.pc = sg /\ j.m = m /\ j.snap = snap
  <2> HIDE DEF m
  <2> QED
    BY <1>3, JobMade
<1>5. meta' = [meta EXCEPT ![s] = m] /\ jobs' = [jobs EXCEPT ![s] = j]
  BY DEF SetStage
<1> HIDE DEF m, j
<1>6. SessionsTypeOK'
  BY <1>1, <1>3, <1>4, <1>5 DEF SessionsTypeOK
<1>7. /\ meta'[s] = m /\ jobs'[s] = j
      /\ \A t \in Sessions \ {s} : meta'[t] = meta[t] /\ jobs'[t] = jobs[t]
  BY <1>5 DEF SessionsTypeOK
<1>8. DrawsOK' /\ \A t : (NoDraw(t) => NoDraw(t)') /\ (Backed(t) => Backed(t)')
  BY DrawsKept
<1>9. SessionOK(s)'
  <2>1. Readable(s)' /\ Running(s)' /\ NoDraw(s)' /\ m # Torn
    BY <1>1, <1>3, <1>4, <1>7, <1>8, MetaIs DEF Readable, Running
  <2>2. JobOK(s)'
    BY <2>1, <1>1, <1>3, <1>4, <1>7 DEF JobOK, StageOf
  <2>3. MetaOK(s)'
    BY <2>1, <1>1, <1>2, <1>3, <1>7 DEF MetaOK
  <2>4. FreshOK(s)'
    BY <1>1 DEF FreshOK, SessionsTypeOK
  <2> QED
    BY <2>2, <2>3, <2>4 DEF SessionOK
<1>10. ASSUME NEW t \in Sessions, t # s PROVE SessionOK(t)'
  BY <1>7, <1>8, <1>10, Kept
<1> QED
  BY <1>6, <1>8, <1>9, <1>10

\* finalizeSnapshotSession: what is built holds every acknowledged chunk, and
\* in the file modes nothing else.
LEMMA BuildStep ==
  ASSUME SessionsInv, NEW s \in Sessions, JobBuild(s)
  PROVE  SessionsInv'
<1> USE DEF SessionsInv
<1>1. Running(s) /\ jobs[s].pc = "building" /\ Buildable(s) /\ SetStage(s, "publishing", files[s])
  BY AtStageRuns DEF JobBuild
<1>2. /\ files[s] \in Chunkings /\ acked[s] \in Chunkings
      /\ Readable(s) /\ meta[s] = jobs[s].m
      /\ jobs[s].m.status = "finalizing" /\ jobs[s].m.count = Participants(acked[s])
  BY <1>1 DEF SessionsTypeOK, SetStage, SessionOK, JobOK
<1>3. Extends(files[s], acked[s])
  BY <1>1, <1>2 DEF SessionOK, JobOK, MetaOK, StageOf
<1>4. FileMode(jobs[s].m.count) => files[s] = acked[s]
  BY <1>1, <1>2, <1>3, SameCountSameChunks DEF Buildable
<1>5. Faithful(files[s], acked[s], jobs[s].m.count)
  BY <1>3, <1>4 DEF Faithful
<1> QED
  BY <1>1, <1>2, <1>5, StageStep DEF JobBuild

\* The read-back: only a snapshot that was read from the public storage is
\* committed.
LEMMA ReadBackStep ==
  ASSUME SessionsInv, NEW s \in Sessions, JobReadBack(s)
  PROVE  SessionsInv'
<1> USE DEF SessionsInv
<1>1. Running(s) /\ jobs[s].pc = "uploaded" /\ jobs[s].snap \in published
      /\ SetStage(s, "committing", jobs[s].snap)
  BY AtStageRuns DEF JobReadBack
<1>2. jobs[s].snap \in Chunkings
  BY <1>1, RunningIs
<1>3. Faithful(jobs[s].snap, acked[s], jobs[s].m.count) /\ jobs[s].snap \in mirror
  BY <1>1 DEF SessionOK, JobOK
<1> QED
  BY <1>1, <1>2, <1>3, StageStep DEF JobReadBack

\* storeMirrorCopy and storage.publish: the mirror and the storage only grow.
LEMMA PublishStep ==
  ASSUME SessionsInv, NEW s \in Sessions, StoreMirrorCopy(s) \/ JobUpload(s)
  PROVE  SessionsInv'
<1> USE DEF SessionsInv
<1> DEFINE pc == IF StoreMirrorCopy(s) THEN "mirrored" ELSE "uploaded"
    j == [jobs[s] EXCEPT !.pc = pc]
<1>1. /\ Running(s) /\ pc \in {"mirrored", "uploaded"}
      /\ jobs[s].pc \in {"publishing", "mirrored"} /\ jobs' = [jobs EXCEPT ![s] = j]
  BY AtStageRuns DEF StoreMirrorCopy, JobUpload
<1>2. jobs[s] \in JobRecords /\ jobs[s].m \in MetaRecords /\ jobs[s].snap \in Chunkings
  BY <1>1, RunningIs
<1>3. j \in JobRecords /\ j.pc = pc /\ j.m = jobs[s].m /\ j.snap = jobs[s].snap /\ j # NoJob
  <2>1. pc \in {"mirrored", "uploaded"}
    BY <1>1
  <2> HIDE DEF pc
  <2>2. j \in JobRecords /\ j.pc = pc /\ j.m = jobs[s].m /\ j.snap = jobs[s].snap
    BY <1>2, <2>1 DEF JobRecords
  <2>3. NoJob.pc = "none"
    BY DEF NoJob
  <2> QED
    BY <2>1, <2>2, <2>3
<1>4. /\ UNCHANGED <<dir, meta, files, index, draws, clock, crashes, finalizes,
                     issued, acked, unrecorded, unindexed>>
      /\ mirror \subseteq mirror' /\ mirror' \subseteq mirror \cup {jobs[s].snap}
      /\ published \subseteq published' /\ published' \subseteq published \cup {jobs[s].snap}
      /\ jobs[s].snap \in mirror'
  <2>1. CASE StoreMirrorCopy(s)
    BY <2>1 DEF StoreMirrorCopy
  <2>2. CASE JobUpload(s)
    <3>1. jobs[s].snap \in mirror
      BY <2>2, <1>1 DEF JobUpload, SessionOK, JobOK
    <3> QED
      BY <2>2, <3>1 DEF JobUpload, StoragePublish
  <2> QED
    BY <2>1, <2>2
<1> HIDE DEF pc, j
<1>5. SessionsTypeOK'
  BY <1>1, <1>2, <1>3, <1>4 DEF SessionsTypeOK
<1>6. jobs'[s] = j /\ \A t \in Sessions \ {s} : jobs'[t] = jobs[t]
  BY <1>1 DEF SessionsTypeOK
<1>7. DrawsOK' /\ \A t : (NoDraw(t) => NoDraw(t)') /\ (Backed(t) => Backed(t)')
  BY <1>4, DrawsKept
<1>8. SessionOK(s)'
  <2>1. Running(s)' /\ (Readable(s)' <=> Readable(s))
    BY <1>3, <1>4, <1>6 DEF Running, Readable
  <2>2. JobOK(s)'
    <3>1. StageOf(j.pc) = "publishing" /\ StageOf(jobs[s].pc) = "publishing"
      BY <1>1, <1>3 DEF StageOf
    <3> QED
      BY <3>1, <2>1, <1>1, <1>3, <1>4, <1>6, <1>7 DEF SessionOK, JobOK
  <2>3. MetaOK(s)'
    BY <2>1, <1>1, <1>4, <1>7 DEF SessionOK, MetaOK
  <2>4. FreshOK(s)'
    BY <1>1, <1>4 DEF SessionOK, FreshOK, Running
  <2> QED
    BY <2>2, <2>3, <2>4 DEF SessionOK
<1>9. ASSUME NEW t \in Sessions, t # s PROVE SessionOK(t)'
  BY <1>4, <1>6, <1>7, <1>9, Kept
<1> QED
  BY <1>5, <1>7, <1>8, <1>9

\* resolveInlineRngV2: the first and only draw of the session is sent.
LEMMA PrepareStep ==
  ASSUME SessionsInv, NEW s \in Sessions, JobPrepare(s)
  PROVE  SessionsInv'
<1> USE DEF SessionsInv
<1> DEFINE d == [session |-> s, snap |-> jobs[s].snap, count |-> jobs[s].m.count,
                 state |-> "preparing"]
    j == [jobs[s] EXCEPT !.pc = "drawing"]
<1>1. /\ Running(s) /\ jobs[s].pc = "committing" /\ jobs' = [jobs EXCEPT ![s] = j]
      /\ draws' = draws \cup {d} /\ dir' = dir \cup {s}
      /\ UNCHANGED <<meta, files, mirror, published, index, clock, crashes, finalizes,
                     issued, acked, unrecorded, unindexed>>
  BY AtStageRuns DEF JobPrepare
<1>2. jobs[s] \in JobRecords /\ jobs[s].m \in MetaRecords /\ jobs[s].snap \in Chunkings
      /\ jobs[s].m.count \in Nat
  BY <1>1, RunningIs, MetaIs
<1>3. /\ d \in DrawRecords /\ d.session = s /\ d.snap = jobs[s].snap
      /\ d.count = jobs[s].m.count /\ d.state = "preparing"
  BY <1>2 DEF DrawRecords
<1>4. j \in JobRecords /\ j.pc = "drawing" /\ j.m = jobs[s].m /\ j.snap = jobs[s].snap /\ j # NoJob
  <2>1. j \in JobRecords /\ j.pc = "drawing" /\ j.m = jobs[s].m /\ j.snap = jobs[s].snap
    BY <1>2 DEF JobRecords
  <2>2. NoJob.pc = "none"
    BY DEF NoJob
  <2> QED
    BY <2>1, <2>2
<1> HIDE DEF d, j
<1>5. /\ NoDraw(s) /\ s \in issued
      /\ Faithful(jobs[s].snap, acked[s], jobs[s].m.count)
      /\ jobs[s].snap \in mirror /\ jobs[s].snap \in published
      /\ jobs[s].m.status = "finalizing" /\ jobs[s].m.stage = "committing"
      /\ jobs[s].m.count = Participants(acked[s]) /\ meta[s] # Torn
      /\ Readable(s) => meta[s] = jobs[s].m
  BY <1>1 DEF SessionOK, JobOK, FreshOK, Running, StageOf
<1>6. SessionsTypeOK'
  BY <1>1, <1>3, <1>4, <1>5 DEF SessionsTypeOK
<1>7. jobs'[s] = j /\ \A t \in Sessions \ {s} : jobs'[t] = jobs[t]
  BY <1>1 DEF SessionsTypeOK
<1>8. DrawsOK'
  <2>1. AtMostOneDraw'
    BY <1>1, <1>3, <1>5 DEF DrawsOK, AtMostOneDraw, NoDraw
  <2>2. ASSUME NEW e \in draws' PROVE DrawOK(e)'
    BY <1>1, <1>3, <1>5 DEF DrawsOK, DrawOK
  <2> QED
    BY <2>1, <2>2 DEF DrawsOK
<1>9. /\ \A t \in Sessions \ {s} : NoDraw(t) => NoDraw(t)'
      /\ \A t \in Sessions : Backed(t) => Backed(t)'
  BY <1>1, <1>3 DEF NoDraw, Backed
<1>10. SessionOK(s)'
  <2>1. Running(s)' /\ (Readable(s)' <=> Readable(s)) /\ StageOf(j.pc) = "committing"
    BY <1>1, <1>4, <1>7 DEF Running, Readable, StageOf
  <2>2. JobOK(s)'
    BY <2>1, <1>1, <1>4, <1>5, <1>7 DEF JobOK
  <2>3. MetaOK(s)'
    BY <2>1, <1>1, <1>5, <1>9 DEF SessionOK, MetaOK
  <2>4. FreshOK(s)'
    BY <1>1, <1>5 DEF FreshOK
  <2> QED
    BY <2>2, <2>3, <2>4 DEF SessionOK
<1>11. ASSUME NEW t \in Sessions, t # s PROVE SessionOK(t)'
  BY <1>1, <1>7, <1>9, <1>11, Kept
<1> QED
  BY <1>6, <1>8, <1>10, <1>11

\* A draw moves on: its job sends the settle, or a transaction of it lands,
\* whoever still waits for it.
LEMMA MoveStep ==
  ASSUME SessionsInv, (\E s \in Sessions : JobSettle(s)) \/ (\E d \in draws : Land(d))
  PROVE  SessionsInv'
<1> USE DEF SessionsInv
<1>1. PICK d \in draws, st \in {"preparing", "prepared", "settling", "settled"} :
        d.state # "settled" /\ draws' = (draws \ {d}) \cup {[d EXCEPT !.state = st]}
  <2>1. CASE \E s \in Sessions : JobSettle(s)
    BY <2>1 DEF JobSettle
  <2>2. CASE \E d \in draws : Land(d)
    <3>1. PICK d \in draws : Land(d)
      BY <2>2
    <3>2. CASE d.state = "preparing"
      BY <3>1, <3>2 DEF Land
    <3>3. CASE d.state = "settling"
      BY <3>1, <3>3 DEF Land
    <3> QED
      BY <3>1, <3>2, <3>3 DEF Land
  <2> QED
    BY <2>1, <2>2
<1>2. UNCHANGED <<dir, meta, files, mirror, published, index, jobs, clock, crashes, finalizes,
                  issued, acked, unrecorded, unindexed>>
  BY DEF JobSettle, Land, disk
<1>3. /\ DrawsOK' /\ draws' \subseteq DrawRecords
      /\ \A t : (NoDraw(t) => NoDraw(t)') /\ (Backed(t) => Backed(t)')
  BY <1>1, <1>2, DrawMoved
<1>4. SessionsTypeOK'
  BY <1>2, <1>3 DEF SessionsTypeOK
<1>5. ASSUME NEW t \in Sessions PROVE SessionOK(t)'
  BY <1>2, <1>3, Kept
<1> QED
  BY <1>3, <1>4, <1>5

\* The metadata a job of a settled draw saves.
LEMMA FinishedMeta ==
  ASSUME SessionsInv, NEW s \in Sessions, jobs[s].pc = "drawing", DrawIs(s, "settled")
  PROVE  /\ Finished(s) \in MetaRecords /\ Finished(s).status = "finalized"
         /\ Finished(s).stage = "settled" /\ Backed(s) /\ s \in issued
<1> USE DEF SessionsInv
<1>1. Running(s)
  BY AtStageRuns
<1>2. jobs[s].m \in MetaRecords
  BY <1>1, RunningIs
<1>3. Backed(s) /\ s \in issued
  BY <1>1 DEF Backed, DrawIs, DrawsOK, DrawOK, SessionOK, FreshOK, Running
<1> QED
  BY <1>2, <1>3 DEF MetaRecords, Stages, Finished

\* The draw settled: its job ends with the session finalized, marked failed or
\* torn, whatever became of the index file.
LEMMA Ended ==
  ASSUME SessionsInv, NEW s \in Sessions, jobs[s].pc = "drawing", DrawIs(s, "settled"), s \in dir,
         NEW n \in {Finished(s), [Finished(s) EXCEPT !.status = "failed"], Torn},
         meta' = [meta EXCEPT ![s] = n], jobs' = [jobs EXCEPT ![s] = NoJob],
         NEW file \in {"none", "written", "torn"}, index' = [index EXCEPT ![s] = file],
         unindexed' \subseteq Sessions,
         UNCHANGED <<dir, files, mirror, published, draws, clock, crashes, finalizes,
                     issued, acked, unrecorded>>
  PROVE  SessionsInv'
<1> USE DEF SessionsInv
<1>1. Running(s) /\ s \in issued /\ Backed(s)
  BY AtStageRuns, FinishedMeta
<1>3. \/ n = Torn
      \/ n \in MetaRecords /\ n.status \in {"finalized", "failed"} /\ n.stage = "settled"
  <2>1. Finished(s) \in MetaRecords /\ Finished(s).status = "finalized" /\ Finished(s).stage = "settled"
    BY FinishedMeta
  <2>2. CASE n = Finished(s)
    BY <2>1, <2>2
  <2>3. CASE n = [Finished(s) EXCEPT !.status = "failed"]
    BY <2>1, <2>3 DEF MetaRecords
  <2> QED
    BY <2>2, <2>3
<1>4. SessionsTypeOK'
  <2>1. meta' \in [Sessions -> MetaRecords \cup {NoMeta, Torn}]
    BY <1>3 DEF SessionsTypeOK
  <2>2. jobs' \in [Sessions -> JobRecords \cup {NoJob}]
    BY DEF SessionsTypeOK
  <2>3. index' \in [Sessions -> {"none", "written", "torn"}]
    BY DEF SessionsTypeOK
  <2>4. \A t \in Sessions \ dir' : meta'[t] = NoMeta /\ files'[t] = NoFiles
    BY DEF SessionsTypeOK
  <2> QED
    BY <2>1, <2>2, <2>3, <2>4 DEF SessionsTypeOK
<1>5. /\ meta'[s] = n /\ jobs'[s] = NoJob
      /\ \A t \in Sessions \ {s} : meta'[t] = meta[t] /\ jobs'[t] = jobs[t]
  BY DEF SessionsTypeOK
<1>6. DrawsOK' /\ \A t : (NoDraw(t) => NoDraw(t)') /\ (Backed(t) => Backed(t)')
  BY DrawsKept
<1>7. SessionOK(s)'
  <2>1. MetaOK(s)'
    BY <1>1, <1>3, <1>5, <1>6 DEF MetaOK, Readable
  <2> QED
    BY <1>1, <1>5, <2>1 DEF SessionOK, JobOK, FreshOK, Running
<1>8. ASSUME NEW t \in Sessions, t # s PROVE SessionOK(t)'
  BY <1>5, <1>6, <1>8, Kept
<1> QED
  BY <1>4, <1>6, <1>7, <1>8

LEMMA FinishStep ==
  ASSUME SessionsInv, NEW s \in Sessions, JobFinish(s)
  PROVE  SessionsInv'
  BY Ended DEF JobFinish, SessionsInv, SessionsTypeOK

LEMMA IndexFailsStep ==
  ASSUME SessionsInv, NEW s \in Sessions, JobIndexFails(s)
  PROVE  SessionsInv'
<1>1. PICK n \in {Finished(s), [Finished(s) EXCEPT !.status = "failed"], Torn} :
        meta' = [meta EXCEPT ![s] = n]
  BY DEF JobIndexFails
<1>2. PICK file \in {"none", "torn"} : index' = [index EXCEPT ![s] = file]
  BY DEF JobIndexFails
<1>3. unindexed' \subseteq Sessions
  BY DEF JobIndexFails, SessionsInv, SessionsTypeOK
<1> QED
  BY <1>1, <1>2, <1>3, Ended DEF JobIndexFails

\* A job that throws marks what it can read as failed, at the stage it reached.
LEMMA FailStep ==
  ASSUME SessionsInv, NEW s \in Sessions, JobFail(s)
  PROVE  SessionsInv'
<1> USE DEF SessionsInv
<1>1. /\ Running(s) /\ jobs' = [jobs EXCEPT ![s] = NoJob] /\ FailureSaved(s)
      /\ UNCHANGED <<dir, files, mirror, published, index, draws, clock, crashes, finalizes,
                     issued, acked, unindexed>>
  BY DEF JobFail
<1>2. s \in issued
  BY <1>1 DEF SessionOK, FreshOK, Running
<1>3. jobs'[s] = NoJob /\ \A t \in Sessions \ {s} : jobs'[t] = jobs[t]
  BY <1>1 DEF SessionsTypeOK
<1>4. DrawsOK' /\ \A t : (NoDraw(t) => NoDraw(t)') /\ (Backed(t) => Backed(t)')
  BY <1>1, DrawsKept
<1> DEFINE n == [meta[s] EXCEPT !.status = "failed"]
<1>5. Readable(s) => /\ meta[s] \in MetaRecords /\ meta[s] = jobs[s].m
                     /\ meta[s].status = "finalizing" /\ s \in dir
  BY <1>1, ReadableIs DEF SessionOK, JobOK
<1>6. /\ \/ UNCHANGED meta /\ (s \in unrecorded' \/ ~Readable(s))
         \/ Readable(s) /\ meta' = [meta EXCEPT ![s] = n]
         \/ Readable(s) /\ meta' = [meta EXCEPT ![s] = Torn]
      /\ unrecorded' \subseteq Sessions /\ unrecorded \subseteq unrecorded'
  BY <1>1 DEF FailureSaved, MarkFailed, SessionsTypeOK
<1>7. Readable(s) => /\ n \in MetaRecords /\ n.status = "failed" /\ n.stage = meta[s].stage
                     /\ n.count = meta[s].count
  BY <1>5 DEF MetaRecords
<1> HIDE DEF n
<1>8. SessionsTypeOK'
  BY <1>1, <1>5, <1>6, <1>7 DEF SessionsTypeOK
<1>9. /\ \A t \in Sessions \ {s} : meta'[t] = meta[t]
      /\ \/ meta'[s] = meta[s] /\ (s \in unrecorded' \/ ~Readable(s))
         \/ Readable(s) /\ meta'[s] \in {n, Torn}
  BY <1>6 DEF SessionsTypeOK
<1>10. MetaOK(s)'
  <2>1. CASE meta'[s] = meta[s] /\ (s \in unrecorded' \/ ~Readable(s))
    BY <1>1, <1>4, <2>1 DEF SessionOK, MetaOK, Readable
  <2>2. CASE meta'[s] = Torn
    BY <2>2 DEF MetaOK, Readable
  <2>3. CASE Readable(s) /\ meta'[s] = n
    BY <1>1, <1>4, <1>5, <1>7, <2>3 DEF SessionOK, MetaOK
  <2> QED
    BY <1>9, <2>1, <2>2, <2>3
<1>11. SessionOK(s)'
  BY <1>1, <1>2, <1>3, <1>10 DEF SessionOK, JobOK, FreshOK, Running
<1>12. ASSUME NEW t \in Sessions, t # s PROVE SessionOK(t)'
  BY <1>1, <1>3, <1>4, <1>6, <1>9, <1>12, Kept
<1> QED
  BY <1>4, <1>8, <1>11, <1>12

\* loadSnapshotSessionBySignature: a lookup removes what expired, and no more.
LEMMA LookupStep ==
  ASSUME SessionsInv, NEW s \in Sessions, LookupBySignature(s)
  PROVE  SessionsInv'
<1> USE DEF SessionsInv
<1>1. /\ dir' = dir \ Expired
      /\ meta' = [t \in Sessions |-> IF t \in Expired THEN NoMeta ELSE meta[t]]
      /\ files' = [t \in Sessions |-> IF t \in Expired THEN NoFiles ELSE files[t]]
      /\ UNCHANGED <<mirror, published, jobs, draws, clock, crashes, finalizes,
                     issued, acked, unrecorded, unindexed>>
  BY DEF LookupBySignature, Cleanup
<1>2. index' \in [Sessions -> {"none", "written", "torn"}]
  BY DEF LookupBySignature, SessionsTypeOK
<1>3. SessionsTypeOK'
  <2>1. meta' \in [Sessions -> MetaRecords \cup {NoMeta, Torn}]
    BY <1>1 DEF SessionsTypeOK
  <2>2. files' \in [Sessions -> Chunkings]
    BY <1>1, EmptyChunking DEF SessionsTypeOK
  <2>3. \A t \in Sessions \ dir' : meta'[t] = NoMeta /\ files'[t] = NoFiles
    BY <1>1 DEF SessionsTypeOK
  <2> QED
    BY <1>1, <1>2, <2>1, <2>2, <2>3 DEF SessionsTypeOK
<1>4. DrawsOK' /\ \A t : (NoDraw(t) => NoDraw(t)') /\ (Backed(t) => Backed(t)')
  BY <1>1, DrawsKept
<1>5. ASSUME NEW t \in Sessions PROVE SessionOK(t)'
  <2>1. CASE t \in Expired
    <3>1. SessionOK(t) /\ meta'[t] = NoMeta /\ t \notin dir'
      BY <1>1, <2>1
    <3> QED
      BY <3>1, <1>1, Removed
  <2>2. CASE t \notin Expired
    <3>1. SessionOK(t) /\ meta'[t] = meta[t] /\ files'[t] = files[t] /\ (t \in dir' <=> t \in dir)
      BY <1>1, <2>2
    <3> QED
      BY <3>1, <1>1, <1>4, Kept
  <2> QED
    BY <2>1, <2>2
<1> QED
  BY <1>3, <1>4, <1>5

\* What a restart keeps, whatever the crash did to the files of one session.
LEMMA RestartKeeps ==
  ASSUME SessionsInv, Restart
  PROVE  /\ DrawsOK' /\ \A t : (NoDraw(t) => NoDraw(t)') /\ (Backed(t) => Backed(t)')
         /\ \A t \in Sessions : ~Running(t)' /\ JobOK(t)' /\ FreshOK(t)'
         /\ jobs' \in [Sessions -> JobRecords \cup {NoJob}] /\ crashes' \in Nat
         /\ unrecorded' \subseteq Sessions
<1> USE DEF SessionsInv
<1>1. DrawsOK' /\ \A t : (NoDraw(t) => NoDraw(t)') /\ (Backed(t) => Backed(t)')
  BY DrawsKept DEF Restart
<1>2. \A t \in Sessions : ~Running(t)' /\ JobOK(t)'
  BY DEF Restart, Running, JobOK
<1>3. \A t \in Sessions : FreshOK(t)'
  BY <1>1 DEF Restart, SessionOK, FreshOK
<1>4. jobs' \in [Sessions -> JobRecords \cup {NoJob}] /\ crashes' \in Nat
      /\ unrecorded' \subseteq Sessions
  BY DEF Restart, SessionsTypeOK
<1> QED
  BY <1>1, <1>2, <1>3, <1>4

\* A crash between two operations.
LEMMA CrashIdleStep ==
  ASSUME SessionsInv, CrashIdle
  PROVE  SessionsInv'
<1> USE DEF SessionsInv
<1>1. Restart /\ UNCHANGED <<dir, meta, files, index, unindexed>>
  BY DEF CrashIdle
<1>2. SessionsTypeOK'
  BY <1>1, RestartKeeps DEF Restart, SessionsTypeOK
<1>3. ASSUME NEW t \in Sessions PROVE SessionOK(t)'
  BY <1>1, RestartedOK
<1> QED
  BY <1>1, <1>2, <1>3, RestartKeeps

\* A crash in the middle of a save: the metadata is no longer readable.
LEMMA CrashInSaveStep ==
  ASSUME SessionsInv, NEW s \in Sessions, CrashInSave(s)
  PROVE  SessionsInv'
<1> USE DEF SessionsInv
<1>1. Restart /\ s \in dir /\ meta' = [meta EXCEPT ![s] = Torn]
      /\ UNCHANGED <<dir, files, index, unindexed>>
  BY DEF CrashInSave
<1>2. SessionsTypeOK'
  BY <1>1, RestartKeeps DEF Restart, SessionsTypeOK
<1>3. meta'[s] = Torn /\ \A t \in Sessions \ {s} : meta'[t] = meta[t] /\ files'[t] = files[t]
  BY <1>1 DEF SessionsTypeOK
<1>4. SessionOK(s)'
  BY <1>1, <1>3, RestartKeeps DEF SessionOK, MetaOK, Readable
<1>5. ASSUME NEW t \in Sessions, t # s PROVE SessionOK(t)'
  BY <1>1, <1>3, <1>5, RestartedOK
<1> QED
  BY <1>1, <1>2, <1>4, <1>5, RestartKeeps

\* A crash in the middle of an upload: a chunk file nobody acknowledged.
LEMMA CrashInUploadStep ==
  ASSUME SessionsInv, NEW s \in Sessions, NEW i \in ChunkIndexes,
         NEW c \in ChunkSizes \cup {TornChunk}, CrashInUpload(s, i, c)
  PROVE  SessionsInv'
<1> USE DEF SessionsInv
<1>1. /\ Restart /\ files' = [files EXCEPT ![s] = With(files[s], i, c)]
      /\ UNCHANGED <<dir, meta, index, unindexed>>
      /\ Readable(s) /\ meta[s].status = "open" /\ i \notin meta[s].chunks
  BY DEF CrashInUpload, Uploadable, NewChunk
<1>2. s \in dir /\ files[s] \in Chunkings /\ acked[s] \in Chunkings
  BY <1>1, ReadableIs DEF SessionsTypeOK
<1>3. i \notin DOMAIN acked[s] /\ Extends(files[s], acked[s])
  BY <1>1 DEF SessionOK, MetaOK
<1>4. With(files[s], i, c) \in Chunkings
  BY <1>2, WithIs
<1>5. Extends(With(files[s], i, c), acked[s])
  BY <1>2, <1>3, WithExtends
<1>6. SessionsTypeOK'
  BY <1>1, <1>2, <1>4, RestartKeeps DEF Restart, SessionsTypeOK
<1>7. files'[s] = With(files[s], i, c) /\ \A t \in Sessions \ {s} : files'[t] = files[t]
  BY <1>1 DEF SessionsTypeOK
<1>8. SessionOK(s)'
  <2>1. acked' = acked
    BY <1>1 DEF Restart
  <2>2. MetaOK(s)'
    BY <1>1, <1>5, <1>7, <2>1, RestartKeeps DEF SessionOK, MetaOK, Readable
  <2> QED
    BY <1>1, <2>2, RestartKeeps DEF SessionOK
<1>9. ASSUME NEW t \in Sessions, t # s PROVE SessionOK(t)'
  BY <1>1, <1>7, <1>9, RestartedOK
<1> QED
  BY <1>1, <1>6, <1>8, <1>9, RestartKeeps

\* A crash between the finalized metadata and its index: the draw backs it.
LEMMA CrashBeforeIndexStep ==
  ASSUME SessionsInv, NEW s \in Sessions, CrashBeforeIndex(s)
  PROVE  SessionsInv'
<1> USE DEF SessionsInv
<1> DEFINE n == Finished(s)
<1>1. /\ Restart /\ meta' = [meta EXCEPT ![s] = n] /\ s \in dir
      /\ UNCHANGED <<dir, files>> /\ unindexed' \subseteq Sessions
      /\ index' \in [Sessions -> {"none", "written", "torn"}]
  BY DEF CrashBeforeIndex, SessionsTypeOK
<1>2. /\ n \in MetaRecords /\ n.status = "finalized" /\ n.stage = "settled" /\ Backed(s)
  BY FinishedMeta DEF CrashBeforeIndex
<1> HIDE DEF n
<1>3. SessionsTypeOK'
  BY <1>1, <1>2, RestartKeeps DEF Restart, SessionsTypeOK
<1>4. meta'[s] = n /\ \A t \in Sessions \ {s} : meta'[t] = meta[t] /\ files'[t] = files[t]
  BY <1>1 DEF SessionsTypeOK
<1>5. SessionOK(s)'
  BY <1>1, <1>2, <1>4, RestartKeeps DEF SessionOK, MetaOK
<1>6. ASSUME NEW t \in Sessions, t # s PROVE SessionOK(t)'
  BY <1>1, <1>4, <1>6, RestartedOK
<1> QED
  BY <1>1, <1>3, <1>5, <1>6, RestartKeeps

\* A crash in the middle of a lookup, which removed what expired.
LEMMA CrashInLookupStep ==
  ASSUME SessionsInv, NEW s \in Sessions, CrashInLookup(s)
  PROVE  SessionsInv'
<1> USE DEF SessionsInv
<1>1. /\ Restart
      /\ dir' = dir \ Expired
      /\ meta' = [t \in Sessions |-> IF t \in Expired THEN NoMeta ELSE meta[t]]
      /\ files' = [t \in Sessions |-> IF t \in Expired THEN NoFiles ELSE files[t]]
      /\ index' \in [Sessions -> {"none", "written", "torn"}] /\ UNCHANGED unindexed
  BY DEF CrashInLookup, Cleanup, SessionsTypeOK
<1>2. SessionsTypeOK'
  <2>1. meta' \in [Sessions -> MetaRecords \cup {NoMeta, Torn}]
    BY <1>1 DEF SessionsTypeOK
  <2>2. files' \in [Sessions -> Chunkings]
    BY <1>1, EmptyChunking DEF SessionsTypeOK
  <2>3. \A t \in Sessions \ dir' : meta'[t] = NoMeta /\ files'[t] = NoFiles
    BY <1>1 DEF SessionsTypeOK
  <2> QED
    BY <1>1, <2>1, <2>2, <2>3, RestartKeeps DEF Restart, SessionsTypeOK
<1>3. ASSUME NEW t \in Sessions PROVE SessionOK(t)'
  <2>1. CASE t \in Expired
    BY <1>1, <2>1, RestartKeeps DEF SessionOK, MetaOK, Readable
  <2>2. CASE t \notin Expired
    BY <1>1, <2>2, RestartedOK
  <2> QED
    BY <2>1, <2>2
<1> QED
  BY <1>1, <1>2, <1>3, RestartKeeps

\* Time, and steps that change nothing here.
LEMMA IdleStep ==
  ASSUME SessionsInv, Tick \/ UNCHANGED vars
  PROVE  SessionsInv'
<1> USE DEF SessionsInv
<1>1. /\ UNCHANGED <<dir, meta, files, mirror, published, index, jobs, draws, crashes, finalizes,
                     issued, acked, unrecorded, unindexed>>
      /\ clock' \in Nat
  BY DEF Tick, vars, disk, SessionsTypeOK
<1>2. SessionsTypeOK'
  BY <1>1 DEF SessionsTypeOK
<1>3. DrawsOK' /\ \A t : (NoDraw(t) => NoDraw(t)') /\ (Backed(t) => Backed(t)')
  BY <1>1, DrawsKept
<1>4. ASSUME NEW t \in Sessions PROVE SessionOK(t)'
  BY <1>1, <1>3, Kept
<1> QED
  BY <1>2, <1>3, <1>4

-----------------------------------------------------------------------------
(* The theorems. *)

\* The session store, the jobs in memory and the chain agree in every state:
\* uploads, retries, failures, expiry, late transactions and crashes between
\* any two writes of web/server.mjs keep the invariant.
THEOREM SessionsInvariant == Spec => []SessionsInv
<1>1. Init => SessionsInv
  BY InitSessions
<1>2. ASSUME SessionsInv, [Next]_vars
      PROVE  SessionsInv'
  <2>1. CASE \E s \in Sessions : CreateSession(s) \/ StartFinalize(s) \/ LookupBySignature(s)
    BY <1>2, <2>1, CreateStep, StartStep, LookupStep
  <2>2. CASE \E s \in Sessions : Job(s)
    BY <1>2, <2>2, BuildStep, PublishStep, ReadBackStep, PrepareStep, MoveStep, FinishStep,
       IndexFailsStep, FailStep DEF Job
  <2>3. CASE \E s \in Sessions : CrashInSave(s) \/ CrashBeforeIndex(s) \/ CrashInLookup(s)
    BY <1>2, <2>3, CrashInSaveStep, CrashBeforeIndexStep, CrashInLookupStep
  <2>4. CASE \E s \in Sessions, i \in ChunkIndexes, c \in ChunkSizes : UploadChunk(s, i, c)
    BY <1>2, <2>4, UploadStep
  <2>5. CASE \E s \in Sessions, i \in ChunkIndexes, c \in ChunkSizes \cup {TornChunk} :
               CrashInUpload(s, i, c)
    BY <1>2, <2>5, CrashInUploadStep
  <2>6. CASE \E d \in draws : Land(d)
    BY <1>2, <2>6, MoveStep
  <2>7. CASE Tick \/ UNCHANGED vars
    BY <1>2, <2>7, IdleStep
  <2>8. CASE CrashIdle
    BY <1>2, <2>8, CrashIdleStep
  <2> QED
    BY <1>2, <2>1, <2>2, <2>3, <2>4, <2>5, <2>6, <2>7, <2>8 DEF Next
<1> QED
  BY <1>1, <1>2, PTL DEF Spec

\* However a session is finalized, fails, is retried, expires or is cut by a
\* restart, at most one draw is sent for it, and one that could be finalized
\* again has none (loadSnapshotSessionForFinalize, setStage).
THEOREM OneDrawPerSessionAlways == Spec => []OneDrawPerSession
<1>1. SessionsInv => OneDrawPerSession
  <2> SUFFICES ASSUME SessionsInv PROVE OneDrawPerSession
    OBVIOUS
  <2>1. ASSUME NEW s \in Sessions, Finalizable(s) PROVE NoDraw(s)
    BY <2>1 DEF SessionsInv, SessionOK, MetaOK, Finalizable, RetryableStages
  <2> QED
    BY <2>1 DEF OneDrawPerSession, AtMostOneDraw, RetryableHasNoDraw, SessionsInv, DrawsOK, NoDraw
<1> QED
  BY <1>1, SessionsInvariant, PTL

\* What is drawn was published, holds every acknowledged chunk as acknowledged
\* and, in the file modes, nothing else (finalizeSnapshotSession).
THEOREM DrawIsAlwaysTheUpload == Spec => []DrawIsTheUpload
<1>1. SessionsInv => DrawIsTheUpload
  BY DEF SessionsInv, DrawsOK, DrawOK, Faithful, DrawIsTheUpload, DrawnIsPublished, AckedIsDrawn,
         FileModeDrawsOnlyAcked
<1> QED
  BY <1>1, SessionsInvariant, PTL

\* A finalized session has its index file, unless writing it failed.
IndexOK(s) ==
  Readable(s) /\ meta[s].status = "finalized" => index[s] = "written" \/ s \in unindexed

\* A session whose index stays, and that does not become finalized.
LEMMA IndexKept ==
  ASSUME NEW s \in Sessions, IndexOK(s), index'[s] = index[s], unindexed \subseteq unindexed',
         meta'[s] = meta[s] \/ meta'[s] = Torn \/ meta'[s] = NoMeta \/ meta'[s].status # "finalized"
  PROVE  IndexOK(s)'
  BY DEF IndexOK, Readable

\* Only a finished draw finalizes a session, and it writes the index or is known
\* to have failed to; a lookup rewrites only an index that is not there.
LEMMA IndexStep ==
  ASSUME SessionsInv, \A s \in Sessions : IndexOK(s), [Next]_vars, NEW s \in Sessions
  PROVE  IndexOK(s)'
<1>0. /\ meta \in [Sessions -> MetaRecords \cup {NoMeta, Torn}]
      /\ index \in [Sessions -> {"none", "written", "torn"}] /\ IndexOK(s)
  BY DEF SessionsInv, SessionsTypeOK
<1>1. ASSUME NEW t \in Sessions, CreateSession(t) PROVE IndexOK(s)'
  <2>1. meta'[s] \in {NewMeta, NoMeta, meta[s]} /\ UNCHANGED <<index, unindexed>>
    BY <1>1 DEF CreateSession
  <2>2. NewMeta.status = "open"
    BY DEF NewMeta
  <2> QED
    BY <1>0, <2>1, <2>2, IndexKept
<1>2. ASSUME NEW t \in Sessions, StartFinalize(t) PROVE IndexOK(s)'
  <2>1. meta[t] \in MetaRecords
    BY <1>2, ReadableIs DEF SessionsInv, StartFinalize, Finalizable
  <2>2. meta'[s] = meta[s] \/ meta'[s].status = "finalizing"
    BY <1>0, <1>2, <2>1 DEF StartFinalize, MetaRecords
  <2> QED
    BY <1>0, <1>2, <2>2, IndexKept DEF StartFinalize
<1>3. ASSUME NEW t \in Sessions, LookupBySignature(t) PROVE IndexOK(s)'
  <2>1. meta'[s] \in {NoMeta, meta[s]} /\ UNCHANGED unindexed
    BY <1>3 DEF LookupBySignature, Cleanup
  <2>2. CASE index'[s] = index[s]
    BY <1>0, <2>1, <2>2, IndexKept
  <2>3. CASE index'[s] # index[s]
    <3>1. s = t /\ HasSignature(s)
      BY <1>0, <1>3, <2>3 DEF LookupBySignature
    <3>2. index[s] = "none"
      BY <1>3, <3>1 DEF LookupBySignature, HasSignature, Readable
    <3> QED
      BY <1>0, <2>1, <3>2 DEF IndexOK, Readable
  <2> QED
    BY <2>2, <2>3
<1>4. ASSUME NEW t \in Sessions, Job(t) PROVE IndexOK(s)'
  <2>1. CASE JobFinish(t)
    <3>1. index'[s] = "written" \/ (meta'[s] = meta[s] /\ index'[s] = index[s])
      BY <1>0, <2>1 DEF JobFinish
    <3>2. UNCHANGED unindexed
      BY <2>1 DEF JobFinish
    <3> QED
      BY <1>0, <3>1, <3>2, IndexKept DEF IndexOK
  <2>2. CASE JobIndexFails(t)
    <3>1. s = t \/ (meta'[s] = meta[s] /\ index'[s] = index[s])
      BY <1>0, <2>2 DEF JobIndexFails
    <3>2. unindexed' = unindexed \cup {t}
      BY <2>2 DEF JobIndexFails
    <3> QED
      BY <1>0, <3>1, <3>2, IndexKept DEF IndexOK
  <2>3. CASE JobFail(t)
    <3>1. UNCHANGED <<index, unindexed>> /\ FailureSaved(t)
      BY <2>3 DEF JobFail
    <3>2. meta'[s] = meta[s] \/ meta'[s] = Torn \/ meta'[s].status = "failed"
      <4>1. Readable(t) => meta[t] \in MetaRecords
        BY ReadableIs DEF SessionsInv
      <4> QED
        BY <1>0, <3>1, <4>1 DEF FailureSaved, MarkFailed, MetaRecords
    <3> QED
      BY <1>0, <3>1, <3>2, IndexKept
  <2>4. CASE JobBuild(t) \/ JobReadBack(t)
    <3>1. PICK sg, snap : SetStage(t, sg, snap) /\ UNCHANGED <<index, unindexed>> /\ jobs[t].pc # "none"
      BY <2>4 DEF JobBuild, JobReadBack
    <3>2. jobs[t].m \in MetaRecords /\ jobs[t].m.status = "finalizing"
      BY <3>1, AtStageRuns, RunningIs DEF SessionsInv, SessionOK, JobOK
    <3>3. meta'[s] = meta[s] \/ meta'[s].status = "finalizing"
      BY <1>0, <3>1, <3>2 DEF SetStage, MetaRecords
    <3> QED
      BY <1>0, <3>1, <3>3, IndexKept
  <2>5. CASE StoreMirrorCopy(t) \/ JobUpload(t) \/ JobPrepare(t) \/ JobSettle(t)
    BY <1>0, <2>5, IndexKept DEF StoreMirrorCopy, JobUpload, JobPrepare, JobSettle, disk
  <2> QED
    BY <1>4, <2>1, <2>2, <2>3, <2>4, <2>5 DEF Job
<1>5. ASSUME NEW t \in Sessions, CrashInSave(t) PROVE IndexOK(s)'
  <2>1. meta'[s] \in {meta[s], Torn} /\ UNCHANGED <<index, unindexed>>
    BY <1>0, <1>5 DEF CrashInSave
  <2> QED
    BY <1>0, <2>1, IndexKept
<1>6. ASSUME NEW t \in Sessions, CrashBeforeIndex(t) PROVE IndexOK(s)'
  <2>1. s = t \/ (meta'[s] = meta[s] /\ index'[s] = index[s])
    BY <1>0, <1>6 DEF CrashBeforeIndex
  <2>2. unindexed' = unindexed \cup {t}
    BY <1>6 DEF CrashBeforeIndex
  <2> QED
    BY <1>0, <2>1, <2>2, IndexKept DEF IndexOK
<1>7. ASSUME NEW t \in Sessions, CrashInLookup(t) PROVE IndexOK(s)'
  <2>1. meta'[s] \in {NoMeta, meta[s]} /\ UNCHANGED unindexed /\ index[t] = "none"
        /\ (s # t => index'[s] = index[s])
    BY <1>0, <1>7 DEF CrashInLookup, Cleanup
  <2> QED
    BY <1>0, <2>1, IndexKept DEF IndexOK, Readable
<1>8. ASSUME NEW t \in Sessions, NEW i \in ChunkIndexes, NEW c \in ChunkSizes, UploadChunk(t, i, c)
      PROVE  IndexOK(s)'
  <2>1. meta[t] \in MetaRecords /\ meta[t].status = "open"
    BY <1>8, ReadableIs DEF SessionsInv, UploadChunk, Uploadable
  <2>2. meta'[s] = meta[s] \/ meta'[s].status = "open"
    BY <1>0, <1>8, <2>1 DEF UploadChunk, MetaRecords
  <2> QED
    BY <1>0, <1>8, <2>2, IndexKept DEF UploadChunk
<1>9. ASSUME NEW t \in Sessions, NEW i \in ChunkIndexes, NEW c \in ChunkSizes \cup {TornChunk},
             CrashInUpload(t, i, c)
      PROVE  IndexOK(s)'
  BY <1>0, <1>9, IndexKept DEF CrashInUpload
<1>10. CASE (\E d \in draws : Land(d)) \/ Tick \/ CrashIdle \/ UNCHANGED vars
  BY <1>0, <1>10, IndexKept DEF Land, Tick, CrashIdle, vars, disk
<1> QED
  BY <1>1, <1>2, <1>3, <1>4, <1>5, <1>6, <1>7, <1>8, <1>9, <1>10 DEF Next

\* A session reported finalized has a settled draw and a mirrored snapshot, and
\* the lookup by signature finds it unless the index could not be written when
\* the draw settled; one reported interrupted lost its job in a restart, or its
\* failure could not be saved (handlePartnerSnapshotStatus,
\* handlePartnerDrawProof, loadSnapshotSessionBySignature).
THEOREM StatusIsAlwaysTrue == Spec => []StatusIsTrue
<1>0. Init => \A s \in Sessions : IndexOK(s)
  BY DEF Init, IndexOK, Readable
<1>1. SessionsInv /\ (\A s \in Sessions : IndexOK(s)) => StatusIsTrue
  <2> SUFFICES ASSUME SessionsInv, \A s \in Sessions : IndexOK(s) PROVE StatusIsTrue
    OBVIOUS
  <2>1. ASSUME NEW s \in Sessions, StatusOf(s) = "finalized"
        PROVE  /\ Backed(s)
               /\ \/ ProofServed(s)
                  \/ s \in unindexed /\ (index[s] = "torn" \/ \E t \in dir \ {s} : meta[t] = Torn)
    <3>1. Readable(s) /\ meta[s].status = "finalized"
      BY <2>1 DEF StatusOf, Readable
    <3>2. Backed(s) /\ HasSignature(s)
      BY <3>1 DEF SessionsInv, SessionOK, MetaOK, HasSignature
    <3>3. index[s] \in {"none", "written", "torn"} /\ dir \subseteq Sessions
      BY DEF SessionsInv, SessionsTypeOK
    <3>4. CASE index[s] = "written"
      BY <3>1, <3>2, <3>4 DEF ProofServed, Found, Backed
    <3>5. CASE index[s] # "written" /\ \A t \in dir : meta[t] # Torn
      BY <3>1, <3>2, <3>3, <3>5 DEF ProofServed, Found, Backed, IndexOK
    <3>6. CASE index[s] # "written" /\ \E t \in dir : meta[t] = Torn
      BY <3>1, <3>2, <3>6 DEF IndexOK, Readable
    <3> QED
      BY <3>4, <3>5, <3>6
  <2>2. ASSUME NEW s \in Sessions, StatusOf(s) = "interrupted by a server restart"
        PROVE  s \in unrecorded
    <3>1. Readable(s)
      <4>1. ASSUME meta[s] = NoMeta PROVE StatusOf(s) = "404"
        BY <4>1 DEF StatusOf, NoMeta, Torn
      <4>2. ASSUME meta[s] = Torn PROVE StatusOf(s) = "500"
        BY <4>2 DEF StatusOf, NoMeta, Torn
      <4> QED
        BY <2>2, <4>1, <4>2 DEF Readable
    <3>2. meta[s].status \in {"open", "finalizing", "failed", "finalized"}
      BY <3>1, ReadableIs, MetaIs DEF SessionsInv
    <3>3. meta[s].status = "finalizing" /\ ~Running(s)
      BY <2>2, <3>1, <3>2 DEF StatusOf, Readable
    <3> QED
      BY <3>1, <3>3 DEF SessionsInv, SessionOK, MetaOK
  <2> QED
    BY <2>1, <2>2 DEF StatusIsTrue, FinalizedIsProvable, InterruptedMeansRestart, SessionsInv, Backed
<1>2. SessionsInv /\ (\A s \in Sessions : IndexOK(s)) /\ [Next]_vars => (\A s \in Sessions : IndexOK(s))'
  BY IndexStep
<1> QED
  BY <1>0, <1>1, <1>2, SessionsInvariant, PTL DEF Spec

\* A finalized session is no longer open to upload, to a job or to a retry.
LEMMA FinalizedIsSettled ==
  ASSUME SessionsInv, NEW s \in Sessions, Readable(s), meta[s].status = "finalized"
  PROVE  /\ ~Running(s) /\ ~Uploadable(s) /\ ~Finalizable(s) /\ s \notin Expired
         /\ s \in dir /\ s \in issued
<1>1. ~Running(s)
  BY DEF SessionsInv, SessionOK, JobOK
<1>2. s \in dir /\ s \in issued
  BY ReadableIs DEF SessionsInv
<1> QED
  BY <1>1, <1>2 DEF Uploadable, Finalizable, Expired

\* A finalized session is never removed, reopened, changed or torn by a crash:
\* it backs the proofs of a committed draw (cleanupExpiredSnapshotSessions,
\* markSnapshotFinalizeFailed).
THEOREM FinalizedIsAlwaysKept == Spec => FinalizedIsKept
<1> DEFINE Keep(s) == meta'[s] = meta[s] /\ s \in dir'
<1>1. ASSUME SessionsInv, [Next]_vars, NEW s \in Sessions, Readable(s),
             meta[s].status = "finalized"
      PROVE  Keep(s)
  <2>0. /\ ~Running(s) /\ ~Uploadable(s) /\ ~Finalizable(s) /\ s \notin Expired
        /\ s \in dir /\ s \in issued
    BY <1>1, FinalizedIsSettled
  <2>1. ASSUME NEW t \in Sessions, CreateSession(t) PROVE Keep(s)
    BY <2>0, <2>1 DEF CreateSession
  <2>2. ASSUME NEW t \in Sessions, StartFinalize(t) PROVE Keep(s)
    BY <2>0, <2>2, <1>1 DEF StartFinalize, SessionsInv, SessionsTypeOK
  <2>3. ASSUME NEW t \in Sessions, LookupBySignature(t) PROVE Keep(s)
    BY <2>0, <2>3 DEF LookupBySignature, Cleanup
  <2>4. ASSUME NEW t \in Sessions, Job(t) PROVE Keep(s)
    <3>1. s = t => ~Job(t)
      BY <2>0, AtStageRuns DEF Job, JobBuild, StoreMirrorCopy, JobUpload, JobReadBack, JobPrepare,
         JobSettle, JobFinish, JobIndexFails, JobFail
    <3>2. \A m : [meta EXCEPT ![t] = m][s] = meta[s]
      BY <2>4, <3>1, <1>1 DEF SessionsInv, SessionsTypeOK
    <3>3. CASE JobBuild(t) \/ JobReadBack(t)
      BY <2>0, <3>2, <3>3 DEF JobBuild, JobReadBack, SetStage
    <3>4. CASE StoreMirrorCopy(t) \/ JobUpload(t) \/ JobPrepare(t) \/ JobSettle(t)
      BY <2>0, <3>4 DEF StoreMirrorCopy, JobUpload, JobPrepare, JobSettle, disk
    <3>5. CASE JobFinish(t)
      BY <2>0, <3>2, <3>5 DEF JobFinish
    <3>6. CASE JobFail(t)
      BY <2>0, <3>2, <3>6 DEF JobFail, FailureSaved, MarkFailed
    <3>7. CASE JobIndexFails(t)
      BY <2>0, <3>2, <3>7 DEF JobIndexFails
    <3> QED
      BY <2>4, <3>3, <3>4, <3>5, <3>6, <3>7 DEF Job
  <2>5. ASSUME NEW t \in Sessions, CrashInSave(t) PROVE Keep(s)
    BY <2>0, <2>5, <1>1 DEF CrashInSave, SessionsInv, SessionsTypeOK
  <2>6. ASSUME NEW t \in Sessions, CrashBeforeIndex(t) PROVE Keep(s)
    <3>1. Running(t) /\ t # s
      BY <2>0, <2>6, AtStageRuns DEF CrashBeforeIndex
    <3> QED
      BY <2>0, <2>6, <3>1, <1>1 DEF CrashBeforeIndex, SessionsInv, SessionsTypeOK
  <2>7. ASSUME NEW t \in Sessions, NEW i \in ChunkIndexes, NEW c \in ChunkSizes,
               UploadChunk(t, i, c)
        PROVE  Keep(s)
    BY <2>0, <2>7, <1>1 DEF UploadChunk, SessionsInv, SessionsTypeOK
  <2>8. ASSUME NEW t \in Sessions, NEW i \in ChunkIndexes, NEW c \in ChunkSizes \cup {TornChunk},
               CrashInUpload(t, i, c)
        PROVE  Keep(s)
    BY <2>0, <2>8 DEF CrashInUpload
  <2>9. ASSUME NEW d \in draws, Land(d) PROVE Keep(s)
    BY <2>0, <2>9 DEF Land, disk
  <2>10. CASE Tick \/ CrashIdle \/ UNCHANGED vars
    BY <2>0, <2>10 DEF Tick, CrashIdle, vars, disk
  <2>11. ASSUME NEW t \in Sessions, CrashInLookup(t) PROVE Keep(s)
    BY <2>0, <2>11 DEF CrashInLookup, Cleanup
  <2> HIDE DEF Keep
  <2> QED
    BY <1>1, <2>1, <2>2, <2>3, <2>4, <2>5, <2>6, <2>7, <2>8, <2>9, <2>10, <2>11 DEF Next
<1>2. SessionsInv /\ [Next]_vars =>
        [\A s \in Sessions : (Readable(s) /\ meta[s].status = "finalized") =>
           meta'[s] = meta[s] /\ s \in dir']_vars
  BY <1>1
<1> QED
  BY <1>2, SessionsInvariant, PTL DEF Spec, FinalizedIsKept

-----------------------------------------------------------------------------
(* The pages. *)

Registered(w) == \E i \in DOMAIN registry : registry[i] = w

Proofs == [sig : Signatures, who : Ids]
Answers ==
  {Nothing, [kind |-> "loading"]}
    \cup [kind : {"proved", "absent", "error"}, proof : Proofs \cup {Nothing}]
Panels ==
  [sig : Signatures \cup {Nothing}, status : {"none", "MATCH", "MISMATCH", "ERROR"},
   address : Addresses \cup {Nothing}, check : Answers]
Outcomes == [sig : Signatures, status : {"MATCH", "MISMATCH", "ERROR"}]
Views == Addresses \cup {"not-installed", "not-connected"}
Entries ==
  [stage : {"context", "approval", "posted", "replay", "result"}, clicked : Views,
   proof : Views \cup {Nothing}, entered : Views \cup {Nothing}, judged : Views \cup {Nothing},
   quiet : BOOLEAN]

PagesTypeOK ==
  /\ page \in {"play", "verify"} /\ view \in Views
  /\ registry \in Seq(Wallets) /\ account \in [Wallets -> Addresses \cup {Nothing}]
  /\ detached \in BOOLEAN /\ missed \in BOOLEAN /\ left \in BOOLEAN
  /\ dropping \in 0..Len(registry)
  /\ raffles \in Seq(Entries) /\ result \in Entries \cup {Nothing}
  /\ lastVerifyResult \in Outcomes \cup {Nothing} /\ verifying \subseteq Signatures
  /\ panel \in Panels /\ checks \subseteq [sig : Signatures, id : Ids]

\* An address on the page, and who disconnected.
WalletOK ==
  /\ \A w \in connecting : Registered(w)
  /\ IsAddress(view) => Held(view) \/ (page = "play" /\ missed)
  /\ left => detached /\ connecting = {} /\ ~IsAddress(view)

\* A draw that was started quietly is alone with the card.
EntryOK(d) ==
  d.quiet =>
    /\ card = "loading" /\ view = d.clicked /\ page = "play"
    /\ connecting = {} /\ dropping = 0 /\ health # "pending" /\ Len(raffles) = 1
    /\ d.entered \in {d.clicked, Nothing} /\ d.proof \in {d.clicked, Nothing}
    /\ d.stage \in {"posted", "replay"} => d.entered = d.clicked

CardOK ==
  /\ \A i \in DOMAIN raffles : EntryOK(raffles[i])
  /\ result # Nothing /\ result.quiet =>
       /\ result.entered = result.clicked /\ result.judged = result.clicked
       /\ result.proof \in {result.clicked, Nothing}

\* What the panel shows is of the wallet and of the last answers.
PanelOK ==
  /\ page = "play" => lastVerifyResult = Nothing /\ verifying = {}
  /\ lastVerifyResult # Nothing => panel.address \in {Nothing, view}
  /\ panel.check # Nothing => panel.status = "MATCH"
  /\ ShownProofIsOffered

PagesInv == PagesTypeOK /\ WalletOK /\ CardOK /\ PanelOK

-----------------------------------------------------------------------------
(* What the wallets say. *)

\* No status is an address.
LEMMA AddressIs ==
  /\ Nothing \notin Addresses /\ "not-installed" \notin Addresses /\ "not-connected" \notin Addresses
  /\ ~IsAddress(Nothing) /\ ~IsAddress("not-installed") /\ ~IsAddress("not-connected")
  BY PagesAssumption DEF IsAddress

\* readConnected says nothing of a wallet the user has left, and otherwise what
\* some registered wallet reports.
LEMMA ReadIs ==
  ASSUME NEW reg \in Seq(Wallets), NEW acc \in [Wallets -> Addresses \cup {Nothing}],
         NEW det \in BOOLEAN
  PROVE  /\ ReadConnected(reg, acc, det) \in Views
         /\ IsAddress(ReadConnected(reg, acc, det)) =>
              ~det /\ \E i \in DOMAIN reg : acc[reg[i]] = ReadConnected(reg, acc, det)
<1> DEFINE with == {i \in DOMAIN reg : acc[reg[i]] # Nothing}
           first == CHOOSE i \in with : \A j \in with : i <= j
<1>1. CASE reg = <<>>
  <2>1. ReadConnected(reg, acc, det) = "not-installed"
    BY <1>1 DEF ReadConnected
  <2> QED
    BY <2>1, AddressIs DEF Views
<1>2. CASE reg # <<>> /\ det
  <2>1. ReadConnected(reg, acc, det) = "not-connected"
    BY <1>2 DEF ReadConnected
  <2> QED
    BY <2>1, AddressIs DEF Views
<1>3. CASE reg # <<>> /\ ~det
  <2>1. ReadConnected(reg, acc, det) = FirstAccount(reg, acc)
    BY <1>3 DEF ReadConnected
  <2>2. CASE with = {}
    <3>1. FirstAccount(reg, acc) = "not-connected"
      BY <2>2 DEF FirstAccount
    <3> QED
      BY <2>1, <3>1, AddressIs DEF Views
  <2>3. CASE with # {}
    <3>1. with \in SUBSET Nat
      BY ElementOfSeq, LenProperties
    <3>2. \E i \in with : \A j \in with : i <= j
      BY <2>3, <3>1, LeastNatural
    <3>3. first \in with
      BY <3>2
    <3>4. FirstAccount(reg, acc) = acc[reg[first]]
      BY <2>3 DEF FirstAccount
    <3> HIDE DEF first
    <3>5. first \in DOMAIN reg /\ reg[first] \in Wallets /\ acc[reg[first]] # Nothing
      BY <3>3, ElementOfSeq, LenProperties
    <3> QED
      BY <1>3, <2>1, <3>4, <3>5 DEF Views
  <2> QED
    BY <2>2, <2>3
<1> QED
  BY <1>1, <1>2, <1>3

\* Some draw was started while nothing else was outstanding.
QuietDraw == \E i \in DOMAIN raffles : raffles[i].quiet

\* Such a draw has the card for itself.
LEMMA QuietIs ==
  ASSUME PagesInv, QuietDraw
  PROVE  /\ card = "loading" /\ page = "play" /\ connecting = {} /\ dropping = 0
         /\ health # "pending" /\ Len(raffles) = 1
  BY DEF PagesInv, CardOK, EntryOK, QuietDraw

\* What drawing the panel again for the wallet state v leaves.
LEMMA AssignIs ==
  ASSUME PagesInv, NEW v \in Views, NEW c, Assign(v, c), UNCHANGED <<page, Idle>>
  PROVE  view' = v /\ missed' = FALSE /\ panel' \in Panels /\ PanelOK'
<1> USE DEF PagesInv
<1>1. /\ page' = page /\ view' = v /\ missed' = FALSE
      /\ lastVerifyResult' = lastVerifyResult /\ verifying' = verifying
      /\ lastSnapshotProof' = lastSnapshotProof
      /\ panel' = panel \/ (lastVerifyResult # Nothing /\ panel' = Details(lastVerifyResult, v))
      /\ panel' = panel => page = "play" \/ lastVerifyResult = Nothing \/ panel = Details(lastVerifyResult, v)
  BY DEF Assign, Idle, Rerender, PagesTypeOK
<1>2. CASE lastVerifyResult # Nothing /\ panel' = Details(lastVerifyResult, v)
  <2>1. lastVerifyResult \in Outcomes
    BY <1>2 DEF PagesTypeOK
  <2>2. /\ panel' \in Panels /\ panel'.check = Nothing /\ panel'.address \in {Nothing, v}
    BY <1>2, <2>1 DEF Details, Panels, Outcomes, IsAddress, Answers
  <2> QED
    BY <1>1, <2>2 DEF PanelOK, ShownProofIsOffered
<1>3. CASE panel' = panel /\ ~(lastVerifyResult # Nothing /\ panel' = Details(lastVerifyResult, v))
  <2>1. lastVerifyResult = Nothing
    BY <1>1, <1>3 DEF PanelOK
  <2> QED
    BY <1>1, <1>3, <2>1 DEF PanelOK, ShownProofIsOffered, PagesTypeOK
<1> QED
  BY <1>1, <1>2, <1>3

\* The listener of a page: it takes the new state, or a draw has the card.
LEMMA NotifyIs ==
  ASSUME PagesInv, NEW v \in Views, Notify(v), UNCHANGED <<page, Idle>>
  PROVE  /\ view' \in Views /\ missed' \in BOOLEAN /\ panel' \in Panels /\ PanelOK'
         /\ view' = v \/ (view' = view /\ page = "play" /\ missed')
         /\ QuietDraw => card' = card /\ view' = view
<1>1. CASE page = "play" /\ Ignores
  <2>1. missed' = TRUE /\ view' = view /\ card' = card /\ panel' = panel
    BY <1>1 DEF Notify
  <2>2. PanelOK' /\ panel' \in Panels /\ view' \in Views
    BY <2>1 DEF PagesInv, PagesTypeOK, PanelOK, ShownProofIsOffered, Idle
  <2> QED
    BY <1>1, <2>1, <2>2
<1>2. CASE ~(page = "play" /\ Ignores)
  <2>1. Assign(v, CardOf(v))
    BY <1>2 DEF Notify
  <2>2. ~QuietDraw
    BY <1>2, QuietIs DEF Ignores
  <2> QED
    BY <2>1, <2>2, AssignIs
<1> QED
  BY <1>1, <1>2

-----------------------------------------------------------------------------
(* Steps of the wallets. *)

\* What a step of a wallet may do.
WalletMoves ==
  /\ UNCHANGED <<page, Idle>>
  /\ registry' \in Seq(Wallets) /\ account' \in [Wallets -> Addresses \cup {Nothing}]
  /\ detached' \in BOOLEAN /\ missed' \in BOOLEAN /\ left' \in BOOLEAN
  /\ dropping' \in 0..Len(registry')
  /\ view' \in Views /\ panel' \in Panels /\ PanelOK'
  /\ \A w \in connecting' : Registered(w)'
  /\ IsAddress(view') => Held(view)' \/ (page = "play" /\ missed')
  /\ left' => detached' /\ connecting' = {} /\ ~IsAddress(view')
  /\ QuietDraw => UNCHANGED <<card, view, connecting, dropping>>

\* Such a step keeps the invariant.
LEMMA WalletMovesInv ==
  ASSUME PagesInv, WalletMoves
  PROVE  PagesInv'
<1>1. /\ page' = page /\ health' = health /\ raffles' = raffles /\ result' = result
      /\ verifying' = verifying /\ lastVerifyResult' = lastVerifyResult /\ checks' = checks
  BY DEF WalletMoves, Idle
<1>2. PagesTypeOK'
  BY <1>1 DEF WalletMoves, PagesInv, PagesTypeOK
<1>3. WalletOK'
  BY <1>1 DEF WalletMoves, WalletOK, IsAddress
<1>4. CardOK'
  <2>1. ASSUME NEW i \in DOMAIN raffles PROVE EntryOK(raffles[i])'
    <3>1. CASE raffles[i].quiet
      BY <1>1, <3>1 DEF PagesInv, CardOK, EntryOK, WalletMoves, QuietDraw
    <3>2. CASE ~raffles[i].quiet
      BY <1>1, <3>2 DEF EntryOK
    <3> QED
      BY <3>1, <3>2
  <2> QED
    BY <1>1, <2>1 DEF PagesInv, CardOK
<1> QED
  BY <1>2, <1>3, <1>4 DEF PagesInv, WalletMoves

\* Where the view follows what is read of the wallets, it is of the wallets.
LEMMA NotifiedView ==
  ASSUME PagesInv, registry' \in Seq(Wallets), account' \in [Wallets -> Addresses \cup {Nothing}],
         detached' \in BOOLEAN,
         Notify(ReadConnected(registry', account', detached')), UNCHANGED <<page, Idle>>
  PROVE  /\ view' \in Views /\ missed' \in BOOLEAN /\ panel' \in Panels /\ PanelOK'
         /\ IsAddress(view') => Held(view)' \/ (page = "play" /\ missed')
         /\ detached' => view' = view \/ ~IsAddress(view')
         /\ QuietDraw => card' = card /\ view' = view
<1> DEFINE v == ReadConnected(registry', account', detached')
<1>1. v \in Views /\ (IsAddress(v) => ~detached' /\ \E i \in DOMAIN registry' : account'[registry'[i]] = v)
  BY ReadIs
<1>2. Notify(v) /\ UNCHANGED <<page, Idle>>
  OBVIOUS
<1> HIDE DEF v
<1>3. /\ view' \in Views /\ missed' \in BOOLEAN /\ panel' \in Panels /\ PanelOK'
      /\ view' = v \/ (view' = view /\ page = "play" /\ missed')
      /\ QuietDraw => card' = card /\ view' = view
  BY <1>1, <1>2, NotifyIs
<1>4. IsAddress(v) => (view' = v => Held(view)')
  BY <1>1 DEF Held
<1> QED
  BY <1>1, <1>3, <1>4

\* The same where it is assigned.
LEMMA AssignedView ==
  ASSUME PagesInv, registry' \in Seq(Wallets), account' \in [Wallets -> Addresses \cup {Nothing}],
         detached' \in BOOLEAN, NEW c,
         Assign(ReadConnected(registry', account', detached'), c), UNCHANGED <<page, Idle>>
  PROVE  /\ view' \in Views /\ missed' \in BOOLEAN /\ panel' \in Panels /\ PanelOK'
         /\ IsAddress(view') => ~detached' /\ Held(view)'
<1> DEFINE v == ReadConnected(registry', account', detached')
<1>1. v \in Views /\ (IsAddress(v) => ~detached' /\ \E i \in DOMAIN registry' : account'[registry'[i]] = v)
  BY ReadIs
<1>2. Assign(v, c) /\ UNCHANGED <<page, Idle>>
  OBVIOUS
<1> HIDE DEF v
<1>3. view' = v /\ missed' = FALSE /\ panel' \in Panels /\ PanelOK'
  BY <1>1, <1>2, AssignIs
<1> QED
  BY <1>1, <1>3 DEF Held

\* registerWallet.
LEMMA RegisterMoves ==
  ASSUME PagesInv, NEW w \in Wallets, RegisterWallet(w)
  PROVE  WalletMoves
<1>1. /\ registry' = Append(registry, w) /\ account' = account /\ detached' = detached
      /\ connecting' = connecting /\ dropping' = dropping /\ left' = left /\ page' = page
      /\ UNCHANGED <<page, Idle>> /\ Notify(ReadConnected(registry', account', detached'))
  BY DEF RegisterWallet
<1>2. /\ registry \in Seq(Wallets) /\ account \in [Wallets -> Addresses \cup {Nothing}]
      /\ detached \in BOOLEAN /\ left \in BOOLEAN /\ dropping \in 0..Len(registry)
  BY DEF PagesInv, PagesTypeOK
<1>3. registry' \in Seq(Wallets) /\ Len(registry') = Len(registry) + 1
      /\ \A i \in DOMAIN registry : i \in DOMAIN registry' /\ registry'[i] = registry[i]
  BY <1>1, <1>2, LenProperties, AppendProperties
<1>4. dropping' \in 0..Len(registry')
  BY <1>1, <1>2, <1>3, LenProperties
<1>5. \A x \in connecting' : Registered(x)'
  BY <1>1, <1>3 DEF PagesInv, WalletOK, Registered
<1>6. /\ view' \in Views /\ missed' \in BOOLEAN /\ panel' \in Panels /\ PanelOK'
      /\ IsAddress(view') => Held(view)' \/ (page = "play" /\ missed')
      /\ detached' => view' = view \/ ~IsAddress(view')
      /\ QuietDraw => card' = card /\ view' = view
  BY <1>1, <1>2, <1>3, NotifiedView
<1>7. left' => detached' /\ connecting' = {} /\ ~IsAddress(view')
  BY <1>1, <1>6 DEF PagesInv, WalletOK
<1> QED
  BY <1>1, <1>2, <1>3, <1>4, <1>5, <1>6, <1>7 DEF WalletMoves

\* A change inside a wallet.
LEMMA SwitchMoves ==
  ASSUME PagesInv, NEW w \in Wallets, NEW a \in Addresses \cup {Nothing}, WalletSwitches(w, a)
  PROVE  WalletMoves
<1>1. /\ registry' = registry /\ account' = [account EXCEPT ![w] = a] /\ detached' = detached
      /\ connecting' = connecting /\ dropping' = dropping /\ left' = left /\ page' = page
      /\ UNCHANGED <<page, Idle>>
  BY DEF WalletSwitches
<1>2. /\ registry \in Seq(Wallets) /\ account \in [Wallets -> Addresses \cup {Nothing}]
      /\ detached \in BOOLEAN /\ left \in BOOLEAN /\ dropping \in 0..Len(registry)
      /\ view \in Views /\ missed \in BOOLEAN /\ panel \in Panels
  BY DEF PagesInv, PagesTypeOK
<1>3. account' \in [Wallets -> Addresses \cup {Nothing}] /\ \A x \in Wallets : x # w => account'[x] = account[x]
  BY <1>1, <1>2
<1>4. \A x \in connecting' : Registered(x)'
  BY <1>1 DEF PagesInv, WalletOK, Registered
<1>5. /\ view' \in Views /\ missed' \in BOOLEAN /\ panel' \in Panels /\ PanelOK'
      /\ IsAddress(view') => Held(view)' \/ (page = "play" /\ missed')
      /\ detached' => view' = view \/ ~IsAddress(view')
      /\ QuietDraw => card' = card /\ view' = view
  <2>1. CASE Registered(w)
    <3>1. Notify(ReadConnected(registry', account', detached'))
      BY <2>1, <1>1 DEF WalletSwitches, Registered
    <3> QED
      BY <3>1, <1>1, <1>2, <1>3, NotifiedView
  <2>2. CASE ~Registered(w)
    <3>1. view' = view /\ card' = card /\ panel' = panel /\ missed' = missed
      BY <2>2 DEF WalletSwitches, Registered
    <3>2. Held(view) => Held(view)'
      <4>1. ASSUME NEW i \in DOMAIN registry PROVE account'[registry[i]] = account[registry[i]]
        <5>1. registry[i] \in Wallets
          BY <1>2, ElementOfSeq, LenProperties
        <5> QED
          BY <5>1, <1>3, <2>2 DEF Registered
      <4> QED
        BY <4>1, <1>1, <3>1 DEF Held
    <3>3. PanelOK'
      BY <3>1, <1>1 DEF PagesInv, PanelOK, ShownProofIsOffered, Idle
    <3> QED
      BY <3>1, <3>2, <3>3, <1>2 DEF PagesInv, WalletOK
  <2> QED
    BY <2>1, <2>2
<1>6. left' => detached' /\ connecting' = {} /\ ~IsAddress(view')
  BY <1>1, <1>5 DEF PagesInv, WalletOK
<1> QED
  BY <1>1, <1>2, <1>3, <1>4, <1>5, <1>6 DEF WalletMoves

\* connect up to its await: no quiet draw has an idle card, and none is on the
\* verify page.
LEMMA ConnectMoves ==
  ASSUME PagesInv, NEW w \in Wallets, Connect(w)
  PROVE  WalletMoves
<1>1. /\ registry' = registry /\ account' = account /\ detached' = FALSE /\ left' = FALSE
      /\ connecting' = connecting \cup {w} /\ dropping' = dropping /\ page' = page /\ view' = view
      /\ missed' = missed /\ card' = card /\ panel' = panel /\ UNCHANGED <<page, Idle>>
      /\ Registered(w) /\ ConnectOffered
  BY DEF Connect, cardVars, panelVars, Idle, Registered
<1>2. /\ registry \in Seq(Wallets) /\ account \in [Wallets -> Addresses \cup {Nothing}]
      /\ dropping \in 0..Len(registry) /\ view \in Views /\ missed \in BOOLEAN /\ panel \in Panels
  BY DEF PagesInv, PagesTypeOK
<1>3. ~QuietDraw
  BY <1>1, QuietIs DEF ConnectOffered
<1>4. \A x \in connecting' : Registered(x)'
  BY <1>1 DEF PagesInv, WalletOK, Registered
<1>5. PanelOK'
  BY <1>1 DEF PagesInv, PanelOK, ShownProofIsOffered, Idle
<1>6. IsAddress(view') => Held(view)' \/ (page = "play" /\ missed')
  BY <1>1 DEF PagesInv, WalletOK, Held
<1> QED
  BY <1>1, <1>2, <1>3, <1>4, <1>5, <1>6 DEF WalletMoves

\* A wallet that answers connect: the user has not left, no quiet draw runs.
LEMMA ConnectingIs ==
  ASSUME PagesInv, NEW w \in connecting
  PROVE  ~left /\ ~QuietDraw /\ Registered(w)
  BY QuietIs DEF PagesInv, WalletOK

LEMMA ApprovedMoves ==
  ASSUME PagesInv, NEW w \in Wallets, NEW a \in Addresses, ConnectApproved(w, a)
  PROVE  WalletMoves
<1>1. /\ registry' = registry /\ account' = [account EXCEPT ![w] = a] /\ detached' = detached
      /\ connecting' = connecting \ {w} /\ dropping' = dropping /\ left' = left /\ page' = page
      /\ UNCHANGED <<page, Idle>> /\ Assign(a, "idle") /\ w \in connecting
  BY DEF ConnectApproved
<1>2. /\ registry \in Seq(Wallets) /\ account \in [Wallets -> Addresses \cup {Nothing}]
      /\ detached \in BOOLEAN /\ left \in BOOLEAN /\ dropping \in 0..Len(registry)
  BY DEF PagesInv, PagesTypeOK
<1>3. account' \in [Wallets -> Addresses \cup {Nothing}] /\ account'[w] = a
  BY <1>1, <1>2
<1>4. a \in Views
  BY DEF Views
<1>5. view' = a /\ missed' = FALSE /\ panel' \in Panels /\ PanelOK'
  BY <1>1, <1>4, AssignIs
<1>6. ~left /\ ~QuietDraw /\ Registered(w)
  BY <1>1, ConnectingIs
<1>7. Held(view)'
  BY <1>1, <1>3, <1>5, <1>6 DEF Held, Registered
<1>8. \A x \in connecting' : Registered(x)'
  BY <1>1 DEF PagesInv, WalletOK, Registered
<1> QED
  BY <1>1, <1>2, <1>3, <1>4, <1>5, <1>6, <1>7, <1>8 DEF WalletMoves

LEMMA EmptyMoves ==
  ASSUME PagesInv, NEW w \in Wallets, ConnectEmpty(w)
  PROVE  WalletMoves
<1>1. /\ registry' = registry /\ account' = [account EXCEPT ![w] = Nothing] /\ detached' = detached
      /\ connecting' = connecting \ {w} /\ dropping' = dropping /\ left' = left /\ page' = page
      /\ UNCHANGED <<page, Idle>> /\ Assign("not-connected", "error") /\ w \in connecting
  BY DEF ConnectEmpty
<1>2. /\ registry \in Seq(Wallets) /\ account \in [Wallets -> Addresses \cup {Nothing}]
      /\ detached \in BOOLEAN /\ left \in BOOLEAN /\ dropping \in 0..Len(registry)
  BY DEF PagesInv, PagesTypeOK
<1>3. account' \in [Wallets -> Addresses \cup {Nothing}]
  BY <1>1, <1>2
<1>4. "not-connected" \in Views
  BY DEF Views
<1>5. view' = "not-connected" /\ missed' = FALSE /\ panel' \in Panels /\ PanelOK'
  BY <1>1, <1>4, AssignIs
<1>6. ~left /\ ~QuietDraw
  BY <1>1, ConnectingIs
<1>7. ~IsAddress(view')
  BY <1>5, AddressIs
<1>8. \A x \in connecting' : Registered(x)'
  BY <1>1 DEF PagesInv, WalletOK, Registered
<1> QED
  BY <1>1, <1>2, <1>3, <1>4, <1>5, <1>6, <1>7, <1>8 DEF WalletMoves

LEMMA RefusedMoves ==
  ASSUME PagesInv, NEW w \in Wallets, ConnectRefused(w)
  PROVE  WalletMoves
<1>1. /\ registry' = registry /\ account' = account /\ detached' = detached
      /\ connecting' = connecting \ {w} /\ dropping' = dropping /\ left' = left /\ page' = page
      /\ UNCHANGED <<page, Idle>> /\ w \in connecting
  BY DEF ConnectRefused
<1>2. /\ registry \in Seq(Wallets) /\ account \in [Wallets -> Addresses \cup {Nothing}]
      /\ detached \in BOOLEAN /\ left \in BOOLEAN /\ dropping \in 0..Len(registry)
      /\ view \in Views /\ missed \in BOOLEAN /\ panel \in Panels
  BY DEF PagesInv, PagesTypeOK
<1>3. ~left /\ ~QuietDraw
  BY <1>1, ConnectingIs
<1>4. \A x \in connecting' : Registered(x)'
  BY <1>1 DEF PagesInv, WalletOK, Registered
<1>5. /\ view' \in Views /\ missed' \in BOOLEAN /\ panel' \in Panels /\ PanelOK'
      /\ IsAddress(view') => Held(view)' \/ (page = "play" /\ missed')
  <2>1. CASE page = "play"
    <3>1. view' = view /\ panel' = panel /\ missed' = missed
      BY <2>1 DEF ConnectRefused
    <3>2. PanelOK'
      BY <3>1, <1>1 DEF PagesInv, PanelOK, ShownProofIsOffered, Idle
    <3> QED
      BY <3>1, <3>2, <1>1, <1>2 DEF PagesInv, WalletOK, Held
  <2>2. CASE page # "play"
    <3>1. Assign("not-connected", card)
      BY <2>2 DEF ConnectRefused
    <3>2. "not-connected" \in Views
      BY DEF Views
    <3>3. view' = "not-connected" /\ missed' = FALSE /\ panel' \in Panels /\ PanelOK'
      BY <1>1, <3>1, <3>2, AssignIs
    <3> QED
      BY <3>2, <3>3, AddressIs
  <2> QED
    BY <2>1, <2>2
<1> QED
  BY <1>1, <1>2, <1>3, <1>4, <1>5 DEF WalletMoves

\* The loop of disconnect goes to a registered wallet, or ends.
LEMMA NextDroppingIs ==
  ASSUME registry \in Seq(Wallets), NEW i
  PROVE  NextDropping(i) \in 0..Len(registry)
<1> DEFINE rest == {j \in DOMAIN registry : j > i /\ registry[j] \in Disconnecting}
<1>1. Len(registry) \in Nat /\ DOMAIN registry = 1..Len(registry)
  BY LenProperties
<1>2. CASE rest = {}
  BY <1>1, <1>2 DEF NextDropping
<1>3. CASE rest # {}
  <2>1. rest \in SUBSET Nat
    BY <1>1
  <2>2. \E j \in rest : \A k \in rest : j <= k
    BY <1>3, <2>1, LeastNatural
  <2>3. NextDropping(i) \in rest
    BY <1>3, <2>2 DEF NextDropping
  <2> QED
    BY <1>1, <2>3
<1> QED
  BY <1>2, <1>3

\* disconnect up to its first await.
LEMMA DisconnectMoves ==
  ASSUME PagesInv, Disconnect
  PROVE  WalletMoves
<1>1. /\ registry' = registry /\ account' = account /\ detached' = TRUE
      /\ connecting' = connecting /\ page' = page /\ dropping' = NextDropping(0)
      /\ UNCHANGED <<page, Idle>> /\ IsAddress(view)
      /\ card = "idle" \/ page = "verify"
  BY DEF Disconnect
<1>2. /\ registry \in Seq(Wallets) /\ account \in [Wallets -> Addresses \cup {Nothing}]
      /\ view \in Views /\ missed \in BOOLEAN /\ panel \in Panels /\ left \in BOOLEAN
  BY DEF PagesInv, PagesTypeOK
<1>3. ~QuietDraw
  BY <1>1, QuietIs
<1>4. dropping' \in 0..Len(registry')
  BY <1>1, <1>2, NextDroppingIs
<1>5. \A x \in connecting' : Registered(x)'
  BY <1>1 DEF PagesInv, WalletOK, Registered
<1>6. CASE dropping' = 0
  <2>1. /\ Assign(ReadConnected(registry', account', detached'),
                  CardOf(ReadConnected(registry', account', detached')))
        /\ left' = (connecting = {})
    BY <1>1, <1>6 DEF Disconnect, Disconnected
  <2>2. /\ view' \in Views /\ missed' \in BOOLEAN /\ panel' \in Panels /\ PanelOK'
        /\ IsAddress(view') => ~detached' /\ Held(view)'
    BY <2>1, <1>1, <1>2, AssignedView
  <2> QED
    BY <2>1, <2>2, <1>1, <1>2, <1>3, <1>4, <1>5 DEF WalletMoves
<1>7. CASE dropping' # 0
  <2>1. view' = view /\ panel' = panel /\ missed' = missed /\ left' = left
    BY <1>7 DEF Disconnect
  <2>2. PanelOK'
    BY <2>1, <1>1 DEF PagesInv, PanelOK, ShownProofIsOffered, Idle
  <2>3. IsAddress(view') => Held(view)' \/ (page = "play" /\ missed')
    BY <2>1, <1>1 DEF PagesInv, WalletOK, Held
  <2>4. ~left'
    BY <2>1, <1>1 DEF PagesInv, WalletOK
  <2> QED
    BY <2>1, <2>2, <2>3, <2>4, <1>1, <1>2, <1>3, <1>4, <1>5 DEF WalletMoves
<1> QED
  BY <1>6, <1>7

\* One wallet of its loop answers.
LEMMA DropMoves ==
  ASSUME PagesInv, NEW dropped \in BOOLEAN, WalletDrops(dropped)
  PROVE  WalletMoves
<1> DEFINE acc == IF dropped THEN [account EXCEPT ![registry[dropping]] = Nothing] ELSE account
<1>1. /\ registry' = registry /\ account' = acc /\ detached' = detached
      /\ connecting' = connecting /\ page' = page /\ dropping' = NextDropping(dropping)
      /\ UNCHANGED <<page, Idle>> /\ dropping > 0
  BY DEF WalletDrops
<1>2. /\ registry \in Seq(Wallets) /\ account \in [Wallets -> Addresses \cup {Nothing}]
      /\ detached \in BOOLEAN /\ dropping \in 0..Len(registry)
      /\ view \in Views /\ missed \in BOOLEAN /\ panel \in Panels /\ left \in BOOLEAN
  BY DEF PagesInv, PagesTypeOK
<1>3. ~QuietDraw
  BY <1>1, <1>2, QuietIs
<1>4. dropping' \in 0..Len(registry')
  BY <1>1, <1>2, NextDroppingIs
<1>5. \A x \in connecting' : Registered(x)'
  BY <1>1 DEF PagesInv, WalletOK, Registered
<1>6. acc \in [Wallets -> Addresses \cup {Nothing}]
  BY <1>2
<1>7. left => detached /\ connecting = {} /\ ~IsAddress(view)
  BY DEF PagesInv, WalletOK
<1>8. CASE dropping' = 0
  <2>1. /\ Assign(ReadConnected(registry', account', detached'),
                  CardOf(ReadConnected(registry', account', detached')))
        /\ left' = (connecting = {} /\ detached)
    BY <1>1, <1>8 DEF WalletDrops, Disconnected
  <2>2. /\ view' \in Views /\ missed' \in BOOLEAN /\ panel' \in Panels /\ PanelOK'
        /\ IsAddress(view') => ~detached' /\ Held(view)'
    BY <2>1, <1>1, <1>2, <1>6, AssignedView
  <2> QED
    BY <2>1, <2>2, <1>1, <1>2, <1>3, <1>4, <1>5, <1>6 DEF WalletMoves
<1>9. CASE dropping' > 0 /\ acc # account
  <2>1. Notify(ReadConnected(registry', account', detached')) /\ left' = left
    BY <1>1, <1>4, <1>9 DEF WalletDrops
  <2>2. /\ view' \in Views /\ missed' \in BOOLEAN /\ panel' \in Panels /\ PanelOK'
        /\ IsAddress(view') => Held(view)' \/ (page = "play" /\ missed')
        /\ detached' => view' = view \/ ~IsAddress(view')
    BY <2>1, <1>1, <1>2, <1>6, NotifiedView
  <2>3. left' => detached' /\ connecting' = {} /\ ~IsAddress(view')
    BY <2>1, <2>2, <1>1, <1>7
  <2> QED
    BY <2>1, <2>2, <2>3, <1>1, <1>2, <1>3, <1>4, <1>5, <1>6 DEF WalletMoves
<1>10. CASE dropping' # 0 /\ acc = account
  <2>1. view' = view /\ panel' = panel /\ missed' = missed /\ left' = left
    BY <1>1, <1>4, <1>10 DEF WalletDrops
  <2>2. PanelOK'
    BY <2>1, <1>1 DEF PagesInv, PanelOK, ShownProofIsOffered, Idle
  <2>3. IsAddress(view') => Held(view)' \/ (page = "play" /\ missed')
    BY <2>1, <1>1, <1>10 DEF PagesInv, WalletOK, Held
  <2>4. left' => detached' /\ connecting' = {} /\ ~IsAddress(view')
    BY <2>1, <1>1, <1>7
  <2> QED
    BY <2>1, <2>2, <2>3, <2>4, <1>1, <1>2, <1>3, <1>4, <1>5, <1>6 DEF WalletMoves
<1>11. dropping' = 0 \/ dropping' > 0
  BY <1>4, <1>1, <1>2, LenProperties
<1> QED
  BY <1>8, <1>9, <1>10, <1>11

-----------------------------------------------------------------------------
(* Steps of the card. *)

\* What a step of the card leaves alone.
CardStep == UNCHANGED <<page, view, walletVars, panelVars>>

\* A step of the card that keeps the drawings keeps the rest.
LEMMA CardStepInv ==
  ASSUME PagesInv, CardStep, raffles' \in Seq(Entries), result' \in Entries \cup {Nothing}, CardOK'
  PROVE  PagesInv'
<1> USE DEF PagesInv
<1>1. /\ page' = page /\ view' = view /\ registry' = registry /\ account' = account
      /\ detached' = detached /\ connecting' = connecting /\ dropping' = dropping
      /\ missed' = missed /\ left' = left /\ verifying' = verifying /\ panel' = panel
      /\ lastVerifyResult' = lastVerifyResult /\ checks' = checks
      /\ lastSnapshotProof' = lastSnapshotProof
  BY DEF CardStep, walletVars, panelVars
<1>2. PagesTypeOK'
  BY <1>1 DEF PagesTypeOK
<1>3. WalletOK'
  BY <1>1 DEF WalletOK, Registered, Held
<1>4. PanelOK'
  BY <1>1 DEF PanelOK, ShownProofIsOffered
<1> QED
  BY <1>2, <1>3, <1>4

\* The health request is answered, the box ticked, the error dismissed: none of
\* it can happen while a quiet draw has the card.
LEMMA RedrawInv ==
  ASSUME PagesInv,
         \/ \E enabled \in BOOLEAN : HealthLoads(enabled)
         \/ HealthFails \/ ToggleWorldId \/ Reset
  PROVE  PagesInv'
<1>1. CardStep /\ raffles' = raffles /\ result' = result
  BY DEF HealthLoads, HealthFails, ToggleWorldId, Reset, CardStep
<1>2. ~QuietDraw
  BY QuietIs DEF HealthLoads, HealthFails, ToggleWorldId, Reset
<1>3. CardOK'
  BY <1>1, <1>2 DEF PagesInv, CardOK, EntryOK, QuietDraw
<1> QED
  BY <1>1, <1>3, CardStepInv DEF PagesInv, PagesTypeOK

\* What is left of a sequence without its i-th element.
LEMMA RemovedIs ==
  ASSUME NEW S, NEW s \in Seq(S), NEW i \in DOMAIN s
  PROVE  /\ RemoveAt(s, i) \in Seq(S) /\ Len(RemoveAt(s, i)) = Len(s) - 1
         /\ \A j \in DOMAIN RemoveAt(s, i) : \E k \in DOMAIN s : RemoveAt(s, i)[j] = s[k]
<1>1. Len(s) \in Nat /\ DOMAIN s = 1..Len(s) /\ i \in 1..Len(s)
  BY LenProperties
<1> DEFINE a == SubSeq(s, 1, i - 1)
           b == SubSeq(s, i + 1, Len(s))
<1>2. a \in Seq(S) /\ Len(a) = i - 1 /\ \A j \in 1..i-1 : a[j] = s[j]
  BY <1>1, SubSeqProperties
<1>3. b \in Seq(S) /\ Len(b) = Len(s) - i /\ \A j \in 1..Len(s)-i : b[j] = s[i + j]
  <2>1. CASE i = Len(s)
    BY <1>1, <2>1, SubSeqProperties
  <2>2. CASE i < Len(s)
    BY <1>1, <2>2, SubSeqProperties
  <2> QED
    BY <1>1, <2>1, <2>2
<1>4. RemoveAt(s, i) = a \o b
  BY DEF RemoveAt
<1> HIDE DEF a, b
<1>5. /\ a \o b \in Seq(S) /\ Len(a \o b) = Len(s) - 1
      /\ \A j \in 1..Len(s)-1 : (a \o b)[j] = IF j <= i - 1 THEN a[j] ELSE b[j - (i - 1)]
  <2>1. /\ a \o b \in Seq(S) /\ Len(a \o b) = Len(a) + Len(b)
        /\ \A j \in 1..Len(a)+Len(b) : (a \o b)[j] = IF j <= Len(a) THEN a[j] ELSE b[j - Len(a)]
    BY <1>2, <1>3, ConcatProperties
  <2> QED
    BY <1>1, <1>2, <1>3, <2>1
<1>6. ASSUME NEW j \in DOMAIN (a \o b) PROVE \E k \in DOMAIN s : (a \o b)[j] = s[k]
  <2>1. j \in 1..Len(s)-1
    BY <1>5, LenProperties
  <2>2. CASE j <= i - 1
    BY <1>1, <1>2, <1>5, <2>1, <2>2
  <2>3. CASE ~(j <= i - 1)
    <3>1. j - (i - 1) \in 1..Len(s)-i /\ i + (j - (i - 1)) \in DOMAIN s
      BY <1>1, <2>1, <2>3
    <3>2. (a \o b)[j] = s[i + (j - (i - 1))]
      BY <3>1, <1>3, <1>5, <2>1, <2>3
    <3> QED
      BY <3>1, <3>2
  <2> QED
    BY <2>2, <2>3
<1> QED
  BY <1>4, <1>5, <1>6

\* startLiveRaffle: what is clicked is what is entered; the draw is quiet where
\* nothing is outstanding, and it is not where another one is.
LEMMA StartInv ==
  ASSUME PagesInv, StartLiveRaffle
  PROVE  PagesInv'
<1> DEFINE e == [stage   |-> IF worldId THEN "context" ELSE "posted",
                 clicked |-> view,
                 proof   |-> IF worldId THEN view ELSE Nothing,
                 entered |-> IF worldId THEN Nothing ELSE view,
                 judged  |-> Nothing,
                 quiet   |-> Quiet]
<1>1. /\ CardStep /\ raffles' = Append(raffles, e) /\ result' = result /\ card' = "loading"
      /\ health' = health /\ page = "play" /\ card = "idle"
  BY DEF StartLiveRaffle, CardStep
<1>2. raffles \in Seq(Entries) /\ view \in Views /\ result \in Entries \cup {Nothing}
  BY DEF PagesInv, PagesTypeOK
<1>3. e \in Entries
  BY <1>2 DEF Entries, Quiet
<1>4. /\ e.clicked = view /\ e.quiet = Quiet /\ e.proof \in {view, Nothing} /\ e.entered \in {view, Nothing}
      /\ e.stage \in {"posted", "replay"} => e.entered = view
  OBVIOUS
<1> HIDE DEF e
<1>5. /\ raffles' \in Seq(Entries) /\ Len(raffles') = Len(raffles) + 1 /\ Len(raffles) \in Nat
      /\ DOMAIN raffles' = 1..Len(raffles) + 1 /\ DOMAIN raffles = 1..Len(raffles)
      /\ raffles'[Len(raffles) + 1] = e /\ \A i \in 1..Len(raffles) : raffles'[i] = raffles[i]
  BY <1>1, <1>2, <1>3, AppendProperties, LenProperties
<1>6. ~QuietDraw
  BY <1>1, QuietIs
<1>7. ASSUME NEW i \in DOMAIN raffles' PROVE EntryOK(raffles[i])'
  <2>1. CASE i \in 1..Len(raffles)
    BY <1>5, <1>6, <2>1 DEF EntryOK, QuietDraw
  <2>2. CASE i = Len(raffles) + 1
    <3>1. CASE Quiet
      <4>1. Len(raffles) = 0
        BY <1>2, <3>1, EmptySeq DEF Quiet
      <4>2. /\ view' = view /\ page' = page /\ connecting' = connecting /\ dropping' = dropping
        BY <1>1 DEF CardStep, walletVars
      <4> QED
        BY <1>1, <1>4, <1>5, <2>2, <3>1, <4>1, <4>2 DEF EntryOK, Quiet
    <3>2. CASE ~Quiet
      BY <1>4, <1>5, <2>2, <3>2 DEF EntryOK
    <3> QED
      BY <3>1, <3>2
  <2> QED
    BY <1>5, <2>1, <2>2
<1>8. CardOK'
  BY <1>1, <1>7 DEF PagesInv, CardOK
<1> QED
  BY <1>1, <1>2, <1>5, <1>8, CardStepInv

\* A draw goes on: the wallet it is entered for is the one it was clicked with
\* if it is quiet, since nothing else then touches the page.
LEMMA GoesOnInv ==
  ASSUME PagesInv, NEW i \in DOMAIN raffles, CardStep, result' = result, health' = health,
         NEW stage \in {"approval", "posted", "replay"}, NEW entered \in Views \cup {Nothing},
         raffles' = [raffles EXCEPT ![i] = [raffles[i] EXCEPT !.stage = stage, !.entered = entered]],
         entered \in {view, raffles[i].entered},
         stage \in {"posted", "replay"} => entered = view \/ raffles[i].stage = "posted",
         card' \in {card, "loading"}
  PROVE  PagesInv'
<1>1. raffles \in Seq(Entries) /\ view \in Views /\ result \in Entries \cup {Nothing}
  BY DEF PagesInv, PagesTypeOK
<1>2. /\ Len(raffles) \in Nat /\ DOMAIN raffles = 1..Len(raffles)
      /\ \A j \in DOMAIN raffles : raffles[j] \in Entries
  BY <1>1, LenProperties, ElementOfSeq
<1> DEFINE e == [raffles[i] EXCEPT !.stage = stage, !.entered = entered]
<1>3. /\ e \in Entries /\ e.stage = stage /\ e.entered = entered /\ e.clicked = raffles[i].clicked
      /\ e.proof = raffles[i].proof /\ e.quiet = raffles[i].quiet
  BY <1>2 DEF Entries
<1>4. raffles' = [raffles EXCEPT ![i] = e]
  OBVIOUS
<1> HIDE DEF e
<1>5. /\ raffles' \in Seq(Entries) /\ Len(raffles') = Len(raffles) /\ DOMAIN raffles' = DOMAIN raffles
      /\ raffles'[i] = e /\ \A j \in DOMAIN raffles : j # i => raffles'[j] = raffles[j]
  BY <1>1, <1>2, <1>3, <1>4, ExceptSeq
<1>6. /\ view' = view /\ page' = page /\ connecting' = connecting /\ dropping' = dropping
  BY DEF CardStep, walletVars
<1>7. ASSUME NEW j \in DOMAIN raffles' PROVE EntryOK(raffles[j])'
  <2>1. EntryOK(raffles[j])
    BY <1>5 DEF PagesInv, CardOK
  <2>2. CASE j = i
    <3>1. CASE raffles[i].quiet
      <4>1. /\ card = "loading" /\ view = raffles[i].clicked /\ page = "play"
            /\ connecting = {} /\ dropping = 0 /\ health # "pending" /\ Len(raffles) = 1
            /\ raffles[i].entered \in {raffles[i].clicked, Nothing} /\ raffles[i].proof \in {raffles[i].clicked, Nothing}
            /\ raffles[i].stage \in {"posted", "replay"} => raffles[i].entered = raffles[i].clicked
        BY <2>1, <2>2, <3>1 DEF EntryOK
      <4>2. /\ e.entered \in {e.clicked, Nothing}
            /\ e.stage \in {"posted", "replay"} => e.entered = e.clicked
        BY <1>3, <4>1
      <4> QED
        BY <1>3, <1>5, <1>6, <2>2, <4>1, <4>2 DEF EntryOK
    <3>2. CASE ~raffles[i].quiet
      BY <1>3, <1>5, <2>2, <3>2 DEF EntryOK
    <3> QED
      BY <3>1, <3>2
  <2>3. CASE j # i
    BY <1>5, <1>6, <2>1, <2>3 DEF EntryOK
  <2> QED
    BY <2>2, <2>3
<1>8. CardOK'
  BY <1>7 DEF PagesInv, CardOK
<1> QED
  BY <1>1, <1>5, <1>8, CardStepInv

\* A draw ends: a quiet one was the only one.
LEMMA EndsInv ==
  ASSUME PagesInv, NEW i \in DOMAIN raffles, CardStep, health' = health,
         raffles' = RemoveAt(raffles, i), result' \in Entries \cup {Nothing},
         result' # Nothing /\ result'.quiet =>
           /\ result'.entered = result'.clicked /\ result'.judged = result'.clicked
           /\ result'.proof \in {result'.clicked, Nothing}
  PROVE  PagesInv'
<1>1. raffles \in Seq(Entries)
  BY DEF PagesInv, PagesTypeOK
<1>2. /\ raffles' \in Seq(Entries) /\ Len(raffles') = Len(raffles) - 1
      /\ \A j \in DOMAIN raffles' : \E k \in DOMAIN raffles : raffles'[j] = raffles[k]
  BY <1>1, RemovedIs
<1>3. /\ DOMAIN raffles' = 1..Len(raffles') /\ Len(raffles) \in Nat
  BY <1>1, <1>2, LenProperties
<1>4. ASSUME NEW j \in DOMAIN raffles' PROVE ~raffles'[j].quiet
  <2>1. PICK k \in DOMAIN raffles : raffles'[j] = raffles[k]
    BY <1>2
  <2>2. QuietDraw => Len(raffles) = 1
    BY QuietIs
  <2> QED
    BY <1>2, <1>3, <2>1, <2>2 DEF QuietDraw
<1>5. CardOK'
  BY <1>4 DEF CardOK, EntryOK
<1> QED
  BY <1>2, <1>5, CardStepInv


\* A step of a draw.
LEMMA RaffleInv ==
  ASSUME PagesInv, NEW i \in DOMAIN raffles,
         \/ \E connector \in BOOLEAN : ProofRequested(i, connector)
         \/ ProofApproved(i)
         \/ RaffleDrawn(i)
         \/ ReplayMatches(i)
         \/ RaffleFails(i)
  PROVE  PagesInv'
<1>1. raffles \in Seq(Entries) /\ view \in Views /\ result \in Entries \cup {Nothing}
  BY DEF PagesInv, PagesTypeOK
<1>2. raffles[i] \in Entries
  BY <1>1, LenProperties, ElementOfSeq
<1>3. EntryOK(raffles[i])
  BY DEF PagesInv, CardOK
<1>4. raffles[i].entered \in Views \cup {Nothing} /\ [raffles[i] EXCEPT !.entered = @] = raffles[i]
  BY <1>2 DEF Entries
<1>5. ASSUME NEW connector \in BOOLEAN, ProofRequested(i, connector) PROVE PagesInv'
  <2>1. /\ CardStep /\ result' = result /\ health' = health /\ card' \in {card, "loading"}
        /\ raffles[i].stage = "context" /\ raffles' = [raffles EXCEPT ![i].stage = "approval"]
    BY <1>5 DEF ProofRequested, CardStep
  <2>2. [raffles[i] EXCEPT !.stage = "approval"]
          = [raffles[i] EXCEPT !.stage = "approval", !.entered = raffles[i].entered]
    BY <1>2 DEF Entries
  <2>3. raffles' = [raffles EXCEPT ![i] =
                    [raffles[i] EXCEPT !.stage = "approval", !.entered = raffles[i].entered]]
    BY <2>1, <2>2
  <2> QED
    BY <1>4, <2>1, <2>3, GoesOnInv
<1>6. CASE ProofApproved(i)
  <2>1. /\ CardStep /\ result' = result /\ health' = health /\ card' \in {card, "loading"}
        /\ raffles' = [raffles EXCEPT ![i] = [raffles[i] EXCEPT !.stage = "posted", !.entered = view]]
    BY <1>1, <1>2, <1>6 DEF ProofApproved, CardStep, Entries
  <2> QED
    BY <1>1, <2>1, GoesOnInv
<1>7. CASE RaffleDrawn(i)
  <2>1. /\ CardStep /\ result' = result /\ health' = health /\ card' \in {card, "loading"}
        /\ raffles[i].stage = "posted" /\ raffles' = [raffles EXCEPT ![i].stage = "replay"]
    BY <1>7 DEF RaffleDrawn, CardStep
  <2>2. [raffles[i] EXCEPT !.stage = "replay"]
          = [raffles[i] EXCEPT !.stage = "replay", !.entered = raffles[i].entered]
    BY <1>2 DEF Entries
  <2>3. raffles' = [raffles EXCEPT ![i] =
                    [raffles[i] EXCEPT !.stage = "replay", !.entered = raffles[i].entered]]
    BY <2>1, <2>2
  <2> QED
    BY <1>4, <2>1, <2>3, GoesOnInv
<1>8. CASE ReplayMatches(i)
  <2> DEFINE r == [raffles[i] EXCEPT !.stage = "result", !.judged = view]
  <2>1. /\ CardStep /\ health' = health /\ raffles' = RemoveAt(raffles, i) /\ result' = r
        /\ raffles[i].stage = "replay"
    BY <1>8 DEF ReplayMatches, CardStep
  <2>2. /\ r \in Entries /\ r.entered = raffles[i].entered /\ r.judged = view
        /\ r.clicked = raffles[i].clicked /\ r.proof = raffles[i].proof /\ r.quiet = raffles[i].quiet
    BY <1>1, <1>2 DEF Entries
  <2> HIDE DEF r
  <2>3. r.quiet =>
          /\ r.entered = r.clicked /\ r.judged = r.clicked
          /\ r.proof \in {r.clicked, Nothing}
    BY <1>3, <2>1, <2>2 DEF EntryOK
  <2> QED
    BY <2>1, <2>2, <2>3, EndsInv
<1>9. CASE RaffleFails(i)
  <2>1. /\ CardStep /\ health' = health /\ raffles' = RemoveAt(raffles, i) /\ result' = result
    BY <1>9 DEF RaffleFails, CardStep
  <2> QED
    BY <1>1, <2>1, EndsInv DEF PagesInv, CardOK
<1> QED
  BY <1>5, <1>6, <1>7, <1>8, <1>9

-----------------------------------------------------------------------------
(* Steps of the panel. *)

\* A step of the panel that keeps what it shows sound keeps the rest.
LEMMA PanelStepInv ==
  ASSUME PagesInv, UNCHANGED <<page, view, walletVars, cardVars>>,
         lastVerifyResult' \in Outcomes \cup {Nothing}, verifying' \subseteq Signatures,
         panel' \in Panels, checks' \subseteq [sig : Signatures, id : Ids], PanelOK'
  PROVE  PagesInv'
<1> USE DEF PagesInv
<1>1. /\ page' = page /\ view' = view /\ registry' = registry /\ account' = account
      /\ detached' = detached /\ connecting' = connecting /\ dropping' = dropping
      /\ missed' = missed /\ left' = left /\ raffles' = raffles /\ result' = result
      /\ card' = card /\ health' = health
  BY DEF walletVars, cardVars
<1>2. PagesTypeOK'
  BY <1>1 DEF PagesTypeOK
<1>3. WalletOK'
  BY <1>1 DEF WalletOK, Registered, Held
<1>4. CardOK'
  BY <1>1 DEF CardOK, EntryOK
<1> QED
  BY <1>2, <1>3, <1>4

\* runFromForm.
LEMMA RunInv ==
  ASSUME PagesInv, NEW sig \in Signatures, NEW timer \in BOOLEAN, RunFromForm(sig, timer)
  PROVE  PagesInv'
<1>1. /\ UNCHANGED <<page, view, walletVars, cardVars>> /\ page' = page /\ page = "verify"
      /\ lastVerifyResult' = Nothing /\ verifying' = verifying \cup {sig}
      /\ panel' = panel /\ checks' = checks /\ lastSnapshotProof' = lastSnapshotProof
  BY DEF RunFromForm
<1>2. PanelOK'
  BY <1>1 DEF PagesInv, PanelOK, ShownProofIsOffered
<1> QED
  BY <1>1, <1>2, PanelStepInv DEF PagesInv, PagesTypeOK

\* The answer is drawn for the wallet of this moment.
LEMMA AnswerInv ==
  ASSUME PagesInv, NEW sig \in Signatures, NEW status \in {"MATCH", "MISMATCH", "ERROR"},
         VerifyAnswers(sig, status)
  PROVE  PagesInv'
<1> DEFINE r == [sig |-> sig, status |-> status]
<1>1. /\ UNCHANGED <<page, view, walletVars, cardVars>> /\ page' = page /\ view' = view
      /\ sig \in verifying /\ lastVerifyResult' = r /\ verifying' = verifying \ {sig}
      /\ panel' = IF status = "ERROR" THEN NoPanel ELSE Details(r, view)
      /\ checks' = checks /\ lastSnapshotProof' = lastSnapshotProof
  BY DEF VerifyAnswers
<1>2. r \in Outcomes /\ view \in Views
  BY DEF Outcomes, PagesInv, PagesTypeOK
<1>3. panel' \in Panels /\ panel'.address \in {Nothing, view} /\ panel'.check = Nothing
  BY <1>1, <1>2 DEF Panels, Outcomes, Details, NoPanel, IsAddress, Answers
<1>4. page # "play"
  BY <1>1 DEF PagesInv, PanelOK
<1>5. PanelOK'
  BY <1>1, <1>3, <1>4 DEF PanelOK, ShownProofIsOffered
<1> QED
  BY <1>1, <1>2, <1>3, <1>5, PanelStepInv DEF PagesInv, PagesTypeOK

\* runSnapshotCheck up to its await.
LEMMA CheckInv ==
  ASSUME PagesInv, NEW id \in Ids, RunSnapshotCheck(id)
  PROVE  PagesInv'
<1>1. /\ UNCHANGED <<page, view, walletVars, cardVars>> /\ page' = page /\ view' = view
      /\ page = "verify" /\ lastVerifyResult # Nothing /\ panel.status = "MATCH"
      /\ lastVerifyResult' = lastVerifyResult /\ verifying' = verifying
      /\ checks' = checks \cup {[sig |-> lastVerifyResult.sig, id |-> id]}
      /\ panel' = [panel EXCEPT !.check = [kind |-> "loading"]]
  BY DEF RunSnapshotCheck, HasCheck
<1>2. lastVerifyResult \in Outcomes /\ panel \in Panels /\ checks \subseteq [sig : Signatures, id : Ids]
  BY <1>1 DEF PagesInv, PagesTypeOK
<1>3. checks' \subseteq [sig : Signatures, id : Ids]
  BY <1>1, <1>2 DEF Outcomes
<1>4. [kind |-> "loading"] \in Answers
  BY DEF Answers
<1>5. /\ panel' \in Panels /\ panel'.address = panel.address /\ panel'.status = panel.status
      /\ panel'.check = [kind |-> "loading"]
  BY <1>1, <1>2, <1>4 DEF Panels
<1>6. panel'.check.kind # "proved"
  BY <1>5
<1>7. PanelOK'
  BY <1>1, <1>5, <1>6 DEF PagesInv, PanelOK, ShownProofIsOffered
<1> QED
  BY <1>1, <1>2, <1>3, <1>5, <1>7, PanelStepInv DEF PagesInv, PagesTypeOK

\* Its answer: what is shown as proved is what is offered.
LEMMA CheckedInv ==
  ASSUME PagesInv, NEW c \in checks, NEW answer \in {"participant", "absent", "error"},
         NEW who \in Ids, CheckAnswers(c, answer, who)
  PROVE  PagesInv'
<1> DEFINE proved == answer = "participant" /\ ProofLeadsToRoot(c, who)
           kind   == IF proved THEN "proved" ELSE IF answer = "absent" THEN "absent" ELSE "error"
           proof  == [sig |-> c.sig, who |-> who]
           shown  == [kind |-> kind, proof |-> IF proved THEN proof ELSE Nothing]
<1>1. /\ UNCHANGED <<page, view, walletVars, cardVars>> /\ page' = page /\ view' = view
      /\ lastVerifyResult' = lastVerifyResult /\ verifying' = verifying
      /\ checks' = checks \ {c}
      /\ lastSnapshotProof' = IF proved THEN proof ELSE lastSnapshotProof
      /\ panel' = IF HasCheck THEN [panel EXCEPT !.check = shown] ELSE panel
  BY DEF CheckAnswers
<1>2. panel \in Panels /\ checks \subseteq [sig : Signatures, id : Ids]
  BY DEF PagesInv, PagesTypeOK
<1>3. c \in [sig : Signatures, id : Ids]
  BY <1>2
<1>4. proof \in Proofs /\ proof.sig = c.sig /\ proof.who = who
  BY <1>3 DEF Proofs
<1>5. shown \in Answers /\ shown.kind = kind /\ (proved => shown.proof = proof)
  BY <1>4 DEF Answers
<1>6. proved => proof.who \in Members[proof.sig]
  BY <1>4 DEF ProofLeadsToRoot
<1>7. kind = "proved" => proved
  OBVIOUS
<1> HIDE DEF proved, kind, proof, shown
<1>8. CASE HasCheck
  <2>1. /\ panel' \in Panels /\ panel'.address = panel.address /\ panel'.status = panel.status
        /\ panel'.check = shown
    BY <1>1, <1>2, <1>5, <1>8 DEF Panels
  <2>2. PanelOK'
    BY <1>1, <1>5, <1>6, <1>7, <1>8, <2>1 DEF PagesInv, PanelOK, ShownProofIsOffered, HasCheck
  <2> QED
    BY <1>1, <1>2, <2>1, <2>2, PanelStepInv DEF PagesInv, PagesTypeOK
<1>9. CASE ~HasCheck
  <2>1. panel' = panel /\ panel.check = Nothing
    BY <1>1, <1>9 DEF PagesInv, PanelOK, HasCheck
  <2>2. PanelOK'
    BY <1>1, <2>1 DEF PagesInv, PanelOK, ShownProofIsOffered
  <2> QED
    BY <1>1, <1>2, <2>1, <2>2, PanelStepInv DEF PagesInv, PagesTypeOK
<1> QED
  BY <1>8, <1>9

-----------------------------------------------------------------------------
(* The theorems. *)

LEMMA InitPages ==
  ASSUME PagesInit
  PROVE  PagesInv
<1>1. registry \in Seq(Wallets) /\ Len(registry) = 0 /\ raffles \in Seq(Entries) /\ Len(raffles) = 0
  BY EmptySeq DEF PagesInit
<1>2. panel \in Panels /\ panel.check = Nothing
  BY DEF PagesInit, NoPanel, Panels, Answers
<1>3. PagesTypeOK
  <2>1. dropping \in 0..Len(registry) /\ view \in Views
    BY <1>1 DEF PagesInit, Views
  <2> QED
    BY <1>1, <1>2, <2>1, Zenon DEF PagesInit, PagesTypeOK
<1>4. WalletOK
  BY AddressIs DEF PagesInit, WalletOK
<1>5. CardOK
  BY <1>1, LenProperties DEF PagesInit, CardOK
<1>6. PanelOK
  BY <1>2 DEF PagesInit, PanelOK, ShownProofIsOffered
<1> QED
  BY <1>3, <1>4, <1>5, <1>6 DEF PagesInv

LEMMA WalletStepInv ==
  ASSUME PagesInv, NEW w \in Wallets,
         \/ RegisterWallet(w)
         \/ \E a \in Addresses \cup {Nothing} : WalletSwitches(w, a)
         \/ Connect(w)
         \/ \E a \in Addresses : ConnectApproved(w, a)
         \/ ConnectEmpty(w)
         \/ ConnectRefused(w)
  PROVE  PagesInv'
<1>1. WalletMoves
  BY RegisterMoves, SwitchMoves, ConnectMoves, ApprovedMoves, EmptyMoves, RefusedMoves
<1> QED
  BY <1>1, WalletMovesInv

LEMMA NextPages ==
  ASSUME PagesInv, [PagesNext]_pagesVars
  PROVE  PagesInv'
<1>1. CASE WalletStep
  BY <1>1, WalletStepInv DEF WalletStep
<1>2. CASE Disconnect
  BY <1>2, DisconnectMoves, WalletMovesInv
<1>3. CASE \E dropped \in BOOLEAN : WalletDrops(dropped)
  BY <1>3, DropMoves, WalletMovesInv
<1>4. CASE (\E enabled \in BOOLEAN : HealthLoads(enabled)) \/ HealthFails \/ ToggleWorldId \/ Reset
  BY <1>4, RedrawInv
<1>5. CASE StartLiveRaffle
  BY <1>5, StartInv
<1>6. CASE RaffleStep
  BY <1>6, RaffleInv DEF RaffleStep
<1>7. CASE \E sig \in Signatures, timer \in BOOLEAN : RunFromForm(sig, timer)
  BY <1>7, RunInv
<1>8. CASE \E sig \in Signatures, status \in {"MATCH", "MISMATCH", "ERROR"} : VerifyAnswers(sig, status)
  BY <1>8, AnswerInv
<1>9. CASE \E id \in Ids : RunSnapshotCheck(id)
  BY <1>9, CheckInv
<1>10. CASE \E c \in checks, answer \in {"participant", "absent", "error"}, who \in Ids :
              CheckAnswers(c, answer, who)
  BY <1>10, CheckedInv
<1>11. CASE UNCHANGED pagesVars
  <2>1. UNCHANGED <<page, view, walletVars, cardVars, panelVars>>
    BY <1>11 DEF pagesVars
  <2>2. /\ lastVerifyResult' = lastVerifyResult /\ verifying' = verifying /\ panel' = panel
        /\ checks' = checks /\ lastSnapshotProof' = lastSnapshotProof /\ page' = page /\ view' = view
    BY <2>1 DEF panelVars
  <2>3. PanelOK'
    BY <2>2 DEF PagesInv, PanelOK, ShownProofIsOffered
  <2> QED
    BY <2>1, <2>2, <2>3, PanelStepInv DEF PagesInv, PagesTypeOK
<1> QED
  BY <1>1, <1>2, <1>3, <1>4, <1>5, <1>6, <1>7, <1>8, <1>9, <1>10, <1>11 DEF PagesNext

\* An address a page shows is one some registered wallet still reports, but for
\* the changes a draw in flight makes the card ignore, the verdict in the panel
\* is about that address, and after a disconnect none comes back: in any
\* number of wallets, accounts and steps.
THEOREM WalletViewAlwaysSound == PagesSpec => []WalletViewSound
<1>1. PagesInit => PagesInv
  BY InitPages
<1>2. PagesInv /\ [PagesNext]_pagesVars => PagesInv'
  BY NextPages
<1>3. PagesInv => WalletViewSound
  <2> SUFFICES ASSUME PagesInv PROVE WalletViewSound
    OBVIOUS
  <2>1. page = "play" => lastVerifyResult = Nothing
    BY DEF PagesInv, PanelOK
  <2>2. ASSUME panel.address # Nothing, lastVerifyResult # Nothing
        PROVE  panel.address = view /\ Held(panel.address)
    <3>1. panel.address = view /\ page # "play"
      BY <2>1, <2>2 DEF PagesInv, PanelOK
    <3>2. panel.address \in Addresses
      BY <2>2 DEF PagesInv, PagesTypeOK, Panels
    <3> QED
      BY <3>1, <3>2 DEF PagesInv, WalletOK, IsAddress
  <2> QED
    BY <2>2 DEF PagesInv, WalletOK, WalletViewSound, AddressesAreHeld, DisconnectHolds
<1> QED
  BY <1>1, <1>2, <1>3, PTL DEF PagesSpec

\* The wallet a quiet draw was clicked with is the one its proof is bound to,
\* the one entered and the one judged, and a participant shown as proved is in
\* the committed list and is the proof on offer, whatever answers come late.
THEOREM AnswersAlwaysSound == PagesSpec => []AnswersSound
<1>1. PagesInit => PagesInv
  BY InitPages
<1>2. PagesInv /\ [PagesNext]_pagesVars => PagesInv'
  BY NextPages
<1>3. PagesInv => AnswersSound
  BY DEF PagesInv, CardOK, EntryOK, PanelOK, AnswersSound, EntrantIsJudged
<1> QED
  BY <1>1, <1>2, <1>3, PTL DEF PagesSpec

=============================================================================
