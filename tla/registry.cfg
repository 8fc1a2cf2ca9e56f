SPECIFICATION FairSpec
CONSTANTS
  Keys = {k1, k2}
  UpgradeAuthority = k1
  Hashes = {h1}
  Blobs <- MCBlobs
  FormatOf <- MCFormatOf
  BandOf <- MCBandOf
  Bytes = {0, 1}
  Formats = {"compact", "scale4", "scale7"}
  ScaleFormats = {"scale4", "scale7"}
  DeclaredLens = {0, 2, 3, 5}
  ChunkSize = 2
  MaxChunks = 2
  MaxWrite = 2
  Bands = {"zero", "band"}
  AllowChoices = {FALSE, TRUE}
  Reviews = {"APPROVED", "REJECTED", "DEPRECATED"}
  Runtimes = {r1, r2}
INVARIANT ArtifactsIntact
PROPERTY UploadsOnlyGrow
PROPERTY UploadCompletes
CHECK_DEADLOCK FALSE
