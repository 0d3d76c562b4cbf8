SPECIFICATION IngestionSpec
CONSTANTS
  Path = {p1, p2}
  p1 = p1
  p2 = p2
  blank = blank
  image = image
  short = short
  other = other
  long = long
  title = title
  renamed = renamed
  Bytes = {short, other, long}
  Blank = {}
  Title = {title}
  ChunkCount <- MCChunkCount
  NoFile = NoFile
  StopPoints = {"ingesting", "replaced", "pruning", "pruned", "serving"}
  EditPhases = {"down", "ingesting", "replaced", "pruning", "pruned", "serving"}
PROPERTIES ChangedBytesReplaceOldChunks
CHECK_DEADLOCK FALSE
