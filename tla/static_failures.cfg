SPECIFICATION CarefulSpec
CONSTANTS
  Path = {p1, p2}
  p1 = p1
  p2 = p2
  blank = blank
  image = image
  short = short
  other = other
  long = long
  title = title
  renamed = renamed
  Bytes = {blank, short, long}
  Blank = {blank}
  Title = {title, renamed}
  ChunkCount <- MCChunkCount
  NoFile = NoFile
  StopPoints = {"ingesting", "replaced", "pruning", "pruned", "serving"}
  EditPhases = {"down", "serving"}
INVARIANTS ServesTheCorpus
PROPERTIES PrunedWhenWhole Recovers
