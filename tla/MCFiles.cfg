CONSTANTS
  Slots = {n1, n2, n3}
  Root = root
  NULL = NULL
  Names = {"a", "long", "models"}
  Long = "longer"
  LongCut = "long"
  MIN_CAP = 1
  Tar <- MCTar
  Modules <- MCModules
  Paths <- MCPaths
  Lines <- MCLines
  PATH_DEPTH = 2
  PATH_ROOM = 2
SPECIFICATION Spec
INVARIANTS Inv WriteShows
PROPERTIES CwdKept Implements
SYMMETRY Perms
