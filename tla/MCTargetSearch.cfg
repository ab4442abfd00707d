CONSTANTS
  N = 8
  Cand <- MCCand
  Table <- MCTable
  Twin <- MCTwin
  TrueUap = 2
  Coset = {"own", "other"}
  Own = "own"
  Advances <- MCAdvances
  Skews <- MCSkews
  Jitters <- MCJitters
  Strangers <- MCStrangers
  MaxAge = 9
  Target = "target"
  OtherLaps = {"second", "preset"}
  Preset = "preset"
  Arguments <- MCArguments
SPECIFICATION SearchSpec
INVARIANTS
  SearchTypeOK
  ResolvedIsPair
  TrueUapKept
  TallyIsExact
  StopsWhenFound
CHECK_DEADLOCK FALSE
