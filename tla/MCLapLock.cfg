CONSTANTS
  MCClocks = 16
  N = 16
  Cand <- MCCand
  Table <- MCTable
  Twin <- MCTwin
  TrueUap = 5
  ZeroUap = 0
  Coset = {"own", "other"}
  Own = "own"
  Advances <- MCAdvances
  Slips <- Zero
  Jitters <- MCJitters
  HeaderErrs <- Zero
  Payloads <- MCPayloads
  MaxAge = 8
SPECIFICATION Spec
INVARIANT LockIsProven
