SPECIFICATION Spec
CONSTANTS
  None = None
  Orders <- TwoOrders
  Clicks = {c1, c2}
  MaxUnattended = 1
SYMMETRY ClicksAlike
INVARIANTS
  EndShownIsEnd
  OneOpenUnlessOverlap
PROPERTIES
  RefusedOnlyIfStale
  SubmissionShown
  ClicksAdvance
