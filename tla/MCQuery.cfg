SPECIFICATION MCSpec
CONSTANTS
  said = said
  derived = derived
  other = other
  e1 = e1
  e2 = e2
  Memory = {said, derived, other}
  Entity = {e1, e2}
  Owner <- MCOwner
  Source <- MCSource
  Linked <- MCLinked
  Confident = {said}
  Limit = 1
  HydrationCap = 2
  Bound = {None, 0}
  MaxTime = 1
  MaxChanges = 1
  None = None
  Never = Never
  Vectors = 6
  MinSimilarity = 40
  Strong = 60
  SimilarityGain = 5
  MaxHitGain = 1
  SemanticStart = 2
  SemanticStep = 2
  MaxTop = 6
  MinHits = 2
  MaxAttempts = 3
  MaxRowChanges = 2
  Unresolved = Unresolved
  Kinds = {"fact", "preference", "conversational"}
  Intents = {"general", "inference", "temporal"}
  MaxSubjects = 3
  MaxCues = 3
  LatestScores = {0, 30, 60, 75, 90, 100}
  MaxLinks = 3
  MaxEdges = 3
  MaxHits = 6
  Years = {1900, 1904, 1969, 1970, 1999, 2000, 2001, 2023, 2024, 2099, 2100, 2101, 2200}
  MayDisagree = FALSE
INVARIANTS
  WithinLimit
  WidenedFindsAsOne
  RankingIsFair
  QuestionIsCovered
  PolicyAgrees
  CalendarsAgree
PROPERTIES
  AnswersOfTheStore
  MoreIsNoLess
CHECK_DEADLOCK FALSE
