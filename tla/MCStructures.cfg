SPECIFICATION Spec
CONSTANTS
  DocId = {1, 2, 3}
  QueryTerm = {1, 2}
  MaxTermScore = 2
  Multiplier = 2
  UrlBonus = 1
  MaxUrlWords = 2
  K = {1, 2}
  TextDoc = {1, 2}
  Title <- MCTitle
  Body <- MCBody
  Wanted = {"a", "b"}
  SynonymOf <- MCSynonymOf
  Excluded = {"x"}
  Phrase <- MCPhrase
  MinAdaptive = 2
  Limits = {1, 3}
  Node = {"a", "b", "c"}
  Scale = 124416
  DampNum = 1
  DampDen = 2
  Converged = 10000
  MaxIterations = {1, 2, 3, 4}
  Base = 4
  Records <- MCRecords
  Letter = {"a", "b"}
  MaxWord = 4
  SuggestText <- MCSuggestText
  MaxDepth = 5
  MaxWeight = 3
  ExactBonus = 3
  LengthBonus = 4
  MaxCollect = 2
  MaxInserts = 3
  MaxTokens = 5
  Letters = {"a", "b"}
  MaxText = 5
  LensPattern <- MCLensPattern
  LensHost <- MCRankHost
  BuiltinId = {"general"}
  CustomId = {"mine"}
  LensOne = 4
  BoostMax = 8
  DemoteMin = 1
  MaxRules = 2
  RankDoc = {1, 2, 3, 4}
  RankHost <- MCRankHost
  RankTitle = {"", "x"}
  MaxBase = 2
  MaxClassified = 1
  Settings <- MCSettings
  CleanBoost = 5
  TrackingPenalty = 3
  HeavyPenalty = 2
  PenaltyNum = 4
  PenaltyDen = 5
  MinTopK = 3
  PageSizes = {2}
CHECK_DEADLOCK FALSE
INVARIANTS
  StructuresTypeOK
  SearchIsExact
  RankIsComputed
  WrittenIsRead

