SPECIFICATION Spec
CONSTANTS
  NoId = NoId
  NoAnswers = NoAnswers
  NoResolution = NoResolution
  TranscriptLine <- MCTranscriptLine
  LogRow <- MCLogRow
  MenuAnswer <- MCMenuAnswer
  TurnReplies <- MCTurnReplies
  NodeItems <- MCNodeItems
  RefItems <- MCRefItems
  EdgeItems <- MCEdgeItems
  Classes <- MCClasses
  Files <- MCFiles
  Imports <- MCImports
  Vectors <- MCVectors
  IndexedSymbols <- MCSymbols
  Importing <- MCImporting
  Precedes <- MCPrecedes
  Menu <- MCMenu
  Payloads <- MCPayloads
  Decisions <- MCDecisions
  TranscriptLines = 3
  LogRows = 4
  AnswerCount = 2
  ReferenceCount = 13
  EdgeCount = 9
  Statements = 3
  Parts = 4
  MaxParts = 2
  TopK = 2
  Budget = 9
  ModelReplies = 5
  MaxToolRounds = 3
  RecentTurns = 3
INVARIANTS
  EventsAreTheFile
  SolutionsMatch
  AnswersFitTheMenu
  PrintsWhatTheBrokerSaid
  SelfCallsReachNearest
  RanksByBestSeed
  BlockFits
  CallsGoToInnermost
  TurnsKeepTheRecord
CHECK_DEADLOCK FALSE
