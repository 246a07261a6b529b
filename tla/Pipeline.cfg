\* Every kind of plan, with searches and a model that may fail at every step.
CONSTANTS
  Prompts <- AllPrompts
  AnalysisReplies <- MCAnalysisReplies
  GateReplies <- MCGateReplies
  NeedReplies <- NoReply
  StrategyReplies <- NoReply
  LinkReplies <- MCLinkReplies
  CriticReplies <- MCCriticReplies
  Says = {"empty", "down", "unsure", "grounded", "invented"}
  Batches <- MCBatches
  FeedSets <- MCFeeds
SPECIFICATION Spec
INVARIANTS
  TypeOK
  PlanIsExecutable
  NoErrorShown
  WarningReachesUser
  MockStaysOut
CHECK_DEADLOCK TRUE
