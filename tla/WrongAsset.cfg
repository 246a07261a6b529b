\* The price of gold, then of a coin, or the other way round.
CONSTANTS
  Prompts <- MarketPrompts
  AnalysisReplies <- NoReply
  GateReplies <- NoReply
  NeedReplies <- NoReply
  StrategyReplies <- NoReply
  LinkReplies <- NoReply
  CriticReplies <- MCCriticReplies
  Says = {"grounded"}
  Batches <- MCBatches
  FeedSets <- AllFeeds
SPECIFICATION Spec
INVARIANT QuoteIsOfAsset
CHECK_DEADLOCK TRUE
