SPECIFICATION Spec
CONSTANTS
  Accounts = {"http"}
  Local = {}
  Waiters = {}
  Base = 1
  MinHTTP = 1
  MaxHTTP = 2
  Tiers <- MCTiers
  Answers <- MCAnswers
  RateLimits = {1}
  MaxUnchanged = 1
  MaxAsked = 0
PROPERTY
  LastUsageIsKept
