SPECIFICATION FairSpec
CONSTANTS
  Accounts = {"http", "local"}
  Local = {"local"}
  Waiters = {"w1"}
  Base = 1
  MinHTTP = 1
  MaxHTTP = 2
  Tiers <- MCTiers
  Answers <- MCAnswers
  RateLimits = {3}
  MaxUnchanged = 1
  MaxAsked = 1
INVARIANT
  TypeOK
PROPERTIES
  RateLimitsHold
  WaitersReturn
  AccountsKeepBeingPolled
