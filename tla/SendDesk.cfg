SPECIFICATION FairSpec
CONSTANTS
  None = None
  messages = messages
  Walks <- OneWalk
  Stashes <- BothStashes
  ReviewHold = 2
  AcceptanceHold = 1
  MaxSends = 2
INVARIANTS DeskInv ReleaseWakes
PROPERTIES OnePageSlips WalksGoOn
