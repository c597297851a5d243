SPECIFICATION FairSpec
CONSTANTS
  alice = alice
  shop = shop
  Receipts = {1, 2}
  Accounts = {alice, shop}
  SenderOf <- Senders
  RecipientOf <- Recipients
  ToSynthetic = {}
  Workers = {w1, w2}
  GrowthLimit = 2
  AccountLimit = 1
  EventLimit = 1
  MaxFaults = 1
INVARIANTS
  EventsAgree
  CountedOnce
PROPERTIES
  EventuallyPassed
