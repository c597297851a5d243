SPECIFICATION MCSpec
CONSTANTS
  c1 = c1
  c2 = c2
  f1 = f1
  f2 = f2
  q1 = q1
  q2 = q2
  k1 = k1
  k2 = k2
  k3 = k3
  recipient = recipient
  synthetic = synthetic
  wallet = wallet
  small = small
  large = large
  before = before
  after = after
  Calls = {c1, c2}
  Confirms = {f1, f2}
  Keys = {k1, k2, k3}
  Recipients = {recipient}
  Synthetics = {synthetic}
  Wallets = {wallet}
  Amounts = {small, large}
  Profiles = {before, after}
  Asks = {q1}
  Closings = {}
  AskKeys = {a1}
  RequestKey <- OneRequestKey
INVARIANTS
  ReceivedMeansPaid
