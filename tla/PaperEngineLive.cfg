SPECIFICATION FairSpec
CONSTANTS
  Symbols = {s1}
  Prices = {1, 2}
  Quantities = {1}
  Orders <- MCLiveOrders
  Ids = {1, 2}
  Threads = {w1, w2}
  NoThread = NoThread
  Balances = {4}
  TopUps = {}
  MaxDeposit = 4
PROPERTIES LockReleased
