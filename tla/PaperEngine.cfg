SPECIFICATION Spec
CONSTANTS
  Symbols = {s1}
  Prices = {1, 2}
  Quantities = {1}
  Orders <- MCOrders
  Ids = {1, 2}
  Threads = {w1, w2}
  NoThread = NoThread
  Balances = {7}
  TopUps = {2}
  MaxDeposit = 9
SYMMETRY ThreadSymmetry
INVARIANTS TypeOK MoneyConserved ClosedOnce OneSidedBook
PROPERTIES OpensAreFunded HistoryKept ExitsEnforced ImplementsAccount
