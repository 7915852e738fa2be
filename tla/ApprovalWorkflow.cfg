SPECIFICATION Spec
CONSTANTS
  Corrs = {c1, c2}
  NoCorr = NoCorr
  Symbols = {s1}
  Ltps = {1, 2, 3}
  Plans <- MCPlans
  Brokers <- MCBrokers
  Locals <- MCLocals
  SavedModes = {}
  ExitsKeyed = FALSE
  MaxRows = 1
  MaxExits = 2
SYMMETRY CorrSymmetry
INVARIANTS TypeOK PreviewedOnce DecisionsPreviewed RequestsAudited
PROPERTIES ReconciledFirst ImplementsLedger
