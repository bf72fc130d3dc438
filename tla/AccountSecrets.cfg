CONSTANTS
  c1 = c1
  c2 = c2
  Clients <- TwoClients
  Bodies <- SixBodies
  EnvKeys <- FileOrEnv
  MaxKeys = 2
  MaxPuts = 3
SPECIFICATION Spec
SYMMETRY Symmetry
CHECK_DEADLOCK FALSE
INVARIANT Inv
PROPERTY AnswerTruthful
