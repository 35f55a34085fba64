SPECIFICATION ServiceSpec
CONSTANT Plans <- MCPlans
INVARIANTS TrueWhenTold
PROPERTIES InstallRepeats DataGoesLast
CHECK_DEADLOCK FALSE
