SPECIFICATION Spec
CONSTANTS
  u1 = u1
  u2 = u2
  Servers = {u1, u2}
  Bad = Bad
  None = None
  NoFile = NoFile
  Torn = Torn
  WizardSaves = {"w1", "w2"}
  Names = {"n1", "n2"}
  Questions = {"q1", "q2"}
  Plans <- MCPlans
INVARIANTS RightKind ScreensHold WizardSticks
CHECK_DEADLOCK FALSE
