SPECIFICATION WizardSpec
CONSTANTS
  r1 = r1  r2 = r2
  StepRequests = {r1, r2}
SYMMETRY Symmetry
INVARIANTS StatusIsConsistent CompletedStepsAreSaved AckedStepsStay
