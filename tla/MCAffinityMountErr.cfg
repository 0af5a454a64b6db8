CONSTANTS
  MountErrs = {FALSE, TRUE}
  EmptyAnswers = {"yes", "no"}
SPECIFICATION Spec
INVARIANT AgreesWithDecisionTable
