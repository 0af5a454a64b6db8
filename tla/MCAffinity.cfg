CONSTANTS
  MountErrs = {FALSE}
  EmptyAnswers = {"yes", "no", "err"}
SPECIFICATION Spec
INVARIANT AgreesWithDecisionTable
