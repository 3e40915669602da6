\* A job with up to three pieces of output.
CONSTANT MaxOutput = 3
SPECIFICATION Spec
INVARIANTS NeverDenied CollectedWhole
PROPERTIES StepsOfAJob
CHECK_DEADLOCK FALSE
