\* All three front ends, both protocols, up to three clients, two presses of Start.
CONSTANTS
  FrontEnds = {"cmdline", "kylix", "borland"}
  MaxClients = 3
  MaxStarts = 2
SPECIFICATION Spec
INVARIANTS DestroysWhatExists GivenBack SetUpSurvives
PROPERTY SetUpEnds
\* The program ends, or reads memory it does not own.
CHECK_DEADLOCK FALSE
