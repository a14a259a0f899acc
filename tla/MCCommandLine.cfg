\* Every line of up to two arguments, and a long one with every change of one or two of them.
CONSTANTS
  Lines <- MCLines
  Dashed <- MCDashed
  Spelling <- MCSpelling
  Misspelt <- MCMisspelt
  NumberOf <- MCNumberOf
  IntRange = 65536
  Installed <- MCInstalled
  InLibDir <- MCInLibDir
SPECIFICATION ParserSpec
INVARIANTS AcceptsExactly OptionsAsGiven
\* The constructor returns.
CHECK_DEADLOCK FALSE
