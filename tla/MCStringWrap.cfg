\* Every text of up to seven letters and blanks on lines of 1, 2, 3 and 5
\* characters.  A call ends, or stops at the bound of a first pass without
\* end, which is no deadlock.
CONSTANTS
  Calls <- AllCalls
  MaxLoops = 40
  MaxLines = 8
SPECIFICATION FairSpec
CHECK_DEADLOCK FALSE
INVARIANT WordsKept
PROPERTIES
  NeverWorse
  Finishes
