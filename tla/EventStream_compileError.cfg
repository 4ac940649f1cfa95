\* A program that does not compile; nothing breaks.
CONSTANTS
  Feeds <- CompileErrors
  MaxBreaks = 0
SPECIFICATION FairSpec
PROPERTIES CompileErrorEnds
