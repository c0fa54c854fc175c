\* Statements two deep in a loop, towers three deep where a frame has room for three
\* blocks, and expressions two deep in every statement.  Beside them a table of lines in
\* bytes that count to 1: an increment of the address needs up to four pairs, one of the
\* line up to two.
CONSTANTS
  CO_MAXBLOCKS = 3
  ArgRange = 65536
  ByteRange = 64
  Py_OptimizeFlag = FALSE
  Depth = 2
  BlockEvents = 12
  ExpressionEvents = 24
  Programs <- MCPrograms
  Compiled <- jcompile
  MaxEvents <- MCMaxEvents
  ByteValues = 2
  MaxLine = 3
  MaxCode = 4
  MaxPairs = 2
SPECIFICATION MCSpec
INVARIANTS CodeMeansProgram StacksFit CodeHasStackMap CaughtIsRestored LinesAreFound LinesAreRight
CHECK_DEADLOCK FALSE
