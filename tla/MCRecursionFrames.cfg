CONSTANTS
  Tree <- MCTree
  Prelude <- MCPrelude
  Stmts <- MCStmtsRecursive
  MAXSTACK = 3
  MAXDISPARGS = 2
SPECIFICATION Spec
INVARIANT RecursionFrames
