CONSTANTS
  Tree <- MCTree
  Prelude <- MCPrelude
  Stmts <- MCStmtsNested
  MAXSTACK = 3
  MAXDISPARGS = 2
SPECIFICATION Spec
INVARIANT MethodCallBindsOwnObject
