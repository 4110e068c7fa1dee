CONSTANTS
  Tree <- MCTree
  Prelude <- MCPrelude
  Stmts <- MCStmts
  MAXSTACK = 3
  MAXDISPARGS = 2
SPECIFICATION Spec
INVARIANTS TypeOK ContextClean MethodDispatch CallResults ListsShared ListOpsFresh MapsShared StringOpsResult ModuloTruncates
