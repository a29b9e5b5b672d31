\* see README
SPECIFICATION Spec
CONSTANTS
  MaxHandles = 4
  ScriptObjects = TRUE
INVARIANTS
  UnsafeOnlyIfResurrected
\* after lua_close nothing is left to do
CHECK_DEADLOCK FALSE
