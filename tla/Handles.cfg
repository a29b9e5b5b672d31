\* see README
SPECIFICATION FairSpec
CONSTANTS
  MaxHandles = 4
  ScriptObjects = FALSE
INVARIANTS
  CallableIsSafe
  NoLeakAtClose
PROPERTIES
  DriverProtocol
  EventuallyReleased
\* after lua_close nothing is left to do
CHECK_DEADLOCK FALSE
