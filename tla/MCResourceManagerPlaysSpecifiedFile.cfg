SPECIFICATION ManagerSpec
CONSTANTS
  Bell = Bell
  Click = Click
  Flip = Flip
  Files = {Bell, Click, Flip}
  SourceLimit = 3
  BufferLimit = 3
  Tracks <- MCTracks
  PacketsOf <- MCPacketsOf
  PerBuffer = 2
INVARIANTS
  PlaysSpecifiedFile
CHECK_DEADLOCK FALSE
