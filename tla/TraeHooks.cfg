SPECIFICATION Spec
CONSTANTS
  Scenes = {{"traecode"}}
  Starts = {{"data"}}
  MaxCommands = 2
  MaxFaults = 0
INVARIANT ForeignHooksKeepTheFile
CHECK_DEADLOCK FALSE
