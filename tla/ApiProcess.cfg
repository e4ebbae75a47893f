SPECIFICATION ProcessSpec
CONSTANTS
  Loops = {"publisher", "consumer"}
  Conns <- SmallConns
  DefaultOpen = 3
  DefaultIdle = 2
  Seconds <- SmallSeconds
  DefaultSeconds = 2
  Second = 4
  Word = 64
INVARIANTS ProcessTypeOK ErrorReported NothingLeftRunning SettingsHold
PROPERTIES ReadyMeansUsable ProcessEnds
CHECK_DEADLOCK FALSE
