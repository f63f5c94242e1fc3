CONSTANTS
  Kind <- MCKind
  Roots = {1, 2}
  Installers = {1, 2}
  MaxDepth = 4
  MaxMishaps = 2
  Sessions = {1, 2}
  Heads = {1, 2}
  Leased = {2}
  MaxGeneration = 2
  MaxVersion = 2
  MaxDisturbances = 3
SPECIFICATION ControlsSpec
INVARIANTS AllTypesOK PushIsGated InstallRecoverable
PROPERTIES ControlsRecover
CHECK_DEADLOCK FALSE
