SPECIFICATION SettingsSpec
CONSTANTS
  None = None  Bad = Bad  Absent = Absent
  Ws = {w}
  MaxQueue = 2
PROPERTY MergesPatches
CHECK_DEADLOCK FALSE
