\* A reload in the middle of a save.
CONSTANTS
  MaxEdits = 2
  MaxHups = 0
  QueueLimit = 2
SPECIFICATION Spec
PROPERTIES NoTornReload
CHECK_DEADLOCK FALSE
