\* The monitor, with a queue that three events overflow.
CONSTANTS
  MaxEdits = 4
  MaxHups = 2
  QueueLimit = 2
SPECIFICATION FairSpec
INVARIANTS TypeOK LastGood PendingHasTimer SighupNotLost NoSilentDivergence
PROPERTIES OneReadPerCooldown Converges
CHECK_DEADLOCK FALSE
