SPECIFICATION FairSpec
CONSTANTS
  Ids = {i1, i2}
  Props = {1}
  Actions = {"add", "remove", "other"}
  Slots = {"config"}
  QueueCap = 2
  MaxEdits = 2
  MaxAsked = 3
  MaxEvents = 4
  Drops = TRUE
  Emptied = FALSE
INVARIANTS
  NoLostWakeup
  OpsInOrder
  SnapshotNotLost
  BaselineAddsUp
PROPERTIES
  UsersSettle
