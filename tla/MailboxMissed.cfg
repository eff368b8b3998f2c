SPECIFICATION FairSpec
CONSTANTS
  Ids = {i1, i2}
  Props = {1}
  Actions = {"add"}
  Slots = {}
  QueueCap = 1
  MaxEdits = 2
  MaxAsked = 0
  MaxEvents = 2
  Drops = TRUE
  Emptied = FALSE
PROPERTIES
  PollingHeals
