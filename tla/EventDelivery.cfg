CONSTANTS
  Clients = {"c1", "c2"}
  QueueLimit = 2
  MaxEvents = 3
SPECIFICATION FairSpec
INVARIANTS DeliveredOnceInOrder NoEventVanishes
PROPERTIES DeliveryGoesOn
CHECK_DEADLOCK FALSE
