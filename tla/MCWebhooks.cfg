SPECIFICATION FairHooksSpec
CONSTANTS
  u1 = u1
  e1 = e1
  s1 = s1
  Users = {u1}
  Events = {e1}
  Sends = {s1}
  MaxHook = 2
  Attempts = 3
INVARIANTS
  HooksTypeOK
  DuplicatesLostAnswers
  MatchedAreTried
PROPERTIES
  DeliveriesEnd
  ImplementsDelivery
CHECK_DEADLOCK FALSE
