SPECIFICATION FairCPSpec
CONSTANTS
  c1 = c1
  t1 = t1
  Changes = {c1}
  Tasks = {t1}
  MaxConns = 1
  Grpc = TRUE
INVARIANTS
  CPTypeOK
  ChangesFindNotifier
  ShutdownDrains
  AnsweredIsLogged
PROPERTIES
  RequestsEnd
  ShutdownEnds
