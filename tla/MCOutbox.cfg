CONSTANTS
  p1 = p1
  p2 = p2
  Publishers = {p1, p2}
  Logins = {alice, bob}
  NoLogin = none
  Terminal = TRUE
  ReadbackAttempts = 1
  MaxRetryRounds = 1
  MaxEdits = 0
  MaxAlters = 0
  MaxAborts = 0
SPECIFICATION OutboxSpec
INVARIANTS AllTypesOK PostsWithinRounds ReceiptIsMarker
PROPERTIES PublicationFinal OnlyOriginalRearms LoneMarkerIsRecorded
