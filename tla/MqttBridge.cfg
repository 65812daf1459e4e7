SPECIFICATION MqttSpec
CONSTANTS
  Threads = {mq}
  mqtt = mq
  Levels <- MCLevels
  Booted = 100
  None = None
  Empty = Empty
  Torn = Torn
  MaxRequests = 2
  MaxTroubles = 1
INVARIANTS MqttTypeOK NothingWithheld
PROPERTIES AppliedAgain StateReachesHA
