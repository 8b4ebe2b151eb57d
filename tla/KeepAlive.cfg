SPECIFICATION Spec
CONSTANTS
  WsInterval = 2
  WsTimeout = 1
  MqttInterval = 1
  ConnectTimeout = 1
  Lag = 1
  Kinds = {"ws", "mqtt"}
  MaxBoxes = 2
  MaxTime = 11
INVARIANTS
  DetectedInTime
  ClosedIsForgotten
PROPERTIES
  NoFalseAlarm
CHECK_DEADLOCK FALSE
