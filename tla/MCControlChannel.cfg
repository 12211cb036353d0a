SPECIFICATION FairSpec
CONSTANTS
  SendSize = 2
  RecSize = 2
  AckSize = 2
  AckMax = 1
  DedicatedMax = 2
  ClientHello = 1
  ServerHello = 3
  KeyRecord = 1
  Hello <- MCHello
  Key <- MCKey
  MaxFaults = 1
INVARIANTS
  TypeOK
  NothingDropped
  RoomForNext
  OutputRoom
  ActiveMeansKeys
PROPERTIES
  ImplementsStream
  Negotiated
CHECK_DEADLOCK FALSE
