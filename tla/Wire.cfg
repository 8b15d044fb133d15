CONSTANTS
  Messages <- MCMessages
  Bytes <- MCBytes
  Modulus = 16
  MaxFrame = 8
  Capacity = 3
SPECIFICATION Spec
PROPERTIES ChannelSpec Understood EverythingArrives
CHECK_DEADLOCK FALSE
