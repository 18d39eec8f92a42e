\* every byte sequence, from callers that drain and callers that do not
SPECIFICATION Spec
CONSTANTS
  Bytes <- Classes
  PacketSize = 2
  MaxBytes = 6
INVARIANTS TypeOK MessagesAreParsed SysexBytesKept PacketsFramed WireOrderKept
\* The wire may fall silent, and MaxBytes bounds what it carries.
CHECK_DEADLOCK FALSE
