SPECIFICATION Spec
CONSTANTS
  Layers = {"aead", "stream", "tlsUp", "tlsDown"}
  Length = 6
  MaxPayload = 2
  Buffers = {1, 3}
  FirstHeader = 2
  Header = 1
INVARIANTS TypeOK SidesInStep
PROPERTIES ImplementsByteStream
CHECK_DEADLOCK FALSE
