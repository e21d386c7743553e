CONSTANTS
  UART_BUFFER_SIZE = 8
  MaxMessage = 7
SPECIFICATION FairSpec
INVARIANTS TypeOK NothingLost
PROPERTIES HostServed
