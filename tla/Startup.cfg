CONSTANTS
  Words <- MCWords
  Rom <- MCRom
  DataTable <- MCDataTable
  BssTable <- MCBssTable
  ClockWord = 1
  DEFAULT_SYSTEM_CLOCK = 15
  Junk = 99
  Sources = {"USART0", "WKT"}
  Overridden = {"USART0"}
SPECIFICATION FairSpec
INVARIANTS TypeOK FreshVariables
PROPERTIES OnlyVariables InterruptsFindTheirProgram StartUpEnds
