\* Three interrupts: one cancels, one forces, one abandons.
CONSTANTS
  MaxInterrupts = 3
SPECIFICATION FairSpec
INVARIANTS EventsTellTheRun ToldTheEnd
PROPERTIES Ends
CHECK_DEADLOCK FALSE
