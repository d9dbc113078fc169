CONSTANTS
  MAX_PROCESSORS = 2
  SoftLine <- MCSoftLine
  Source <- MCSource
  Port <- MCPort
  IN_BUFFSIZ = 2
  IenMenu <- MCIenMenu
  ImrMenu <- MCImrMenu
SPECIFICATION Spec
INVARIANTS TypeOK DuartTrue CioReady Noticed
CONSTRAINT MCBound
CHECK_DEADLOCK TRUE
