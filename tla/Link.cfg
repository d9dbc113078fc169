SPECIFICATION Spec
CONSTANTS
  MaxRequests = 2
  MaxFaults = 1
  MaxNested = 2
CONSTRAINTS ShortLine OnTrack
INVARIANTS TypeOK Trusted QuietPrompt JumpsIntoGoRemote
