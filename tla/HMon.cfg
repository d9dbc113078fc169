SPECIFICATION MonFairSpec
CONSTANT NCPU = 2
INVARIANT MonTypeOK
INVARIANT MutualExclusion
INVARIANT InMonIsInMonitor
PROPERTY ReleasedRuns
PROPERTY AbortHeard
