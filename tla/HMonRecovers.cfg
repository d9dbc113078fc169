SPECIFICATION MonFairSpec
CONSTANT NCPU = 2
PROPERTY Recovers
