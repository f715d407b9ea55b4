SPECIFICATION FairSpec
CONSTANTS
    BufSize = 2
    MaxFrame = 4
    Frames <- AllFrames
    MaxFrames = 2
    MaxPushes = 1
    Faults = {"eof", "broken", "panic"}
INVARIANTS TextsInOrder AnswersMatch BufferBounded
PROPERTIES PushesReachWire TornDown DeathNoticed
CHECK_DEADLOCK FALSE
