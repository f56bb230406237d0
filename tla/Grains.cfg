CONSTANTS
    Pids = {1, 2, 3}
    MaxEvents = 2
    None = None
SPECIFICATION FairSpec
INVARIANTS TypeOK LiveMeansAvailable LocalIsServer HereMeansLocal
PROPERTY ProbeEnds
