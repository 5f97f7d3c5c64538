SPECIFICATION Spec
CONSTANTS
    p1 = p1
    p2 = p2
    s1 = s1
    s2 = s2
    NoName = NoName
    Procs <- MCProcs
    Names <- MCNames
    Commands <- AllCommands
    MaxCommands = 4
    MaxMeetings = 1
INVARIANTS TypeOK ReportsAreRuns SnapshotsAsRecorded RestoresWhatIsRecorded ManifestLostOnlyAsKnown InspectVerdict
SYMMETRY Alike
