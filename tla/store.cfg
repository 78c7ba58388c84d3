SPECIFICATION MCSpec
CONSTANTS
    Process = {p1, p2, p3}
    Meeting = {m1, m2}
    Roster = {r1, r2}
    firstProcess = p1
    firstMeeting = m1
    firstRoster = r1
    MaxEvents = 2
    NoProcess = NoProcess
INVARIANTS
    TypeOK
    ViewIsReplay
    StartIsFinal
PROPERTIES
    ImplementsAtomicLog
    EveryInvocationEnds
