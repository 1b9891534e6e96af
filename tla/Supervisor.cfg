\* Two runs of the launcher over a backend and a frontend.
SPECIFICATION FairSupervisorSpec
CONSTANTS
    Supervisors = {s1, s2}
    Last = 2
    Engined = {1}
    FailureThreshold = 2
    NoLock = NoLock
    Torn = Torn
    Stale = Stale
    MaxFaults = 2
INVARIANTS OneSupervisor 
PROPERTY OwnedAnswers
\* Both runs may have ended.
CHECK_DEADLOCK FALSE
