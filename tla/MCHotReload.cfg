\* One process, one change, no fault and no signal: the message arrives at a
\* connection without a listener.
SPECIFICATION FairSpec
CONSTANTS
    Processes = {p1}
    Types = {"hard", "lite"}
    Values = {1, 2}
    Default <- MCDefault
    Backlog = 1
    MaxChanges = 1
    MaxFaults = 0
    MaxSignals = 0
PROPERTIES
    HotReload
CHECK_DEADLOCK FALSE
