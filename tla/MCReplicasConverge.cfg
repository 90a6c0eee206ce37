SPECIFICATION Spec
CONSTANTS
    a = a
    b = b
    ours = ours
    theirs = theirs
    Remotes = {a, b}
    Master = Master
    Keys = {ours, theirs}
    Writer <- MCWriter
    AutoLoad <- MCAutoLoad
    Scripts = {"app.js"}
    MaxWrites = 2
    MaxSessions = 2
INVARIANT ReplicasConverge
CHECK_DEADLOCK FALSE
