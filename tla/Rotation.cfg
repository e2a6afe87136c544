\* Two auth servers and another agent go through a rotation, completed or rolled back.
CONSTANTS
    Auths = {s1, s2}
    Nodes = {n1}
    Patient = TRUE
    Asked = {s1}
    AskedModes = {"auto"}
    MaxRotations = 1
    MaxFaults = 1
SPECIFICATION FairSpec
CHECK_DEADLOCK FALSE
INVARIANTS
    TypeOK
    MutualTrust
PROPERTIES
    PhasesInOrder
    EverybodyFollows
