\* An administrator who does not wait for the agents.
CONSTANTS
    Auths = {s1}
    Nodes = {n1}
    Patient = FALSE
    Asked = {s1}
    AskedModes = {"manual"}
    MaxRotations = 1
    MaxFaults = 0
SPECIFICATION Spec
CHECK_DEADLOCK FALSE
PROPERTIES
    ServersAfterClients
