SPECIFICATION Spec
CONSTANTS
    Runtimes = {r1}
    Clients = {c1}
    Buffer = 1
    MaxVersions = 3
PROPERTIES PublicationsEnd SupervisorSafety
CHECK_DEADLOCK FALSE
