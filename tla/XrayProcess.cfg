SPECIFICATION Spec
CONSTANTS
    Tags = {"a"}
    Users = {"u"}
    MaxProcs = 4
    MaxFaults = 2
    Prompt = TRUE
INVARIANTS
    TypeOK
    
    
    
CHECK_DEADLOCK FALSE
