CONSTANTS
    Sigs = {2, 3}
    Masks = {{}}
    MaxSends = 2
    MaxImages = 1
    Spacings = {FALSE}
    HandlerCalls = {}
SPECIFICATION Spec
INVARIANT NoSignalLost
CHECK_DEADLOCK FALSE
