CONSTANTS
    Sigs = {2, 9, 17, 19}
    Masks = {{}, {2, 9, 17, 19}}
    MaxSends = 2
    MaxImages = 2
    Spacings = {TRUE, FALSE}
    HandlerCalls = {"sigaction", "sigprocmask", "exec", "sigret"}
SPECIFICATION FairSpec
INVARIANTS ControlRestored NoStaleImage NoForgedSignal
PROPERTIES DispositionObeyed HandlerFinishes
CHECK_DEADLOCK FALSE
