\* connect() is called twice; no socket fails, and each is open or closed before the
\* reconnect timer fires.
CONSTANTS
    Socket = {s1, s2, s3}
    None = None
    MaxCalls = 2
    MaxDrops = 0
SPECIFICATION PromptSpec
CHECK_DEADLOCK FALSE
PROPERTIES
    Maintained
