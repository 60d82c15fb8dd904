\* Two scans of one path at the same time.
SPECIFICATION Spec
CONSTANTS
    Urls = {image, plain, ftp}
    Foreign = {ftp}
    Nameless = {image, plain}
    Unsized = {plain}
    Plain = {plain}
    MaxGets = 2
    Blocks = 2
    MaxScans = 2
    AtOnce = 2
    AtWork = 3
    MaxClock = 2
    Null = null
INVARIANTS FreshIsCurrent
CHECK_DEADLOCK FALSE
