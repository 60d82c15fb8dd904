\* Two passes, two helpers, or one of each; one internal disk and the target.
\* A capture of a device of two chunks; size unknown, smaller, equal, larger.
CONSTANTS
    boot = boot
    card = card
    p1 = p1
    p2 = p2
    h1 = h1
    h2 = h2
    Devices = {boot, card}
    Internal = {boot}
    Target = card
    Passes = {p1, p2}
    Helpers = {h1, h2}
    Casts = {{p1, p2}, {h1, h2}, {p1, h1}}
    None = none
    DevChunks = 2
    Totals = {0, 1, 2, 3}
SPECIFICATION FairSpec
INVARIANTS HeldMeansUnmounted BootDriveIsSafe SuccessIsWhole CancelIsHonoured
PROPERTIES CallsReturn CaptureEnds
CHECK_DEADLOCK FALSE
