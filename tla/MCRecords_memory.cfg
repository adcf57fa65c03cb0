SPECIFICATION MCSpec
CONSTANTS
    Handles = {h1, h2}
    Torn = Torn
    NoDelete = NoDelete
    None = None
    Unused = Unused
    MaxFaults = 1
    Defaults <- MCDefaults
    Met = {"x", "y"}
    Classes = {"action", "effect", "unknown"}
    Inferred <- MCInferred
    Manifests <- MCManifests
    MaxCrashes = 2
SYMMETRY Alike
INVARIANT IdsNotReused
CHECK_DEADLOCK FALSE
