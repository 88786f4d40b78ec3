SPECIFICATION SettingsSpec
CONSTANTS
    None = None
    Nil = Nil
    ExitRequest = {r1, r2}
    PolicyRequest = {q1, q2}
    Sub = {airport}
    Gateway = {cloud}
    Endpoint = {"wg"}
    NodeTag = {"hk"}
    Batch = {old, new}
    GatewayPatch <- MCPatches
    Faults = 1
    MaxParts = 1
    OwnRule <- MCOwnRule
    AskedRule <- MCAskedRule
    Preset <- MCPreset
    HandSet <- MCHandSet
    SplitSeed <- MCSeed
    Profile = {"home"}
    Mishaps = 0
    MaxRules = 2
    Overlap = {"approve"}
    Scenes <- MCScenes
INVARIANTS
    SplitReturns
SYMMETRY Symmetry
