SPECIFICATION Spec
CONSTANTS
    RomExts = {1, 2, 3}
    Apps = {a1, a2}
    SecVers = {1, 2}
    Chunks = 2
    Torn = Torn
INVARIANT PerformsNecessaryUpdates
