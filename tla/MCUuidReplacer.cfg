SPECIFICATION Spec
CONSTANTS
    Uuids = {1, 2, 3, 4}
    Names = {1, 2, 3, 4, 5}
    UuidOf <- MCUuidOf
    Canonical <- MCCanonical
    Host = 1
    Csvs <- MCCsvs
    Worlds <- MCWorlds
    MaxRuns = 2
    MaxFaults = 2
INVARIANTS OkMeansRepaired ErrorUndone NothingLost
