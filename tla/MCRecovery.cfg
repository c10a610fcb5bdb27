CONSTANTS
    MaxPauses = 2
    Indices <- MCIndices
    Contents <- MCContents
    NoManifest = NoManifest
    NoDisk = NoDisk
    NoRecord = NoRecord
SPECIFICATION Spec
INVARIANTS TypeOK PausedLoadsLastPause RestoredGuestIsIntact DestroyedStaysDestroyed
 
