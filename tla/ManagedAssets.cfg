CONSTANTS
    Requests = {r1, r2}
    Slots = {s1}
    StartingImages = {image}
    CharacterReferences = {face}
    Videos = {clip}
    NoFile = NoFile
    Corrupt = Corrupt
    MaxAssets = 3
    MaxRequests = 5
SPECIFICATION Spec
SYMMETRY AssetSymmetry
INVARIANTS BytesKept 
CHECK_DEADLOCK FALSE
