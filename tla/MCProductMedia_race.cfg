\* A POST, two edits and a download race, every step may fail.
SPECIFICATION FairSpec
CONSTANTS
    i1 = i1
    i2 = i2
    d1 = d1
    old = old
    new = new
    Name = {old, new}
    Name0 = old
    Image0 <- TwoImages
    Document0 = {d1}
    Create = {c1}
    Edit = {e1, e2}
    Download = {g1}
    CreateWish <- CreateWishes
    EditWish <- RaceWishes
    Size = {"preview_url", "mini_url"}
    Nobody = Nobody
    Faults = {"db", "upload", "delete", "commit", "crash"}
    Overlap = TRUE
CHECK_DEADLOCK FALSE
INVARIANTS
    TypeOK
    MissingFileWasDoomed
    AnswerTellsMedia
PROPERTY
    EveryRequestEnds
