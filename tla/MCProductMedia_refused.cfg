\* One edit at a time and nothing fails: what a refused edit leaves behind.
SPECIFICATION Spec
CONSTANTS
    i1 = i1
    i2 = i2
    d1 = d1
    old = old
    new = new
    Name = {old, new}
    Name0 = old
    Image0 <- TwoImages
    Document0 = {d1}
    Create = {}
    Edit = {e1}
    Download = {g1}
    CreateWish <- CreateWishes
    EditWish <- EditWishes
    Size = {"preview_url"}
    Nobody = Nobody
    Faults = {}
    Overlap = FALSE
CHECK_DEADLOCK FALSE
INVARIANTS
    KeyNamesAFile
