\* Three edits one after the other, every step may fail.
SPECIFICATION Spec
CONSTANTS
    i1 = i1
    i2 = i2
    d1 = d1
    old = old
    new = new
    Name = {old, new}
    Name0 = old
    Image0 <- TwoImages
    Document0 = {d1}
    Create = {}
    Edit = {e1, e2, e3}
    Download = {}
    CreateWish <- CreateWishes
    EditWish <- EditWishes
    Size = {"preview_url", "mini_url"}
    Nobody = Nobody
    Faults = {"db", "upload", "delete", "commit", "crash"}
    Overlap = FALSE
SYMMETRY EditSymmetry
CHECK_DEADLOCK FALSE
INVARIANTS
    DanglingHasCulprit
    OrphanHasCause
    OrderIsContiguous
    RenditionsAgree
    SlugNamesProduct
