SPECIFICATION Spec
CONSTANTS
    Lens = {0, 5, 29, 61, 88}
    U8 = {0, 1, 255}
    U16 = {0, 3, 9, 255}
    U24 = {0, 34, 35, 255}
    Mores = {0, 7, 60}
    Varints <- MCVarints
    Word = 600
INVARIANTS TypeOK NoPanic WorkBounded NameIsWhole
