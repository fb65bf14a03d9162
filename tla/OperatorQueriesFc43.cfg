CONSTANTS
    MaxAddr = 1
    MaxList = 0
    Codes = {1}
    ObjectIds = {0}
    Words = {}
    Idents <- MCShortIdents
SPECIFICATION Spec
INVARIANT Fc43ReadBack
