CONSTANTS
    MaxAddr = 4
    MaxList = 2
    Codes = {1, 2, 3, 4, 5}
    ObjectIds = {0, 3, 7, 129, 200}
    Words = {0, 240, 255, 256, 3855, 4369, 65280, 65535}
    Idents <- MCIdents
SPECIFICATION Spec
INVARIANT AgreesWithSpec
INVARIANT Fc43AnswerPerSpec
INVARIANT MaskFallbackDiffersOnlyInHighByte
