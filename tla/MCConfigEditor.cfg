SPECIFICATION Spec
CONSTANTS
    StartTexts <- MCStartTexts
    TypedTexts <- MCTypedTexts
    InlineTexts <- MCInlineTexts
    MaxActs = 2
INVARIANTS KeepsPlain   SavedIsAccepted
CHECK_DEADLOCK FALSE
