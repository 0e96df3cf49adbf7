SPECIFICATION TextsSpec
CONSTANTS
    Word = 8
    MaxLength = 5
    MaxTexts = 2
INVARIANTS
    WrittenIsReadBack
    TokensAgree
    
CHECK_DEADLOCK FALSE
