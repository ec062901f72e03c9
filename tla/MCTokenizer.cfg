CONSTANTS
    Text <- MCText
    Alpha = {"n"}
    Digit = {"1"}
    Keyword <- MCKeyword
    NotUtf8 = {"bad"}
    TOKENIZER_BUF_SIZE = 2
    NumLocValues = 4
SPECIFICATION FairSpec
\* A file is read.
CHECK_DEADLOCK FALSE
INVARIANTS TypeOK TokensAreTheText
PROPERTIES FileIsRead
