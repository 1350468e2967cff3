SPECIFICATION Spec
CONSTANTS
    None = None
    c1 = c1
    c2 = c2
    Calls = {c1, c2}
    Venue = "venue"
    Scope = "none"
    Name <- MCName
    Generic <- MCGeneric
    Answers <- MCAnswers
    MinTokenLength = 2
    MinConfidence = 7
    IdWidth = 3
    DayMinutes = 1440
    VerifyTee = TRUE
    MaxKeys = 2
    MaxFiled = 1

SYMMETRY CallSymmetry

INVARIANTS
    TeeIsBacked
    DoubtHasACause
    SilenceHasACause
    
    NoFalseDuplicate
    ApprovalIsSupported
