SPECIFICATION Spec
CONSTANTS
    Inf <- c_Inf
    Huge <- c_Huge
    QplibInf <- c_Huge
    OsilInf <- c_Huge
    NoName = NoName
    Absent = Absent
    NoRange = NoRange
    Unspeakable <- c_Unspeakable
    CommentNames <- c_CommentNames
    Models <- c_Models
    Older <- c_Older
    Foreign <- c_Foreign
    Points <- c_Points
INVARIANTS SameModel SamePoints NoHalfFile
CHECK_DEADLOCK FALSE
