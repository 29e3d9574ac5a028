SPECIFICATION FairTSpec
CONSTANTS
    Parents = {p1}
    MaxCreates = 3
    NoOwner = NoOwner
INVARIANT TidReturned
PROPERTY CreateReturns
CHECK_DEADLOCK FALSE
