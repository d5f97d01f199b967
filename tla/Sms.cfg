SPECIFICATION Spec
CONSTANTS
    BIT7UDL = 32
    BIT8UDL = 28
    SignedChar = FALSE
    Plans <- MCPlans
    FirstRefs = {0, 65535}
    MaxWide = 33
    Scalars <- MCScalars
INVARIANTS   Converts
