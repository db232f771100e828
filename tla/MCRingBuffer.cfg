SPECIFICATION Spec
CONSTANTS
    v1 = v1
    v2 = v2
    Values = {v1, v2}
    Invalid = Invalid
    numPool_ = 4
PROPERTIES
    ImplementsDeque
