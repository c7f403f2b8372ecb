CONSTANTS
    Cases <- MCCases
    LaterCases <- MCLaterCases
SPECIFICATION Spec
INVARIANT
    FeaturesAsCollected
