SPECIFICATION Spec
CONSTANTS
    default = default
    special = special
    Missing = Missing
    Adapters = {default, special}
    Keys <- MCKeys
    Targets <- MCTargets
    Lowered <- MCLowered
    Defaults <- MCDefaults
PROPERTIES
    LongestPrefixWins
