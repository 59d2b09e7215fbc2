SPECIFICATION Spec
CONSTANTS
    Callers = {p1, p2}
    Chips <- MCChips
    ApicIds = {0, 3}
    Vectors = {32}
    Firmware <- MCFirmware
    NoCall = NoCall
    Serialised = TRUE
SYMMETRY CallerSymmetry
INVARIANTS
    FirmwareIsGone
PROPERTIES
    UnmasksOnlyWhenAsked
    ImplementsRoutingTable
