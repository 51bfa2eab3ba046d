CONSTANTS
    SlotLimit = 2
    Key = {k1}
    Owner = {o1, o2}
    Verdict <- MCVerdict
    RoleLimit <- MCRoleLimit
    TotalLimit = 2
    None = None
SPECIFICATION LedgerSpec
INVARIANTS LedgerConsistent CeilingsHold
PROPERTIES TerminalIsFinal ChargesAreKept
