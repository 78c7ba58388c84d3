SPECIFICATION Spec
CONSTANTS
    Agent = {1, 2, 3}
    Roster <- MCRoster
    First = 1
    Second = 2
    Bids <- MCBids
    MaxGrants = 2
    MaxTurns = 3
    Nobody = Nobody
INVARIANTS
    TypeOK
    QuietTurnsGoRound
    ReturnAwaitsInterjector
    ArbitrationDecides
    CooldownYields
