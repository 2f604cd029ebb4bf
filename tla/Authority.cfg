SPECIFICATION AuthoritySpec
SYMMETRY MCSymmetry
CONSTANTS
    Agents = {1, 2}
    Nodes = {1, 2, 3}
    Missions = {1, 2}
    Invites = {i1, i2}
    Sessions = {s1, s2, s3}
    NodeOwner <- MCOwner
    NodeName <- MCName
    InviteFor <- MCInviteFor
    Bound <- MCBound
    Scenarios <- MCScenarios
    MaxCreds = 2
INVARIANTS NoDeadlock RevokedNoWork Holdings
