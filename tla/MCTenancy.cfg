CONSTANTS
    Proc = {p1, p2}
    User = {o, a, b}
    Founder = o
    Creator = {o}
    Ceilings = {1, 2}
    Plans = {1}
    None = None
    Req = {p1, p2}
    Subject = {u1}
    MaxVer = 2
    Gone = Gone
    Lost = Lost
    Nil = Nil
SPECIFICATION TenancySpec
INVARIANTS OwnerActive KeysOfMembers InvitationMatches InvalidatedForGood
PROPERTY AddsFitCeiling
CONSTRAINTS OneCrossing NotWrapped
SYMMETRY Symmetry
