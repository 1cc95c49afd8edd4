SPECIFICATION Spec
CONSTANTS
    Accounts = {a1}
    Agents = {g1, g2}
    Names = {n1, n2}
    Emails = {e1, e2}
    Slots = {s1, s2}
    MaxReservations = 1
    MaxInvited = 1
    NoOne = NoOne
SYMMETRY Symmetry
INVARIANTS NameSingleHolder LinksMatchHold
PROPERTIES HeldForItsMailbox UsernameRespectsHold
CHECK_DEADLOCK FALSE
