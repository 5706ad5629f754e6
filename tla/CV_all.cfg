SPECIFICATION Spec
CONSTANTS
    a1 = a1
    s1 = s1
    s2 = s2
    b1 = b1
    o1 = o1
    alice = alice
    bob = bob
    olga = olga
    Conn = {a1, b1, o1}
    User = {alice, bob, olga}
    UserOf <- MCUserOf
    Owners = {olga}
    Hosts = {alice, bob}
    Moderators = {olga}
    Session = {s1, s2}
    WhiteLists <- WhiteListsOfBob
    BlackLists <- BlackListsOfBob
    HardCap = 1
    Throttled = {bob}
    Nothing = Nothing
CHECK_DEADLOCK FALSE
INVARIANTS RegistriesAgree ViewersAreAdmitted ClientsKnowWhereTheyAre RosterIsExact
PROPERTIES HostLostEnds
