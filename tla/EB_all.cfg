SPECIFICATION FairSpec
CONSTANTS
    a = a
    b = b
    chat = chat
    Plugin = {a, b}
    Topic = {chat}
    Pattern = {"chat", "runtime"}
    Covers <- MCCovers
    Asks <- MCAsks
    Capacity = 2
    MaxFailures = 3
    MaxEvents = 3
INVARIANTS NothingVanishes
PROPERTIES ImplementsChannel BacklogEnds
