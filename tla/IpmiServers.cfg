SPECIFICATION ServersSpec
CONSTANTS
    Conns = {q1}
    Requests <- MCRequests
    Garbage <- MCGarbage
    Fragments <- MCFragments
    MaxSent = 2
    Consoles = {c1}
    Names = {"admin", "op"}
    Passwords = {"p0", "p1"}
    Slots = {2, 3}
    Lengths = {15, 16}
    SequenceMod = 3
    MaxOpens = 2
    MaxCommands = 2
    MaxAnswers = 3
    MaxChanges = 2
INVARIANT HandledAsSent
INVARIANT AnswersInOrder
INVARIANT KeysAgree
INVARIANT LoginDecided
INVARIANT ResponsesTaken
 
PROPERTY LoginEnds
CHECK_DEADLOCK FALSE
