\* Two turns in flight, two cities, two messages beside the answers to
\* questions, two options selected and booked, one fault, one unread message.
CONSTANTS
    Turn = {t1, t2}
    City = {Tvm, Del}
    Home = Tvm
    Hub = Del
    Unset = Unset
    MaxMail = 1
    MaxSaid = 2
    MaxPicks = 2
    MaxCalls = 2
    MaxFaults = 1
SPECIFICATION MCSpec
PROPERTY QuestionsEnd
INVARIANTS
    DatesOnTheirLeg
    TwoEnds
    OnlyShownBooked
    BookedAsAccepted
