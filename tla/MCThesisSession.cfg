SPECIFICATION Spec
CONSTANTS
    w1 = w1
    w2 = w2
    Worker = {w1, w2}
    Key = {1, 2}
    Seed = {1}
    Command <- MCCommands
    History = {"open", "planned", "accepted", "reviewed"}
    MaxCommands = 3
    MaxFaults = 1
INVARIANTS
    PlanCoversUniverse
    AcceptanceIsWhole
    AnswersAreTrue
    CyclesNeedReview
PROPERTIES
    ImplementsThesisLog
