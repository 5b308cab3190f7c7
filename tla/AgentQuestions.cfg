SPECIFICATION Spec
CONSTANTS
    Phones = {p1}
    MaxDialogs = 2
    QueueCap = 1
    MaxIds = 2
    MaxCalls = 2
    MaxEvents = 1
INVARIANTS TypeOK NoQuestionForgotten PendingIsOpen FirstAnswerWins
