CONSTANTS
    a = a
    b = b
    None = None
    Conns <- MCConns
    MaxConnections = 2
    MaxRequests = 2
    MaxActive = 1
    Budgets <- MCBudgets
SPECIFICATION HttpSpec
INVARIANTS HttpTypeOK AnswersInOrder TakenIsAnswered TokenTells
CHECK_DEADLOCK FALSE
