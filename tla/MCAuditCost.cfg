CONSTANTS
    p1 = p1
    p2 = p2
    p3 = p3
    u1 = u1
    u2 = u2
    Never = Never
    NoAction = NoAction
    None = NoAction
    Unopened = Unopened
    Callers = {a, b}
    Payments = {p1, p2, p3}
    Customers <- MCCustomers
    CustomerOf <- MCCustomerOf
    ArmOf <- MCArmOf
    Ranking <- MCRanking
    EngineAnswer <- MCEngineAnswer
    Actions <- MCRungs
    ContactRungs <- MCContactRungs
    QuietRungs <- MCQuietRungs
    Cost <- MCCost
    dry_run = FALSE
    MaxTime = 4
    MaxCrashes = 3
    attempt_cap_max = 3
    contact_limit_max = 2
    spend_cap_inr = 181
    Operator = {"opt_out", "kill_switch"}
    Day = 3
    QuietStart = 2
    QuietEnd = 1
    Tickets <- MCTickets
    Confidences = {8, 13, 14, 25}
    Hours = {23, 24}
SPECIFICATION MCSpec
CHECK_DEADLOCK FALSE
SYMMETRY CallerSymmetry
INVARIANTS
    CostAgrees
