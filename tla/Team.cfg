\* Team
SPECIFICATION TeamSpec
CONSTANTS
    u1 = u1
    u2 = u2
    p1 = p1
    c1 = c1
    a = a
    b = b
    x1 = x1
    x2 = x2
    Users = {u1, u2}
    People = {p1}
    Companies = {c1}
    Employer <- EmployerOf
    Quotas = {1}
    DefaultQuota = 2
    Cost = 1
    LastMonth = 1
    MaxLeads = 2
    Sellers = {u1, u2}
    Leads = {a, b}
    StepIds = {1, 2, 3}
    Waits = {0, 1, 6}
    LastDay = 7
    MaxTasks = 6
    Scouts = {u1, u2}
    Watched = {c1, p1}
    Profiles = {"saas", "any", "none"}
    Criteria = {"industry", "country", "seniority"}
    Weights <- ProfileWeights
    Listable = {x1, x2}
    LastNow = 2
    MaxEvents = 3
    ann = ann
    boss = boss
    a1 = a1
    a2 = a2
    b1 = b1
    o1 = o1
    o2 = o2
    Colleagues = {ann, boss}
    Admins = {boss}
    Tabs = {a1, a2, b1}
    UserOf <- TabUser
    PollChoices = {o1, o2}
    Stated <- StatedReactions
    MaxChannels = 2
    MaxMessages = 1
    MaxPolls = 1
    Sockets = {a1, a2}
    Owners = {ann}
    OwnerOf <- SocketUser
SYMMETRY ThePeople
INVARIANT SignalsAgree
INVARIANT ProspectsAgree
INVARIANT TasksInTime
PROPERTY StepsInOrder
INVARIANT ClicksAreKept
INVARIANT ChannelsAreWhole
INVARIANT PresenceIsRoom
\* Everything is bounded.
CHECK_DEADLOCK FALSE
