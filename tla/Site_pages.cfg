SPECIFICATION Spec
CONSTANTS
    text = text
    tab = tab
    author = author
    admin = admin
    task = task
    MaxTokens = 3
    Trouble = {"redis", "answer", "expiry"}
    Question = {text, tab}
    Rows <- MCRows
    Limit = 2
    MaxFetches = 4
    Archives <- MCArchives
    MaxCases = 5
    MaxZips = 2
    MaxEvents = 3
    MaxMounts = 3
    MaxQueue = 2
    Window = 2
    User = {author, admin}
    Admins = {admin}
    Author = author
    Problem = {task}
    Zone = 1
    LastHour = 2
    MaxEdits = 2
    MaxCalls = 3
    Address = {home, lab, phone, vpn}
    home = home
    lab = lab
    phone = phone
    vpn = vpn
    Life = 2
    MaxClock = 5
    MaxTorn = 1
INVARIANTS
    ListSettles
    AccordionFollows
    
PROPERTIES
    
    StartedStaysFixed
CHECK_DEADLOCK FALSE
