SPECIFICATION PipelineSpec
CONSTANTS
    s1 = s1  s2 = s2  r1 = r1   k1 = k1  c1 = c1
    first = first  slow = slow  j1 = j1  j2 = j2  p1 = p1  p2 = p2
    cache = cache  nobody = nobody
    NoContest = NoContest
    Submission = {s1, s2}
    Run = {r1}
    Audit = {}
    Key = {k1}
    Contest = {c1}
    KeyOf <- TwoSame
    ContestOf <- InContest
    Outcome = {"AC", "WA"}
    MaxWorkers = 2
    Faults = {}
    MaxFaults = 0
    Client = {first, slow}
    Prompt = {first}
    Nobody = nobody
    Buffer = 1
    MaxMessages = 2
    MaxBreaks = 1
    Graded = {j1, j2}
    Cache = cache
    Cases = 2
    Program <- MCProgram
    Breakdowns = {"store", "docker", "crash"}
    MaxBreakdowns = 1
    Request = {p1, p2, c1}
    Duration <- MCDuration
    Second = 2
    MaxNow = 5
    MaxReturns = 1
    MaxLost = 1
INVARIANTS AtMostOneSolve SolveIsBacked NeverOvercharged
    NoSendToClosed FanOut HonestVerdict NothingLeftBehind
PROPERTIES RunAnswered JudgeSpec Delivered GradingEnds CooldownHolds
