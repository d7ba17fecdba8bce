SPECIFICATION FairSpec
CONSTANTS
    Requests = {r1}
    Closers = {c1, c2}
    Extras = {"ask", "junk"}
INVARIANTS
    NoProcessLeft
    DeathReported
    ToldOfExit
    AnswersAreHarmless
PROPERTIES
    CloseEndsUnheld
