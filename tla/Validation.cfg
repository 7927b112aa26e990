CONSTANTS
    b1 = b1  b2 = b2  b3 = b3
    Requests = {r1, r2}
    Blocks = {b1, b2, b3}
    Files = {b2}
    Valid <- Accepts
    Renderable <- TemplatesParse
    MaxEdits = 2
    MaxFailures = 1
SPECIFICATION FairSpec
INVARIANTS RevisionMatches CalmIsSound
PROPERTIES VerdictFinal EventuallyJudged
CHECK_DEADLOCK FALSE
