\* The feed asked for without a conditional GET may be older than with one.
CONSTANTS
    w1 = w1
    w2 = w2
    Workers = {w1, w2}
    Asked = {"feed", "condfeed"}
    ImcTTL = 1
    BfcTTL = 1
    AtomTTL = 1
    NocondTTL = 3
    ImcEntries = 1
    Slack = 3
    GenMax = 1
    MaxTime = 5
SPECIFICATION Spec
INVARIANT CondGetsKeepTheirTTL
