\* Slack is one more than the shorter TTL and the making of a page: less fails.
CONSTANTS
    w1 = w1
    w2 = w2
    Workers = {w1, w2}
    Asked = {"page", "static"}
    ImcTTL = 1
    BfcTTL = 1
    AtomTTL = 1
    NocondTTL = 2
    ImcEntries = 1
    Slack = 3
    GenMax = 1
    MaxTime = 5
SPECIFICATION Spec
SYMMETRY WorkerSymmetry
INVARIANT IInv
INVARIANT AgeBounded
INVARIANT PosterSees
INVARIANT ImcBounded
