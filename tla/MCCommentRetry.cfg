\* One worker, one comment, and a write that may fail: post, see the
\* posted-bad page, try again as it suggests.
CONSTANTS
    Workers = {w1}
    Blobs = {b1}
    NoBlob = NoBlob
    Depth = 1
    Faults = {"write"}
SPECIFICATION FairSpec
PROPERTY GoodIsThere
