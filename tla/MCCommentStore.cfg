\* Two workers and two comments: two posts of one comment or of different ones
\* race with each other, or a post with a reader, from any state of the page.
\* Two directories lead to the page.
CONSTANTS
    Workers = {w1, w2}
    Blobs = {b1, b2}
    NoBlob = NoBlob
    Depth = 2
    Faults = {"mkdir", "create", "write", "short", "sync", "close", "crash"}
SPECIFICATION FairSpec
INVARIANT IInv
INVARIANT OneWriter
INVARIANT ToldIsThere
INVARIANT BadHasCause
INVARIANT ShowsAll
PROPERTY Kept
PROPERTY TakesHold
