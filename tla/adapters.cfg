SPECIFICATION FairSpec
CONSTANTS
    Callers = {c1, c2}
    Platforms = {"instagram", "facebook", "threads", "x", "linkedin"}
    Images = {a, b}
    MaxImages = 3
    MaxPolls = 2
INVARIANTS
    PostsShowRequest
    OnlyReadyMedia
    TokenPosts
PROPERTIES
    ImplementsContract
    EventuallyAnswered
CHECK_DEADLOCK FALSE
