SPECIFICATION Spec
CONSTANTS
    Thread = {th}
    Agent = {probe}
    UserName = alice
    ReplyMode = {"cli", "auto"}
    MaxMessages = 3
    MaxSessions = 2
SYMMETRY Symmetry
CHECK_DEADLOCK FALSE
INVARIANTS
    PromptCommandReplies
