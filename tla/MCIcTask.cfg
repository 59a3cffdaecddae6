SPECIFICATION Spec
CONSTANTS
    Caller = {a, b}
    Free = Free
    MaxTasks = 2
    MaxFailures = 1
INVARIANT JoinedAtMostOnce
INVARIANT ResultAfterJoin
PROPERTY JoinersReturn
