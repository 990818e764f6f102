SPECIFICATION FairSpec
CONSTANTS
    Users = {1, 2}
    MaxRuns = 2
    MaxControls = 3
    MaxPolls = 2
INVARIANT DeletedAfterHandler
PROPERTIES FollowsLifecycle ControlsAnswered
CHECK_DEADLOCK FALSE
