SPECIFICATION FairSpec
CONSTANTS
    Schedules <- MCSchedules
    Step = 2
    Horizon = 7
    MaxWrites = 2
INVARIANTS
    NoUpdateIsLost
PROPERTIES
    NoInstantGoesBy
    RunsOnSchedule
    ScheduleFollowsFile
CHECK_DEADLOCK FALSE
