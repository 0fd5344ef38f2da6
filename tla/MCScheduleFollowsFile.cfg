SPECIFICATION FairSpec
CONSTANTS
    Schedules <- MCSchedules
    Step = 2
    Horizon = 7
    MaxWrites = 1
PROPERTY ScheduleAlwaysFollowsFile
CHECK_DEADLOCK FALSE
