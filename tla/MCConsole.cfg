SPECIFICATION ConsoleSpec
CONSTANTS
    MaxServers = 2
    MaxKeys = 0
    MaxLaunches = 1
CHECK_DEADLOCK FALSE
PROPERTIES StandbyRetracts
