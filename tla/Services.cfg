CONSTANTS
    req = req
    Keep = 1
    Requests = {req}
    MaxSeconds = 1
    MaxMade = 2
    MaxFaults = 1
SPECIFICATION ServicesSpec
PROPERTIES UpgradeIsBackedUp RunsAreTrue EpisodesHold ServicesAreDone
CHECK_DEADLOCK FALSE
