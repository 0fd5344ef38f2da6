SPECIFICATION ClientFairSpec
CONSTANTS
    Requests = {r1}
    Cron = cron
    None = none
    Nil = nil
PROPERTIES
    ClientExits
