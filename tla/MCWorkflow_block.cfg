SPECIFICATION FairSpec
CONSTANTS
    Key = {k1,k2}
    Plugin = {pl1,pl2}
    PluginOf <- MCPluginOf
    Scheduled = {}
    Delivery = {d1}
    Operator = {}
    Request = {}
    Relay = {r1}
    NoOne = NoOne
    NoKey = NoKey
    Budget <- MCBudget
    Crashes = 0
    Failures = 1
    Lapses = 0
    Duplicates = 0
    Requests = 0
    Toggles = 1
CHECK_DEADLOCK FALSE
PROPERTY PendingIsPublished
