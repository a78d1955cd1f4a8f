SPECIFICATION RetryFairSpec
CONSTANTS
    Key = {k1}
    Plugin = {pl1}
    PluginOf <- MCPluginOf
    Scheduled = {k1}
    Delivery = {d1, d2}
    Operator = {}
    Request = {}
    Relay = {r1}
    NoOne = NoOne
    NoKey = NoKey
    Budget <- MCBudget
    Retries = 4
    Crashes = 1
    Failures = 1
    Lapses = 1
    Duplicates = 1
    Requests = 0
    Toggles = 1
CHECK_DEADLOCK FALSE
CONSTRAINT ThreeFaults
PROPERTIES EveryIntentSettles KeepsPromise
