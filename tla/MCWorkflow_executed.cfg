SPECIFICATION Spec
CONSTANTS
    Key = {k1}
    Plugin = {pl1}
    PluginOf <- MCPluginOf
    Scheduled = {}
    Delivery = {d1}
    Operator = {o1}
    Request = {"pause"}
    Relay = {r1}
    NoOne = NoOne
    NoKey = NoKey
    Budget <- MCBudget
    Crashes = 0
    Failures = 0
    Lapses = 0
    Duplicates = 0
    Requests = 1
    Toggles = 0
CHECK_DEADLOCK FALSE
INVARIANT CompletedMeansExecuted
