SPECIFICATION Spec
CONSTANTS
    Key = {k1}
    Plugin = {pl1}
    PluginOf <- MCPluginOf
    Scheduled = {k1}
    Delivery = {d1, d2}
    Operator = {o1, o2}
    Request = {"cancel", "pause", "resume", "replay", "retry"}
    Relay = {r1}
    NoOne = NoOne
    NoKey = NoKey
    Budget <- MCBudget
    Crashes = 1
    Failures = 1
    Lapses = 1
    Duplicates = 1
    Requests = 2
    Toggles = 1
CHECK_DEADLOCK FALSE
CONSTRAINT TwoFaults
SYMMETRY SameProcesses
INVARIANTS AtMostOneEffect
PROPERTIES NoEffectWhileWithheld TerminalUntilOperator
