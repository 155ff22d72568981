SPECIFICATION MCSpec
CONSTANTS
    Clients = {c1, c2}
    Server = server
    MaxLaunches = 4
    Users = {u1, u2}
    Waypoints = {w1, w2, w3}
    HistoryLimit = 3
    RecentLimit = 2
    MaxEvents = 7
INVARIANTS ChildrenRegistered ShutdownLeavesNoChild EveryEventOnceOrLost CameraReleased
PROPERTIES AddsForgetOnlyUnseen EffectiveSettles
CHECK_DEADLOCK FALSE
