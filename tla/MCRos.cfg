SPECIFICATION MCSpec
CONSTANTS
    NumWaypoints = 2
    MaxRuns = 2
    WritesFail = TRUE
    MaxV = 1
    MinV = 1
    Accel = 1
    Decel = 1
    Hardware = TRUE
    Faults = {}
    Depth = 2
    MaxClouds = 3
    StaleAfter = 2
    MaxGlitches = 3
    AngleMin <- LeftEdge
    AngleMax = 3
    AngleStep = 2
    RangeMin = 1
    RangeMax = 2
    MinHeight = 0
    MaxHeight = 0
    Clouds <- SmallClouds
INVARIANTS CompletedReportIsTrue DrivingIsSupervised OpenRunHasExecutor
    BridgeEndsAtRest CameraOwned NearestPerBin
PROPERTIES CancelHalts ScanNeverOlder LostPublisherReported CameraFound
CHECK_DEADLOCK FALSE
