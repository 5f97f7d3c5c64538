SPECIFICATION FairSpec
CONSTANTS
    Requests <- MCRequests
    Codes <- MCCodes
    AppPieces <- MCAppPieces
    RssValues <- MCRssValues
    MaxAppWrites = 1
    MaxRss = 2
    HonoursTerm = TRUE
    HostStops = TRUE
INVARIANTS ChildAccountedFor StartsUnless DropsPrivileges SourceIsTrue RssWasMeasured
PROPERTIES GuestEnds MeasurementArrives
