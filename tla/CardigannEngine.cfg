SPECIFICATION Spec
CONSTANTS
    Ops = {o1, o2}
    Definitions <- MCDefinitions
    MaxRunning <- MCRunning
    Urls <- MCUrls
    BaseUrl = "www"
    SameSite <- MCSameSite
    Cookies = {"t1"}
    Configured = {"set"}
    Landings <- MCLandings
    MaxHops = 1
    MaxSteps = 64
    MaxAttempts = 2
    NoCookie = "none"
    NoSession = NoSession
    NoUrl = "nowhere"
INVARIANTS TypeOK UnfollowedSearchAnswered CookieStaysOnSite PersistedBeforeSent StoredSessionExpires StepsBounded
SYMMETRY MCSymmetry
