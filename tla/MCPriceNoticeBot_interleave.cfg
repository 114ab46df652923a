\* The loop and /push deliver their reports without interleaving chunks.
CONSTANTS
    admin = admin
    guest = guest
    t1 = t1
    t2 = t2
    None = None
    Users <- MCUsers
    Admins <- MCAdmins
    TaskIds <- MCTaskIds
    Interval = 2
    MaxChunks = 2
    HistoryCap = 2
    MaxReceived = 1
    AutoPushDefault = TRUE
    JournalConfigured = TRUE
    UrlConfigured = TRUE
    FileConfigured = TRUE
SPECIFICATION Spec
PROPERTY
    ReportsNotInterleaved
