\* Release and debug builds: two downloads one after the other,
\* two data chunks each, stalls up to a queue of three notifications.
CONSTANTS
    MaxDownloads = 2
    MaxChunks = 2
    MaxSignals = 3
    Builds = {FALSE, TRUE}

SPECIFICATION FairSpec
INVARIANT TypeOK
INVARIANT ReadyBannerCurrent
PROPERTY UpdateDownloadRefined
