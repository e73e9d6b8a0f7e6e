\* Release build: the wallet is closed just after "Download" is clicked.
CONSTANTS
    MaxDownloads = 1
    MaxChunks = 2
    MaxSignals = 3
    Builds = {FALSE}

SPECIFICATION FairSpec
PROPERTY ShutdownCompletes
