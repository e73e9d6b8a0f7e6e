CONSTANTS
    MaxVersion = 3
    MaxCrashes = 2
SPECIFICATION FairSpec
PROPERTIES
    RecreatesRecoverableFile
    ForeignFilePreserved
