\* One project with one job and one build, and a place to move them to.
SPECIFICATION Spec
CONSTANTS
    Tree <- MCTree
    Dirs <- MCDirs
    Away <- MCAway
    MaxLevel = 4
    Conf <- MCConf
    BuildNames <- MCBuildNames
INVARIANTS TypeOK AgedIsExact 
PROPERTY OwnChangesSeen
\* a job.conf that cannot be read hangs the program
CHECK_DEADLOCK FALSE
