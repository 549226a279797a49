SPECIFICATION DriverSpec
CONSTANTS
    Names <- MCNames
    Dirs <- MCDirs
    Installations <- MCInstallations
    CommandLines <- MCCommandLines
    Matches <- MCMatches
    Folders <- MCFolders
    Here = "."
    Override = "ovr"
    Short <- MCShort
    SkipOutput <- MCSkip
CHECK_DEADLOCK FALSE
INVARIANTS BatchIndependent ExitCode StopsAtError OutputsAgree
PROPERTY Terminates
