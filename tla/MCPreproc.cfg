SPECIFICATION PreprocSpec
CONSTANTS
    Files = {"script", "inc"}
    Main = "script"
    Missing = {"lost"}
    BaseName <- MCBaseName
    Length = 4
    Lines <- MCLines
    Words = {"A", "B", "M"}
    BuiltIn <- MCBuiltIn
CHECK_DEADLOCK FALSE
INVARIANTS SelectsBranches GroupsClosed ChainsFollowed
PROPERTY ReadsToTheEnd
