\* Two archives with four members between them, over three names.
CONSTANTS
    Names = {"a", "b", "c"}
    NumArchives = 2
    ArchiveSize = 3
    Members <- MCMembers
    ObjectFiles <- MCObjectFiles
    MemberFiles <- MCMemberFiles
    Watchdog = 3
    Program = Program
    Unbound = Unbound
    Undefined = Undefined

SPECIFICATION FairSpec

INVARIANT OwnNamesClosed
INVARIANT FirstArchiveResolves
INVARIANT LoadedIsAskedFor

PROPERTY FirstDefinitionStays
PROPERTY EventuallyLinked
