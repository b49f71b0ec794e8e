\* A member that only the archive's own second round loads, and that needs the
\* other archive.
CONSTANTS
    Names = {"a", "b", "c"}
    NumArchives = 2
    ArchiveSize = 3
    Members <- MCMembers
    ObjectFiles <- MCObjectFiles
    MemberFiles <- MCMemberFiles
    Watchdog = 3
    Program = Program
    Unbound = Unbound
    Undefined = Undefined

SPECIFICATION Spec

INVARIANT ArchivesResolveEachOther
