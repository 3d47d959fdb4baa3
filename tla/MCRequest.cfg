\* Two browsers, a site that changes twice.
CONSTANTS
    NoUser = "nobody"
    Dirs <- MCDirs
    Files <- MCFiles
    Broken = {}
    Target <- MCTarget
    WikiRoot <- MCRoot
    PrefFlag <- MCPrefFlag
    NoViewFlag <- MCNoViewFlag
    Historied = {}
    Suffixes <- MCSuffixes
    Commented <- MCCommented
    Remapped = FALSE
    Clients = {"one", "two"}
    Users = {"ann", "bob", "guest"}
    DefaultUser = "guest"
    Editions <- MCEditions
    FirstEdition <- MCFirst
    Bookmarks <- MCBookmarks
    Bombs <- MCBombs
    Misread <- MCMisread
    MaxEditions = 2
    MaxTrail = 4
SPECIFICATION Spec
INVARIANT TypeOK
INVARIANT NoRedirectLoop
INVARIANT LandsWell
INVARIANT OnlyReaders
INVARIANT LoggedInAsProved
INVARIANT KeepsLogin
