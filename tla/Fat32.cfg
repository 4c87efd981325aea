CONSTANTS
    IdxMod = 2
    SectorUnits = 3
    PageUnits = 6
    Disk <- SmallDisk
    Paths <- Names
    RootPath = RootPath
    BadPath = BadPath
    Fds <- Descriptors
    Image = Image
    Program = Prog
    Notes = Notes
    Prog = Prog
    Far = Far
    Empty = Empty
    Offsets <- Seeks
    Lengths <- Lens
    MaxClusters = 3
    MaxWrites = 1
SPECIFICATION FairSpec
INVARIANT ReadsExact
INVARIANT WritesExact
INVARIANT OpenFinds
INVARIANT ListsWhatOpens
PROPERTY WritesStayInFile
PROPERTY CallReturns
CHECK_DEADLOCK FALSE
