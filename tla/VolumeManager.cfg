SPECIFICATION Spec
CONSTANTS
    Kinds = {"null", "raid"}
    Overheads = {TRUE, FALSE}
    read = read
    write = write
    short = short
    tiny = tiny
    deletion = deletion
    Requests = {read, write, short, tiny, deletion}
    SectorsOf <- MCSectors
    Deletions = {deletion}
    NumStorageSystems = 2
    BlocksPerRequest = 2
INVARIANTS
    StripesAccounted
PROPERTIES
    KeepsPromise
    RequestsAnswered
CHECK_DEADLOCK FALSE
