SPECIFICATION RegistrySpec
CONSTANTS
    a1 = a1
    None = None
    Conn = {c1, c2}
    Id = {a1}
    ClientID <- OneAgent
INVARIANTS EntryIsServed ListedIsOpen RegistryInv
PROPERTIES CancelledIsReleased BrokenIsDelisted DirectoryRefined
