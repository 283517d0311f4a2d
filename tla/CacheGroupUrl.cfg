SPECIFICATION Spec
CONSTANTS
    n1 = n1  n2 = n2  u1 = u1  u2 = u2
    known = known  unknown = unknown  spaced = spaced  plus = plus
    Empty = Empty  None = None
    Nodes <- Nodes2  Keys <- KeysUrl  Known <- KnownSpaced
    Owner <- OneRing  UrlKey <- SpaceToPlus  Users <- Users2  MaxHops = 1
CHECK_DEADLOCK FALSE
INVARIANT RightValue
