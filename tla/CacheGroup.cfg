SPECIFICATION FairSpec
CONSTANTS
    n1 = n1  n2 = n2  u1 = u1  u2 = u2
    known = known  unknown = unknown  spaced = spaced  plus = plus
    Empty = Empty  None = None
    Nodes <- Nodes2  Keys <- Keys2  Known <- Keys1
    Owner <- OneRing  UrlKey <- Same  Users <- Users2  MaxHops = 2
CHECK_DEADLOCK FALSE
INVARIANTS IInv RightValue OneLoader NoCircle
PROPERTY RequestsEnd
