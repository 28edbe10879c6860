SPECIFICATION Spec
CONSTANTS
  Clients = {a, b}
  Callers = {c1, c2}
  Limit = 2
  MaxClients = 1
  Window = 4
  MaxStall = 1
  Horizon = 6
  NoCall = NoCall
INVARIANTS MemoryBounded WindowLimit
PROPERTY RefusalJustified
