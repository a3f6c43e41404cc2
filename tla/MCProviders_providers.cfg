SPECIFICATION Spec
CONSTANTS
  Entry <- Entries
  SideOf <- Sides
  TypeOf <- Types
  MaxNames = 2
  MachineCores = 3
  MaxCores = 2
  MaxRails = 3
  SystemRail = 1
  MaxZones = 3
  KnownZones = 2
  EtwCores = 2
  MaxWaiters = 2
INVARIANTS TypeOK NothingAmiss FiledByLongestPrefix SendsWhatItLists
