SPECIFICATION SpreadSpec
CONSTANTS
  Machines <- TwoMachines
  Points = {"heat"}
  MaxRules = 1
  MaxAdded = 1
  MaxFaults = 3
PROPERTY OncePerRecovery
