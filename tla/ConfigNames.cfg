SPECIFICATION Spec
CONSTANTS
  Configs = {a, b}
  a = a
  b = b
INVARIANTS
  TypeOK
  NamesAreMembers
  UsedMachinesStay
