\* Three entries or ports, one entry with a name that does not validate, a write of
\* another caller and a failing command; VLAN names and numbers at both ends of the limits.
SPECIFICATION AccessorSpec
CONSTANTS
  Key = {k1, k2, k3}
  Foreign = {k3}
  MaxFaults = 1
  MaxMeddles = 1
  PortName = {e0, e4, e8}
  VlanId = {0, 4094, 4095}
  MTU = {67, 68, 9217}
  Speed = {0, 1}
SYMMETRY KeySymmetry
INVARIANTS EachEntryMet AccessorTypeOK EnsuredStays ListedIsReal
PROPERTY Implements
