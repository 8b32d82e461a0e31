\* Two vendors, two files and up to two entries in any order.
SPECIFICATION OnieSpec
CONSTANTS
  Machine = {vendor1, vendor2}
  File = {image1, image2}
  NoName = NoName
  MaxEntries = 2
  MaxChanges = 1
CHECK_DEADLOCK FALSE
INVARIANT FilesAtRoot
