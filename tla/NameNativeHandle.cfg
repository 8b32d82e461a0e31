\* Native names around several multiples of four, four and more lanes, of either
\* sign, each spelled exactly and loosely.
SPECIFICATION Spec
CONSTANTS
  PortNum = {0, 1, 2, 3, 4, 5, 6, 7, 8, 63, 64, 255}
  VPort = {0, 1, 2, 3, 4, 5, 7}
CHECK_DEADLOCK FALSE
INVARIANT NativeHandleWorks
