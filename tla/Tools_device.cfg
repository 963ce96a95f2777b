\* Two tokens, on Linux: one in a USB port, one on a PC/SC reader.
SPECIFICATION ListSpec
CHECK_DEADLOCK FALSE
CONSTANTS
  Systems = {"linux"}
  Tokens = {t1, t2}
  Others = {}
  MaxNodes = 2
  MaxReaders = 2
  Room = 4
  MaxPlaces = 2
  MaxChanges = 2
  Absent = Absent
PROPERTIES ActsOnSeen
