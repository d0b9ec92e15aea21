\* Texts of up to six characters.
CONSTANTS
  LONG_BITS = 8
  INT_PRINT_SIZE = 4
  SHA1_LEN = 1
  IpPieces <- MCIpPieces
  MAX_IP_PIECES = 6
SPECIFICATION MCSpec
INVARIANT AddressesDenoted
CHECK_DEADLOCK FALSE
