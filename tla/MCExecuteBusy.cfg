SPECIFICATION Spec
CONSTANTS
  Addr <- MCAddr
  Offered <- MCLoads
PROPERTY BlocksWhileBusy
