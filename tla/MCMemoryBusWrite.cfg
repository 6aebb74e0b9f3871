SPECIFICATION BusFairSpec
CONSTANT Addr <- MCAddr
PROPERTY WriteCompletes
