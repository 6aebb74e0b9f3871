SPECIFICATION BusFairSpec
CONSTANT Addr <- MCAddr
PROPERTY HramReadAnswered
