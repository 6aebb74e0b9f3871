SPECIFICATION Spec
CONSTANTS
  Instructions <- MCInstructions
  MucodeWords <- MCMucodeWords
  Results <- MCResults
INVARIANT DataBusTypeOK
 
