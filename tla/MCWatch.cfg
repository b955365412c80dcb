SPECIFICATION Spec
CONSTANT Paths <- MCPaths
 
PROPERTIES Timeline Returns Follows
CHECK_DEADLOCK FALSE
