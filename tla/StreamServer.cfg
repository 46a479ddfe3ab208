SPECIFICATION Spec
CONSTANTS
 Last = 2
 Window = 1
 Far = 1
 Index = 1
 MaxRequests = 2
 None = None
PROPERTIES EveryRequestEnds PausedFills
CHECK_DEADLOCK FALSE
