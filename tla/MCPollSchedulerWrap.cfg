SPECIFICATION Spec
CONSTANTS
 Points <- SomePoints
 Asked <- SomeIntervals
 Writes = {"write"}
 Modulus = 8
 MaxStep = 3
 Eras = 2
PROPERTY IntervalIsKept
