SPECIFICATION Spec
CONSTANTS
 b1 = b1
 b2 = b2
 r1 = r1
 r0 = r0
 w1 = w1
 w2 = w2
 Servers = {b1, b2}
 Roots = {r0, r1}
 NoRoot = r0
 Writes = {w1, w2}
 System = System
 None = None
 Settings <- FewSettings
 Configs <- SomeConfigs
INVARIANT WillMatchesAvailability
