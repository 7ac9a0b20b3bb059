SPECIFICATION Spec
CONSTANTS
 s1 = s1
 s2 = s2
 d1 = d1
 d2 = d2
 fast = fast
 slow = slow
 Slaves = {s1}
 Datapoints = {d1}
 Serials = {fast}
 None = None
 Adhoc = Adhoc
 Missing = Missing
 Bad = Bad
 DefaultSerial = fast
 MaxWaits = 1
 Configs <- FewConfigs
 Commands <- SomeCommands
INVARIANT ReloadStopsPolling
