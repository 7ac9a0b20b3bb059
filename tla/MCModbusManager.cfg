SPECIFICATION FairSpec
CONSTANTS
 s1 = s1
 s2 = s2
 d1 = d1
 d2 = d2
 fast = fast
 slow = slow
 Slaves = {s1, s2}
 Datapoints = {d1, d2}
 Serials = {fast, slow}
 None = None
 Adhoc = Adhoc
 Missing = Missing
 Bad = Bad
 DefaultSerial = slow
 MaxWaits = 1
 Configs <- SeveralConfigs
 Commands <- SomeCommands
INVARIANTS TypeOK ExclusiveBus RepliesAreOwn DriverFollowsOwner NeverOnUnwiredBus
PROPERTIES MissedReadsStayDue ImplementsArbiter RequestsEnd SwitchedOffGoesQuiet
