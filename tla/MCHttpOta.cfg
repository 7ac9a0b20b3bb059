SPECIFICATION FairSpec
CONSTANTS
 r1 = r1
 r2 = r2
 r3 = r3
 u1 = u1
 u2 = u2
 Firmware = {r1, r2, r3}
 UIs = {u1, u2}
 None = None
 Broken = Broken
 Version <- SomeVersions
 Prereleases = {r2}
 UIOf <- SomeUIs
 c1 = c1
 Clients = {c1}
 Uploads <- SomeUploads
INVARIANTS TypeOK NotesAreOfPending StatusIsFresh OfferStands ChannelIsFollowed
 ApplyLeavesNothingRunning UpdateIsComplete
PROPERTIES ImplementsInstallation FirmwareComesFirst CheckIsAnswered ApplyEnds
CONSTRAINT FewThingsAtOnce
