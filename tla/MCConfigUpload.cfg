SPECIFICATION Spec
CONSTANTS
 m1 = m1
 m2 = m2
 q1 = q1
 q2 = q2
 s1 = s1
 ModbusPuts = {m1, m2}
 MqttPuts = {q1, q2}
 SecretPosts = {s1}
 Unparsable = {m2}
 None = None
 Nul = Nul
 Error = Error
 Length <- SomeLengths
 a1 = a1
 ApTasks = {a1}
CONSTRAINT OneFile
INVARIANTS TypeOK ModbusUploadIsKept GatheredUploadIsKept
PROPERTY ImplementsStoredConfig
