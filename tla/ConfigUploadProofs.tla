-------------------------- MODULE ConfigUploadProofs ---------------------------
(***************************************************************************)
(* Theorems about ConfigUpload, for any requests, lengths and bodies.      *)
(***************************************************************************)
EXTENDS ConfigUpload, SequenceTheorems, TLAPS

USE UploadAssumption

-------------------------------------------------------------------------------
(* What the operators return.                                              *)

\* A function on 1 .. n is a sequence of length n.
LEMMA FunctionIsSeq ==
  ASSUME NEW S, NEW n \in Nat, NEW f \in [1 .. n -> S]
  PROVE  f \in Seq(S) /\ Len(f) = n
<1>1. f \in Seq(S)
  BY SeqDef
<1>2. Len(f) \in Nat /\ DOMAIN f = 1 .. Len(f) /\ DOMAIN f = 1 .. n
  BY <1>1, LenProperties
<1> QED
  BY <1>1, <1>2

\* The n bytes of a body after the first o.
LEMMA ChunkIs ==
  ASSUME NEW r \in Requests, NEW o \in Nat, NEW n \in Nat
  PROVE  /\ Part(r, o + 1, o + n) \in Seq(Bytes)
         /\ Len(Part(r, o + 1, o + n)) = n
         /\ \A i \in 1 .. n : Part(r, o + 1, o + n)[i] = <<r, o + i>>
<1>1. (o + n) - (o + 1) + 1 = n /\ \A i \in 1 .. n : (o + 1) + i - 1 = o + i
  OBVIOUS
<1>2. Part(r, o + 1, o + n) = [i \in 1 .. (o + n) - (o + 1) + 1 |-> <<r, (o + 1) + i - 1>>]
  BY DEF Part
<1>3. Part(r, o + 1, o + n) = [i \in 1 .. n |-> <<r, o + i>>]
  BY <1>1, <1>2
<1>4. \A i \in 1 .. n : <<r, o + i>> \in Bytes
  BY DEF Bytes
<1>5. Part(r, o + 1, o + n) \in [1 .. n -> Bytes]
  BY <1>3, <1>4
<1>6. Part(r, o + 1, o + n) \in Seq(Bytes) /\ Len(Part(r, o + 1, o + n)) = n
  BY <1>5, FunctionIsSeq
<1> QED
  BY <1>3, <1>6

\* The first n bytes of a body.
LEMMA PrefixIs ==
  ASSUME NEW r \in Requests, NEW n \in Nat
  PROVE  /\ Part(r, 1, n) \in Seq(Bytes)
         /\ Len(Part(r, 1, n)) = n
         /\ Part(r, 1, n) = [i \in 1 .. n |-> <<r, i>>]
         /\ \A i \in 1 .. n : Part(r, 1, n)[i] = <<r, i>>
<1>1. n - 1 + 1 = n /\ \A i \in 1 .. n : 1 + i - 1 = i
  OBVIOUS
<1>2. Part(r, 1, n) = [i \in 1 .. n |-> <<r, i>>]
  BY <1>1 DEF Part
<1>3. \A i \in 1 .. n : <<r, i>> \in Bytes
  BY DEF Bytes
<1>4. Part(r, 1, n) \in [1 .. n -> Bytes]
  BY <1>2, <1>3
<1>5. Part(r, 1, n) \in Seq(Bytes) /\ Len(Part(r, 1, n)) = n
  BY <1>4, FunctionIsSeq
<1> QED
  BY <1>2, <1>5

\* A write leaves a sequence of bytes.
LEMMA WriteAtType ==
  ASSUME NEW f \in Seq(Bytes), NEW p \in Seq(Bytes), NEW o \in Nat
  PROVE  WriteAt(f, o, p) \in Seq(Bytes)
<1> DEFINE at == IF o < Len(f) THEN o ELSE Len(f)
           end == at + Len(p)
           size == IF end < Len(f) THEN Len(f) ELSE end
<1>1. at \in Nat /\ end \in Nat /\ size \in Nat
  OBVIOUS
<1>2. \A i \in 1 .. size : (IF i \in at + 1 .. end THEN p[i - at] ELSE f[i]) \in Bytes
  OBVIOUS
<1>3. WriteAt(f, o, p) = [i \in 1 .. size |-> IF i \in at + 1 .. end THEN p[i - at] ELSE f[i]]
  BY DEF WriteAt
<1> HIDE DEF at, end, size
<1> QED
  <2>1. WriteAt(f, o, p) \in [1 .. size -> Bytes]
    BY <1>2, <1>3
  <2> QED
    BY <1>1, <2>1, FunctionIsSeq

\* A write that continues the beginning of a body leaves a longer beginning.
LEMMA WriteContinues ==
  ASSUME NEW r \in Requests, NEW o \in Nat, NEW n \in Nat
  PROVE  WriteAt(Part(r, 1, o), o, Part(r, o + 1, o + n)) = Part(r, 1, o + n)
<1>1. /\ Len(Part(r, 1, o)) = o
      /\ Len(Part(r, o + 1, o + n)) = n
      /\ \A i \in 1 .. o : Part(r, 1, o)[i] = <<r, i>>
      /\ \A i \in 1 .. n : Part(r, o + 1, o + n)[i] = <<r, o + i>>
  <2>1. Len(Part(r, 1, o)) = o /\ \A i \in 1 .. o : Part(r, 1, o)[i] = <<r, i>>
    BY PrefixIs
  <2>2. /\ Len(Part(r, o + 1, o + n)) = n
        /\ \A i \in 1 .. n : Part(r, o + 1, o + n)[i] = <<r, o + i>>
    BY ChunkIs
  <2> QED
    BY <2>1, <2>2
<1> DEFINE f == Part(r, 1, o)
           p == Part(r, o + 1, o + n)
<1> HIDE DEF f, p
<1>2. Len(f) = o /\ Len(p) = n
  BY <1>1 DEF f, p
<1>3. WriteAt(f, o, p) = [i \in 1 .. o + n |-> IF i \in o + 1 .. o + n THEN p[i - o] ELSE f[i]]
  <2>1. (IF o + n < o THEN o ELSE o + n) = o + n /\ (IF o < o THEN o ELSE o) = o
    OBVIOUS
  <2> QED
    BY <1>2, <2>1 DEF WriteAt
<1>4. \A i \in 1 .. o + n : (IF i \in o + 1 .. o + n THEN p[i - o] ELSE f[i]) = <<r, i>>
  <2>1. (\A i \in 1 .. o : f[i] = <<r, i>>) /\ \A i \in 1 .. n : p[i] = <<r, o + i>>
    BY <1>1 DEF f, p
  <2>2. \A i \in o + 1 .. o + n : i - o \in 1 .. n /\ o + (i - o) = i
    OBVIOUS
  <2> QED
    BY <2>1, <2>2
<1>5. WriteAt(f, o, p) = [i \in 1 .. o + n |-> <<r, i>>]
  BY <1>3, <1>4
<1>6. Part(r, 1, o + n) = [i \in 1 .. o + n |-> <<r, i>>]
  <2>1. o + n \in Nat
    OBVIOUS
  <2> QED
    BY <2>1, PrefixIs
<1> QED
  BY <1>5, <1>6 DEF f, p

\* append() fills the buffer from left to right and stays inside it.
LEMMA AccumulateFills ==
  ASSUME NEW r \in Requests, NEW o \in Nat, NEW n \in Nat, o + n <= Length[r],
         NEW s, s = None \/ s = Buffer(r, o), NEW granted \in BOOLEAN
  PROVE  Accumulate(s, Part(r, o + 1, o + n), o, Length[r], granted) \in {None, Buffer(r, o + n)}
<1> DEFINE data == Part(r, o + 1, o + n)
           filled(b) == [i \in 1 .. Length[r] |-> IF i \in o + 1 .. o + Len(data)
                                                  THEN data[i - o] ELSE b[i]]
<1>0. Length[r] \in Nat
  BY DEF Requests
<1>1. /\ Len(data) = n
      /\ \A i \in 1 .. n : data[i] = <<r, o + i>>
  BY ChunkIs
<1> HIDE DEF data
<1>2. filled(Buffer(r, o)) = Buffer(r, o + n)
  <2>1. \A i \in 1 .. Length[r] :
          (IF i \in o + 1 .. o + Len(data) THEN data[i - o] ELSE Buffer(r, o)[i])
            = (IF i <= o + n THEN <<r, i>> ELSE Nul)
    <3> TAKE i \in 1 .. Length[r]
    <3>1. Buffer(r, o)[i] = IF i <= o THEN <<r, i>> ELSE Nul
      BY <1>0 DEF Buffer
    <3>2. CASE i \in o + 1 .. o + n
      <4>1. i - o \in 1 .. n /\ o + (i - o) = i
        BY <1>0, <3>2
      <4>2. data[i - o] = <<r, i>>
        BY <1>1, <4>1
      <4> QED
        BY <1>1, <3>2, <4>2
    <3>3. CASE i \notin o + 1 .. o + n
      <4>1. i <= o <=> i <= o + n
        BY <1>0, <3>3
      <4> QED
        BY <1>1, <3>1, <3>3, <4>1
    <3> QED
      BY <3>2, <3>3
  <2> QED
    BY <2>1 DEF Buffer
<1>3. o = 0 => Fresh(Length[r]) = Buffer(r, 0)
  BY <1>0 DEF Fresh, Buffer
<1> QED
  BY <1>2, <1>3 DEF Accumulate, data

-------------------------------------------------------------------------------
(* Types: what belongs to the requests, and what is stored.                *)

RequestsOK ==
  /\ got \in [Requests -> Nat]
  /\ \A r \in Requests :
       /\ got[r] <= Length[r]
       /\ got[r] = Length[r] <=> web = r
       /\ opened[r] => r \in ModbusPuts
       /\ got[r] = 0 => ~opened[r] /\ slot[r] = None
       /\ slot[r] \in {None, IF r \in ModbusPuts THEN Error ELSE Buffer(r, got[r])}
  /\ opened \in [Requests -> BOOLEAN]
  /\ slot = [r \in Requests |-> slot[r]]
  /\ answer \in [Requests -> {None, "ok", "failed"}]
  /\ web \in MqttPuts \cup {None}
  /\ web # None => slot[web] = Body(web)

StorageOK ==
  /\ file \in [Kinds -> Seq(Bytes)]
  /\ running \in [modbus : Seq(Bytes) \cup {None}, mqtt : Seq(Bytes) \cup {None}]
  /\ booted \in BOOLEAN
  /\ copy \in [ApTasks -> Seq(Bytes) \cup {None}]
  /\ overtaken \in SUBSET ApTasks
  /\ latest \in [{"modbus", "mqtt"} -> Requests \cup {None}]
  /\ spoilt \in SUBSET ModbusPuts

\* A request that goes on or ends stays well typed.
LEMMA ProceedOK ==
  ASSUME RequestsOK, NEW r \in Requests, NEW n \in Nat, Arrives(r, n),
         NEW handle \in BOOLEAN, handle => r \in ModbusPuts,
         NEW object, object \in {None, IF r \in ModbusPuts THEN Error ELSE Buffer(r, got[r] + n)},
         NEW result \in {"ok", "failed"},
         Proceed(r, n, handle, object, result), web' = web
  PROVE  RequestsOK'
<1> USE DEF RequestsOK
<1>1. /\ got[r] \in Nat /\ Length[r] \in Nat \ {0} /\ n \in 1 .. Length[r] - got[r]
      /\ web = None
  BY DEF Arrives, Requests
<1>2. /\ got' \in [Requests -> Nat] /\ opened' \in [Requests -> BOOLEAN]
      /\ answer' \in [Requests -> {None, "ok", "failed"}]
      /\ slot' = [q \in Requests |-> slot'[q]]
  BY <1>1 DEF Proceed
<1>3. ASSUME NEW q \in Requests, q # r
      PROVE  got'[q] = got[q] /\ opened'[q] = opened[q] /\ slot'[q] = slot[q]
  BY <1>3 DEF Proceed
<1>4. CASE IsLast(r, n)
  <2>1. got'[r] = 0 /\ opened'[r] = FALSE /\ slot'[r] = None
    BY <1>4 DEF Proceed
  <2> QED
    BY <1>1, <1>2, <1>3, <2>1
<1>5. CASE ~IsLast(r, n)
  <2>1. got'[r] = got[r] + n /\ opened'[r] = handle /\ slot'[r] = object
    BY <1>5 DEF Proceed
  <2>2. got'[r] < Length[r] /\ got'[r] # 0
    BY <1>1, <1>5, <2>1 DEF IsLast
  <2> QED
    BY <1>1, <1>2, <1>3, <2>1, <2>2
<1> QED
  BY <1>4, <1>5

LEMMA MarkedIs ==
  ASSUME NEW object \in {None, Error}, NEW granted \in BOOLEAN
  PROVE  Marked(object, granted) \in {None, Error} /\ ModbusOutcome(object) \in {"ok", "failed"}
  BY DEF Marked, ModbusOutcome

\* What is gathered is the body, from the left.
LEMMA GathersIs ==
  ASSUME RequestsOK, NEW r \in MqttPuts \cup SecretPosts, NEW n \in Nat, Arrives(r, n),
         NEW granted \in BOOLEAN
  PROVE  /\ r \in Requests /\ r \notin ModbusPuts
         /\ Gathers(r, n, granted) \in {None, Buffer(r, got[r] + n)}
         /\ HandsOut(r, n, granted) => Gathers(r, n, granted) = Body(r) /\ IsLast(r, n)
<1>1. r \in Requests /\ r \notin ModbusPuts
  BY DEF Requests
<1>2. /\ got[r] \in Nat /\ Length[r] \in Nat \ {0} /\ n \in 1 .. Length[r] - got[r]
      /\ slot[r] \in {None, Buffer(r, got[r])}
  BY <1>1 DEF Arrives, RequestsOK
<1>3. Gathers(r, n, granted) \in {None, Buffer(r, got[r] + n)}
  BY <1>1, <1>2, AccumulateFills DEF Gathers, Chunk
<1>4. ASSUME HandsOut(r, n, granted)
      PROVE  Gathers(r, n, granted) = Body(r) /\ IsLast(r, n)
  <2>1. Gathers(r, n, granted) # None /\ got[r] + Len(Chunk(r, n)) >= Length[r]
    BY <1>4 DEF HandsOut, Complete
  <2>2. Len(Chunk(r, n)) = n
    BY <1>1, <1>2, ChunkIs DEF Chunk
  <2>3. got[r] + n = Length[r]
    BY <1>2, <2>1, <2>2
  <2>4. Buffer(r, Length[r]) = Part(r, 1, Length[r])
    BY <1>1, <1>2, PrefixIs DEF Buffer
  <2> QED
    BY <1>3, <2>1, <2>3, <2>4 DEF IsLast, Body
<1> QED
  BY <1>1, <1>3, <1>4

LEMMA RequestsStep == RequestsOK /\ [Next]_vars => RequestsOK'
<1> SUFFICES ASSUME RequestsOK, [Next]_vars
             PROVE  RequestsOK'
  OBVIOUS
<1> USE DEF requestVars
<1>1. ASSUME NEW r \in ModbusPuts, NEW n \in 1 .. Length[r], ModbusChunk(r, n)
      PROVE  RequestsOK'
  <2>1. r \in Requests /\ n \in Nat
    <3>1. r \in Requests /\ Length[r] \in Nat
      BY DEF Requests
    <3> QED
      BY <3>1
  <2>5. Arrives(r, n) /\ web' = web
    BY <1>1 DEF ModbusChunk, ModbusOpenFails, ModbusOpens, ModbusWrites, ModbusDrains
  <2>2. slot[r] \in {None, Error}
    BY <2>1 DEF RequestsOK
  <2>3. PICK handle \in BOOLEAN, object \in {None, Error} :
          Proceed(r, n, handle, object, ModbusOutcome(object))
    <3>1. CASE ModbusOpenFails(r, n)
      BY <3>1, MarkedIs DEF ModbusOpenFails
    <3>2. CASE ModbusOpens(r, n)
      BY <3>2, MarkedIs DEF ModbusOpens
    <3>3. CASE ModbusWrites(r, n)
      BY <3>3, MarkedIs DEF ModbusWrites
    <3>4. CASE ModbusDrains(r, n)
      <4>1. opened[r] \in BOOLEAN
        BY <2>1 DEF RequestsOK
      <4> QED
        BY <2>2, <3>4, <4>1 DEF ModbusDrains
    <3> QED
      BY <1>1, <3>1, <3>2, <3>3, <3>4 DEF ModbusChunk
  <2>4. ModbusOutcome(object) \in {"ok", "failed"}
    BY MarkedIs
  <2> QED
    BY <1>1, <2>1, <2>3, <2>4, <2>5, ProceedOK
<1>2. ASSUME NEW r \in MqttPuts \cup SecretPosts, NEW n \in 1 .. Length[r],
             Gather(r, n) \/ PostSecret(r, n) \/ MqttOpenFails(r, n)
      PROVE  RequestsOK'
  <2>1. r \in Requests /\ n \in Nat /\ r \notin ModbusPuts
    <3>1. r \in Requests /\ Length[r] \in Nat /\ r \notin ModbusPuts
      BY DEF Requests
    <3> QED
      BY <3>1
  <2>3. Arrives(r, n) /\ web' = web
    BY <1>2 DEF Gather, PostSecret, MqttOpenFails
  <2>2. PICK object \in {None, Buffer(r, got[r] + n)}, result \in {"ok", "failed"} :
          Proceed(r, n, FALSE, object, result)
    <3>1. CASE Gather(r, n)
      BY <2>1, <2>3, <3>1, GathersIs DEF Gather
    <3>2. CASE PostSecret(r, n)
      BY <3>2 DEF PostSecret
    <3>3. CASE MqttOpenFails(r, n)
      BY <3>3 DEF MqttOpenFails
    <3> QED
      BY <1>2, <3>1, <3>2, <3>3
  <2> QED
    BY <2>1, <2>2, <2>3, ProceedOK
<1>3. ASSUME NEW r \in MqttPuts, NEW n \in 1 .. Length[r], MqttOpens(r, n)
      PROVE  RequestsOK'
  <2>1. r \in Requests /\ Arrives(r, n) /\ r \notin ModbusPuts
    BY <1>3 DEF MqttOpens, Requests
  <2>2. PICK granted \in BOOLEAN : /\ HandsOut(r, n, granted)
                                   /\ slot' = [slot EXCEPT ![r] = Gathers(r, n, granted)]
    BY <1>3 DEF MqttOpens
  <2>3. Gathers(r, n, granted) = Body(r)
    BY <2>1, <2>2, GathersIs
  <2>4. Length[r] \in Nat \ {0} /\ Buffer(r, Length[r]) = Body(r)
    <3>1. Length[r] \in Nat \ {0}
      BY <2>1
    <3> QED
      BY <2>1, <3>1, PrefixIs DEF Buffer, Body
  <2>5. /\ web = None /\ web' = r /\ opened' = opened
        /\ got' = [got EXCEPT ![r] = Length[r]]
        /\ answer' = [answer EXCEPT ![r] = None]
        /\ slot' = [slot EXCEPT ![r] = Body(r)]
    BY <1>3, <2>2, <2>3 DEF MqttOpens, Arrives
  <2>6. /\ got'[r] = Length[r] /\ slot'[r] = Body(r)
        /\ \A q \in Requests \ {r} : got'[q] = got[q] /\ slot'[q] = slot[q]
    BY <2>1, <2>5 DEF RequestsOK
  <2>7. opened[r] = FALSE
    BY <2>1 DEF RequestsOK
  <2>8. \A q \in Requests :
          /\ got'[q] <= Length[q]
          /\ got'[q] = Length[q] <=> web' = q
          /\ opened'[q] => q \in ModbusPuts
          /\ got'[q] = 0 => ~opened'[q] /\ slot'[q] = None
          /\ slot'[q] \in {None, IF q \in ModbusPuts THEN Error ELSE Buffer(q, got'[q])}
    <3> TAKE q \in Requests
    <3>1. CASE q = r
      BY <2>1, <2>4, <2>5, <2>6, <2>7, <3>1
    <3>2. CASE q # r
      BY <2>1, <2>5, <2>6, <3>2 DEF RequestsOK
    <3> QED
      BY <3>1, <3>2
  <2> QED
    BY <2>1, <2>4, <2>5, <2>6, <2>8 DEF RequestsOK
<1>4. ASSUME NEW r \in MqttPuts, MqttWrites(r)
      PROVE  RequestsOK'
  <2>1. /\ r \in Requests /\ r \notin ModbusPuts /\ Length[r] \in Nat \ {0}
        /\ web = r /\ web' = None /\ opened' = opened
    BY <1>4 DEF MqttWrites, Requests
  <2>2. /\ got' = [got EXCEPT ![r] = 0]
        /\ slot' = [slot EXCEPT ![r] = None]
        /\ answer' \in [Requests -> {None, "ok", "failed"}]
    BY <1>4, <2>1 DEF MqttWrites, RequestsOK
  <2>3. /\ got'[r] = 0 /\ slot'[r] = None
        /\ \A q \in Requests \ {r} : got'[q] = got[q] /\ slot'[q] = slot[q]
    BY <2>1, <2>2 DEF RequestsOK
  <2>4. \A q \in Requests :
          /\ got'[q] <= Length[q]
          /\ got'[q] = Length[q] <=> web' = q
          /\ opened'[q] => q \in ModbusPuts
          /\ got'[q] = 0 => ~opened'[q] /\ slot'[q] = None
          /\ slot'[q] \in {None, IF q \in ModbusPuts THEN Error ELSE Buffer(q, got'[q])}
    BY <2>1, <2>3 DEF RequestsOK
  <2> QED
    BY <2>1, <2>2, <2>4 DEF RequestsOK
<1>5. ASSUME NEW r \in Requests, Abort(r)
      PROVE  RequestsOK'
  BY <1>5 DEF Abort, RequestsOK
<1>6. CASE Boot \/ TestConnect \/ (\E t \in ApTasks : ApReads(t) \/ ApLoads(t)) \/ UNCHANGED vars
  BY <1>6 DEF Boot, TestConnect, ApReads, ApLoads, vars, RequestsOK
<1>7. CASE Restart
  BY <1>7 DEF Restart, RequestsOK
<1> QED
  BY <1>1, <1>2, <1>3, <1>4, <1>5, <1>6, <1>7 DEF Next, MqttChunk, SecretChunk

LEMMA BodyIs ==
  ASSUME NEW r \in Requests
  PROVE  Body(r) \in Seq(Bytes) /\ Len(Body(r)) = Length[r] /\ Length[r] \in Nat \ {0}
<1>1. Length[r] \in Nat \ {0}
  OBVIOUS
<1> QED
  BY <1>1, PrefixIs DEF Body

LEMMA LoadType ==
  ASSUME NEW contents \in Seq(Bytes)
  PROVE  Load(contents) \in Seq(Bytes) \cup {None} /\ Loads(contents) \subseteq Seq(Bytes) \cup {None}
  BY DEF Load, Loads

LEMMA LoadsModbusType ==
  ASSUME StorageOK, NEW contents \in Seq(Bytes)
  PROVE  LoadsModbus(contents) \subseteq Seq(Bytes) \cup {None}
  BY DEF LoadsModbus, StorageOK

LEMMA FinishModbusOK ==
  ASSUME StorageOK, NEW r \in ModbusPuts, NEW n, NEW object, NEW contents \in Seq(Bytes),
         FinishModbus(r, n, object, contents)
  PROVE  /\ file' \in [Kinds -> Seq(Bytes)]
         /\ running' \in [modbus : Seq(Bytes) \cup {None}, mqtt : Seq(Bytes) \cup {None}]
<1>1. LoadsModbus(contents) \subseteq Seq(Bytes) \cup {None}
  BY LoadsModbusType
<1>2. running.modbus \in Seq(Bytes) \cup {None}
  BY DEF StorageOK
<1>3. PICK devices \in Seq(Bytes) \cup {None} : running' = [running EXCEPT !.modbus = devices]
  BY <1>1, <1>2 DEF FinishModbus
<1> QED
  BY <1>3 DEF FinishModbus, StorageOK, Kinds

LEMMA LoadMqttOK ==
  ASSUME StorageOK, NEW t, NEW contents \in Seq(Bytes), LoadMqtt(t, contents)
  PROVE  /\ running' \in [modbus : Seq(Bytes) \cup {None}, mqtt : Seq(Bytes) \cup {None}]
         /\ running'["modbus"] = running["modbus"]
         /\ overtaken' \in SUBSET ApTasks
<1>1. PICK settings \in Seq(Bytes) \cup {None} : running' = [running EXCEPT !.mqtt = settings]
  BY LoadType DEF LoadMqtt
<1> QED
  BY <1>1 DEF LoadMqtt, StorageOK

LEMMA StorageStep == RequestsOK /\ StorageOK /\ [Next]_vars => StorageOK'
<1> SUFFICES ASSUME RequestsOK, StorageOK, [Next]_vars
             PROVE  StorageOK'
  OBVIOUS
<1>1. ASSUME NEW r \in ModbusPuts, NEW n \in 1 .. Length[r], ModbusChunk(r, n)
      PROVE  StorageOK'
  <2>1. r \in Requests /\ n \in Nat
    <3>1. r \in Requests /\ Length[r] \in Nat
      BY DEF Requests
    <3> QED
      BY <3>1
  <2>2. file["modbus"] \in Seq(Bytes) /\ got[r] \in Nat
    BY <2>1 DEF StorageOK, RequestsOK, Kinds
  <2>3. PICK object \in {None, Error}, contents \in Seq(Bytes) : FinishModbus(r, n, object, contents)
    <3>1. CASE ModbusOpenFails(r, n)
      BY <2>2, <3>1, MarkedIs DEF ModbusOpenFails
    <3>2. CASE ModbusOpens(r, n)
      <4>1. \A k \in 0 .. n : Part(r, 1, k) \in Seq(Bytes)
        BY <2>1, PrefixIs
      <4> QED
        BY <3>2, <4>1, MarkedIs DEF ModbusOpens
    <3>3. CASE ModbusWrites(r, n)
      <4>0. \A k \in 0 .. n : k \in Nat
        BY <2>1
      <4>1. \A k \in 0 .. n : Part(r, got[r] + 1, got[r] + k) \in Seq(Bytes)
        BY <2>1, <2>2, <4>0, ChunkIs
      <4>2. \A k \in 0 .. n :
              WriteAt(file["modbus"], got[r], Part(r, got[r] + 1, got[r] + k)) \in Seq(Bytes)
        BY <2>2, <4>1, WriteAtType
      <4> QED
        BY <3>3, <4>2, MarkedIs DEF ModbusWrites
    <3>4. CASE ModbusDrains(r, n)
      <4>1. slot[r] \in {None, Error}
        BY <2>1 DEF RequestsOK
      <4> QED
        BY <2>2, <3>4, <4>1 DEF ModbusDrains
    <3> QED
      BY <1>1, <3>1, <3>2, <3>3, <3>4 DEF ModbusChunk
  <2>4. UNCHANGED <<booted, copy, overtaken>> /\ spoilt' \in SUBSET ModbusPuts
    BY <1>1 DEF ModbusChunk, ModbusOpenFails, ModbusOpens, ModbusWrites, ModbusDrains,
                loaderVars, StorageOK, OthersOpen
  <2>5. latest' \in [{"modbus", "mqtt"} -> Requests \cup {None}]
    <3>1. latest' = latest \/ latest' = [latest EXCEPT !["modbus"] = r]
      BY <1>1 DEF ModbusChunk, ModbusOpenFails, ModbusOpens, ModbusWrites, ModbusDrains
    <3> QED
      BY <2>1, <3>1 DEF StorageOK
  <2> QED
    BY <2>3, <2>4, <2>5, FinishModbusOK DEF StorageOK
<1>2. ASSUME NEW r \in MqttPuts \cup SecretPosts, NEW n \in 1 .. Length[r],
             Gather(r, n) \/ MqttOpenFails(r, n)
      PROVE  StorageOK'
  BY <1>2 DEF Gather, MqttOpenFails, loaderVars, StorageOK
<1>3. ASSUME NEW r \in SecretPosts, NEW n \in 1 .. Length[r], PostSecret(r, n)
      PROVE  StorageOK'
  <2>1. r \in Requests /\ n \in Nat /\ Arrives(r, n)
    <3>1. r \in Requests /\ Length[r] \in Nat
      BY DEF Requests
    <3> QED
      BY <1>3, <3>1 DEF PostSecret
  <2>2. \A granted \in BOOLEAN : HandsOut(r, n, granted) => Gathers(r, n, granted) = Body(r)
    BY <2>1, GathersIs
  <2>3. Body(r) \in Seq(Bytes)
    BY <2>1, BodyIs
  <2>4. file' = file \/ \E stored \in {file.secret, Body(r)} : file' = [file EXCEPT !["secret"] = stored]
    BY <1>3, <2>2 DEF PostSecret
  <2>5. UNCHANGED <<running, loaderVars, latest, spoilt>>
    BY <1>3 DEF PostSecret
  <2>6. file["secret"] \in Seq(Bytes)
    BY DEF StorageOK, Kinds
  <2> QED
    <3>1. file' \in [Kinds -> Seq(Bytes)]
      BY <2>3, <2>4, <2>6 DEF StorageOK
    <3> QED
      BY <2>5, <3>1 DEF StorageOK, loaderVars
<1>4. ASSUME NEW r \in MqttPuts, NEW n \in 1 .. Length[r], MqttOpens(r, n)
      PROVE  StorageOK'
  <2>1. <<>> \in Seq(Bytes)
    OBVIOUS
  <2> QED
    BY <1>4, <2>1 DEF MqttOpens, StorageOK, Requests, loaderVars
<1>5. ASSUME NEW r \in MqttPuts, MqttWrites(r)
      PROVE  StorageOK'
  <2>1. r \in Requests /\ slot[r] = Body(r)
    BY <1>5 DEF MqttWrites, RequestsOK, Requests
  <2>2. Body(r) \in Seq(Bytes) /\ Len(Body(r)) = Length[r] /\ Length[r] \in Nat
    BY <2>1, BodyIs
  <2>3. \A k \in 0 .. Length[r] : SubSeq(slot[r], 1, k) \in Seq(Bytes)
    BY <2>1, <2>2, SubSeqProperties
  <2>5. file' \in [Kinds -> Seq(Bytes)]
    <3>1. PICK k \in 0 .. Length[r] : file' = [file EXCEPT !.mqtt = SubSeq(slot[r], 1, k)]
      BY <1>5 DEF MqttWrites
    <3>2. SubSeq(slot[r], 1, k) \in Seq(Bytes)
      BY <2>3
    <3> QED
      BY <3>1, <3>2 DEF StorageOK
  <2>6. /\ running' \in [modbus : Seq(Bytes) \cup {None}, mqtt : Seq(Bytes) \cup {None}]
        /\ overtaken' \in SUBSET ApTasks
    <3>1. LoadMqtt(None, slot[r]) \/ UNCHANGED <<running, overtaken>>
      BY <1>5 DEF MqttWrites
    <3> QED
      BY <2>1, <2>2, <3>1, LoadMqttOK DEF StorageOK
  <2> QED
    BY <1>5, <2>5, <2>6 DEF MqttWrites, StorageOK
<1>6. ASSUME NEW r \in Requests, Abort(r)
      PROVE  StorageOK'
  BY <1>6 DEF Abort, StorageOK, loaderVars
<1>7. CASE UNCHANGED vars
  BY <1>7 DEF vars, loaderVars, StorageOK
<1>8. CASE Boot
  <2>1. LoadsModbus(file["modbus"]) \subseteq Seq(Bytes) \cup {None}
    BY LoadsModbusType DEF StorageOK, Kinds
  <2> QED
    BY <1>8, <2>1 DEF Boot, StorageOK
<1>9. CASE Restart
  <2>1. Load(file["mqtt"]) \in Seq(Bytes) \cup {None}
    BY LoadType DEF StorageOK, Kinds
  <2> QED
    BY <1>9, <2>1 DEF Restart, StorageOK
<1>10. CASE TestConnect
  <2>1. file["mqtt"] \in Seq(Bytes)
    BY DEF StorageOK, Kinds
  <2> QED
    BY <1>10, <2>1, LoadMqttOK DEF TestConnect, StorageOK
<1>11. ASSUME NEW t \in ApTasks, ApReads(t)
       PROVE  StorageOK'
  BY <1>11 DEF ApReads, StorageOK, Kinds
<1>12. ASSUME NEW t \in ApTasks, ApLoads(t)
       PROVE  StorageOK'
  <2>1. copy[t] \in Seq(Bytes)
    BY <1>12 DEF ApLoads, StorageOK
  <2>2. Load(copy[t]) \in Seq(Bytes) \cup {None}
    BY <2>1, LoadType
  <2> QED
    BY <1>12, <2>2 DEF ApLoads, StorageOK
<1> QED
  BY <1>1, <1>2, <1>3, <1>4, <1>5, <1>6, <1>7, <1>8, <1>9, <1>10, <1>11, <1>12
  DEF Next, MqttChunk, SecretChunk

LEMMA InitOK == Init => RequestsOK /\ StorageOK
<1> SUFFICES ASSUME Init
             PROVE  RequestsOK /\ StorageOK
  OBVIOUS
<1>1. Factory \in Seq(Bytes)
  BY DEF Factory, Bytes
<1>2. RequestsOK
  BY DEF Init, RequestsOK
<1>3. StorageOK
  BY <1>1 DEF Init, StorageOK, Kinds
<1> QED
  BY <1>2, <1>3

LEMMA AlwaysOK == Spec => [](RequestsOK /\ StorageOK)
  BY InitOK, RequestsStep, StorageStep, PTL DEF Spec

\* Types; in particular, a buffer holds what has arrived of its own request's body and
\* nothing else, whatever chunks of other requests come in between.
THEOREM TypeCorrect == Spec => []TypeOK
<1>1. RequestsOK /\ StorageOK => TypeOK
  BY DEF RequestsOK, StorageOK, TypeOK
<1> QED
  BY <1>1, AlwaysOK, PTL
-------------------------------------------------------------------------------
(* Bodies that are gathered first.                                         *)

GatheredInv ==
  /\ web # None => latest["mqtt"] = web
  /\ GatheredUploadIsKept

LEMMA GatheredStep ==
  RequestsOK /\ StorageOK /\ GatheredInv /\ [Next]_vars => GatheredInv'
<1> SUFFICES ASSUME RequestsOK, StorageOK, GatheredInv, [Next]_vars
             PROVE  GatheredInv'
  OBVIOUS
<1> USE DEF GatheredInv, GatheredUploadIsKept
\* A step that stores nothing of these kinds and lets no such request succeed.
<1>0. ASSUME web' = web, file'["mqtt"] = file["mqtt"], file'["secret"] = file["secret"],
             latest'["mqtt"] = latest["mqtt"],
             \A q \in MqttPuts : answer'[q] = "ok" => answer[q] = "ok"
      PROVE  GatheredInv'
  BY <1>0
<1>1. ASSUME NEW r \in ModbusPuts, NEW n \in 1 .. Length[r], ModbusChunk(r, n)
      PROVE  GatheredInv'
  <2>1. \E object, contents, handle : /\ FinishModbus(r, n, object, contents)
                                      /\ Proceed(r, n, handle, object, ModbusOutcome(object))
    BY <1>1 DEF ModbusChunk, ModbusOpenFails, ModbusOpens, ModbusWrites, ModbusDrains
  <2>2. /\ file'["mqtt"] = file["mqtt"] /\ file'["secret"] = file["secret"]
        /\ \A q \in Requests \ {r} : answer'[q] = answer[q]
    BY <2>1 DEF FinishModbus, Proceed, StorageOK, RequestsOK, Kinds
  <2>3. web' = web /\ latest'["mqtt"] = latest["mqtt"]
    <3>1. web' = web /\ (latest' = latest \/ latest' = [latest EXCEPT !["modbus"] = r])
      BY <1>1 DEF ModbusChunk, ModbusOpenFails, ModbusOpens, ModbusWrites, ModbusDrains
    <3> QED
      BY <3>1 DEF StorageOK
  <2>4. \A q \in MqttPuts : q \in Requests /\ q # r
    BY DEF Requests
  <2> QED
    BY <1>0, <2>2, <2>3, <2>4
<1>2. ASSUME NEW r \in MqttPuts \cup SecretPosts, NEW n \in 1 .. Length[r],
             Gather(r, n) \/ MqttOpenFails(r, n)
      PROVE  GatheredInv'
  <2>1. r \in Requests /\ \A q \in MqttPuts \cup SecretPosts : q \in Requests
    BY DEF Requests
  <2>2. UNCHANGED <<file, web, latest>>
    BY <1>2 DEF Gather, MqttOpenFails
  <2>3. \E object : Proceed(r, n, FALSE, object, "failed")
    BY <1>2 DEF Gather, MqttOpenFails
  <2>4. answer'[r] # "ok" /\ \A q \in Requests \ {r} : answer'[q] = answer[q]
    <3>1. answer' = [answer EXCEPT ![r] = IF IsLast(r, n) THEN "failed" ELSE None]
      BY <2>3 DEF Proceed
    <3> QED
      BY <2>1, <3>1 DEF RequestsOK
  <2> QED
    BY <1>0, <2>1, <2>2, <2>4
<1>3. ASSUME NEW r \in SecretPosts, NEW n \in 1 .. Length[r], PostSecret(r, n)
      PROVE  GatheredInv'
  <2>1. r \in Requests /\ n \in Nat /\ Arrives(r, n) /\ r \notin MqttPuts
    <3>1. r \in Requests /\ Length[r] \in Nat /\ r \notin MqttPuts
      BY DEF Requests
    <3> QED
      BY <1>3, <3>1 DEF PostSecret
  <2>2. \A granted \in BOOLEAN : HandsOut(r, n, granted) => Gathers(r, n, granted) = Body(r)
    BY <2>1, GathersIs
  <2>3. UNCHANGED <<web, latest>>
    BY <1>3 DEF PostSecret
  <2>4. \A q \in Requests \ {r} : answer'[q] = answer[q]
    BY <1>3 DEF PostSecret, Proceed, RequestsOK
  <2>5. \A q \in MqttPuts : q \in Requests /\ q # r
    BY <2>1 DEF Requests
  <2>6. \/ file' = file
        \/ /\ r \notin Unparsable
           /\ \E stored \in {file["secret"], Body(r)} : file' = [file EXCEPT !["secret"] = stored]
    BY <1>3, <2>2 DEF PostSecret
  <2>7. /\ file'["mqtt"] = file["mqtt"]
        /\ file'["secret"] \in {file["secret"]} \cup {Body(q) : q \in SecretPosts \ Unparsable}
    BY <2>6 DEF StorageOK, Kinds
  <2> QED
    BY <2>3, <2>4, <2>5, <2>7
<1>4. ASSUME NEW r \in MqttPuts, NEW n \in 1 .. Length[r], MqttOpens(r, n)
      PROVE  GatheredInv'
  <2>1. /\ r \in Requests /\ web' = r
        /\ file' = [file EXCEPT !["mqtt"] = <<>>]
        /\ latest' = [latest EXCEPT !["mqtt"] = r]
        /\ answer' = [answer EXCEPT ![r] = None]
    BY <1>4 DEF MqttOpens, Requests
  <2>2. /\ file'["secret"] = file["secret"]
        /\ latest'["mqtt"] = r
        /\ answer'[r] # "ok" /\ \A q \in Requests \ {r} : answer'[q] = answer[q]
    BY <2>1 DEF StorageOK, RequestsOK, Kinds
  <2> QED
    BY <2>1, <2>2 DEF Requests
<1>5. ASSUME NEW r \in MqttPuts, MqttWrites(r)
      PROVE  GatheredInv'
  <2>1. r \in Requests /\ web = r /\ slot[r] = Body(r) /\ latest["mqtt"] = r
    BY <1>5 DEF MqttWrites, RequestsOK, Requests
  <2>2. Body(r) \in Seq(Bytes) /\ Len(Body(r)) = Length[r] /\ Length[r] \in Nat
    BY <2>1, BodyIs
  <2>3. SubSeq(slot[r], 1, Length[r]) = Body(r)
    BY <2>1, <2>2, SubSeqFull
  <2>4. web' = None /\ latest' = latest
    BY <1>5 DEF MqttWrites
  <2>5. PICK k \in 0 .. Length[r] :
          /\ file' = [file EXCEPT !["mqtt"] = SubSeq(slot[r], 1, k)]
          /\ answer' = [answer EXCEPT ![r] = IF k = Length[r] THEN "ok" ELSE "failed"]
    BY <1>5 DEF MqttWrites
  <2>6. answer'[r] = "ok" => file'["mqtt"] = Body(r)
    BY <2>1, <2>3, <2>5 DEF StorageOK, RequestsOK, Kinds
  <2>7. /\ file'["secret"] = file["secret"]
        /\ \A q \in Requests \ {r} : answer'[q] = answer[q]
    BY <2>5 DEF StorageOK, RequestsOK, Kinds
  <2> QED
    BY <2>1, <2>4, <2>6, <2>7 DEF Requests
<1>6. ASSUME NEW r \in Requests, Abort(r)
      PROVE  GatheredInv'
  BY <1>6 DEF Abort
<1>7. CASE UNCHANGED vars
  BY <1>7 DEF vars, requestVars
<1>8. CASE Boot \/ TestConnect \/ (\E t \in ApTasks : ApReads(t) \/ ApLoads(t))
  BY <1>8 DEF Boot, TestConnect, ApReads, ApLoads, requestVars
<1>9. CASE Restart
  BY <1>9 DEF Restart
<1> QED
  BY <1>1, <1>2, <1>3, <1>4, <1>5, <1>6, <1>7, <1>8, <1>9 DEF Next, MqttChunk, SecretChunk

\* An MQTT configuration that was answered with 204 is in its file, whole, and the password
\* is a whole one, whatever other requests, other loaders and restarts do.
THEOREM GatheredKept == Spec => []GatheredUploadIsKept
<1>1. Init => GatheredInv
  BY DEF Init, GatheredInv, GatheredUploadIsKept, Kinds, Requests
<1>2. GatheredInv => GatheredUploadIsKept
  BY DEF GatheredInv
<1> QED
  BY <1>1, <1>2, GatheredStep, AlwaysOK, PTL DEF Spec

-------------------------------------------------------------------------------
(* The Modbus configuration.                                               *)

ModbusInv ==
  /\ \A r \in ModbusPuts : opened[r] => latest["modbus"] = r \/ latest["modbus"] \in spoilt
  /\ \A r \in ModbusPuts \ spoilt : got[r] > 0 /\ slot[r] # Error =>
       opened[r] /\ latest["modbus"] = r /\ file["modbus"] = Part(r, 1, got[r])
  /\ latest["modbus"] \notin spoilt => file["modbus"] \in {Factory} \cup Beginnings
  /\ ModbusUploadIsKept

\* What a chunk does: the file is opened anew, or grows through a handle, or stays, and an
\* upload that is not spoilt writes its own body from the left.
ChunkEffect(r, n, handle, object, contents) ==
  /\ Proceed(r, n, handle, object, ModbusOutcome(object))
  /\ FinishModbus(r, n, object, contents)
  /\ \/ /\ latest' = latest /\ spoilt \subseteq spoilt'
        /\ contents = file["modbus"] \/ opened[r]
        /\ handle => opened[r]
     \/ /\ latest'["modbus"] = r
        /\ \A q \in ModbusPuts \ {r} : opened[q] => q \in spoilt' /\ r \in spoilt'
  /\ \A q \in spoilt \ {r} : q \in spoilt'
  /\ r \notin spoilt' =>
       /\ object = None => /\ handle /\ latest'["modbus"] = r
                           /\ contents = Part(r, 1, got[r] + n)
       /\ object = Error => \/ contents = file["modbus"] /\ latest' = latest /\ spoilt \subseteq spoilt'
                            \/ \E j \in Nat : j < Length[r] /\ contents = Part(r, 1, j)

LEMMA ModbusChunkIs ==
  ASSUME RequestsOK, StorageOK, ModbusInv,
         NEW r \in ModbusPuts, NEW n \in 1 .. Length[r], ModbusChunk(r, n)
  PROVE  /\ r \in Requests /\ n \in Nat /\ Arrives(r, n) /\ UNCHANGED <<web, loaderVars>>
         /\ \E handle \in BOOLEAN, object \in {None, Error}, contents \in Seq(Bytes) :
              ChunkEffect(r, n, handle, object, contents)
<1>1. r \in Requests /\ n \in Nat
  <2>1. r \in Requests /\ Length[r] \in Nat
    BY DEF Requests
  <2> QED
    BY <2>1
<1>2. /\ got[r] \in Nat /\ file["modbus"] \in Seq(Bytes)
      /\ slot[r] \in {None, Error} /\ opened[r] \in BOOLEAN
      /\ Length[r] \in Nat
  BY <1>1 DEF RequestsOK, StorageOK, Kinds, Requests
<1>3. Marked(None, TRUE) = Error /\ Marked(None, FALSE) = None
  BY DEF Marked
<1>4. Arrives(r, n) /\ UNCHANGED <<web, loaderVars>>
  BY DEF ModbusChunk, ModbusOpenFails, ModbusOpens, ModbusWrites, ModbusDrains
<1>6. CASE ModbusOpenFails(r, n)
  <2>1. PICK granted \in BOOLEAN :
          /\ Proceed(r, n, FALSE, Marked(None, granted), ModbusOutcome(Marked(None, granted)))
          /\ FinishModbus(r, n, Marked(None, granted), file["modbus"])
          /\ spoilt' = IF granted THEN spoilt ELSE spoilt \cup {r}
    BY <1>6 DEF ModbusOpenFails
  <2>2. latest' = latest
    BY <1>6 DEF ModbusOpenFails
  <2>3. ChunkEffect(r, n, FALSE, Marked(None, granted), file["modbus"])
    BY <1>3, <2>1, <2>2 DEF ChunkEffect
  <2> QED
    BY <1>1, <1>2, <1>4, <2>3, MarkedIs
<1>7. CASE ModbusOpens(r, n)
  <2>1. PICK k \in 0 .. n, granted \in BOOLEAN :
          LET object == IF k = n THEN None ELSE Marked(None, granted)
          IN /\ Proceed(r, n, k = n, object, ModbusOutcome(object))
             /\ FinishModbus(r, n, object, Part(r, 1, k))
             /\ spoilt' = IF OthersOpen(r) # {} \/ (k < n /\ ~granted)
                            THEN spoilt \cup OthersOpen(r) \cup {r} ELSE spoilt \ {r}
    BY <1>7 DEF ModbusOpens
  <2>2. Part(r, 1, k) \in Seq(Bytes)
    BY <1>1, PrefixIs
  <2>3. latest'["modbus"] = r /\ got[r] = 0
    BY <1>7 DEF ModbusOpens, StorageOK
  <2>4. k = n => Part(r, 1, k) = Part(r, 1, got[r] + n)
    BY <2>3
  <2> DEFINE object == IF k = n THEN None ELSE Marked(None, granted)
  <2>5. /\ (k = n) \in BOOLEAN /\ object \in {None, Error}
        /\ object = None => k = n \/ ~granted
        /\ object = Error => k \in Nat /\ k < Length[r]
    <3>1. k \in Nat /\ k <= n /\ n <= Length[r]
      BY <1>1, <1>2
    <3>2. Marked(None, granted) = IF granted THEN Error ELSE None
      BY <1>3
    <3> QED
      BY <1>1, <1>2, <3>1, <3>2
  <2>6. /\ Proceed(r, n, k = n, object, ModbusOutcome(object))
        /\ FinishModbus(r, n, object, Part(r, 1, k))
    BY <2>1
  <2>7. /\ \A q \in ModbusPuts \ {r} : opened[q] => q \in spoilt' /\ r \in spoilt'
        /\ \A q \in spoilt \ {r} : q \in spoilt'
        /\ k < n /\ ~granted => r \in spoilt'
    <3>1. spoilt' = IF OthersOpen(r) # {} \/ (k < n /\ ~granted)
                      THEN spoilt \cup OthersOpen(r) \cup {r} ELSE spoilt \ {r}
      BY <2>1
    <3> QED
      BY <3>1 DEF OthersOpen
  <2>8. k = n \/ k < n
    BY <1>1
  <2> HIDE DEF object
  <2>9. ChunkEffect(r, n, k = n, object, Part(r, 1, k))
    BY <2>3, <2>4, <2>5, <2>6, <2>7, <2>8 DEF ChunkEffect
  <2> QED
    BY <1>1, <1>4, <2>2, <2>5, <2>9
<1>8. CASE ModbusWrites(r, n)
  <2>1. PICK k \in 0 .. n, granted \in BOOLEAN :
          LET object == IF k = n THEN None ELSE Marked(None, granted)
          IN /\ Proceed(r, n, k = n, object, ModbusOutcome(object))
             /\ FinishModbus(r, n, object,
                             WriteAt(file["modbus"], got[r], Part(r, got[r] + 1, got[r] + k)))
             /\ spoilt' = IF k < n /\ ~granted THEN spoilt \cup {r} ELSE spoilt
    BY <1>8 DEF ModbusWrites
  <2>2. got[r] > 0 /\ slot[r] # Error /\ opened[r] /\ latest' = latest
    BY <1>8 DEF ModbusWrites
  <2> DEFINE object == IF k = n THEN None ELSE Marked(None, granted)
             written == WriteAt(file["modbus"], got[r], Part(r, got[r] + 1, got[r] + k))
  <2>3. r \notin spoilt => latest["modbus"] = r /\ file["modbus"] = Part(r, 1, got[r])
    BY <2>2 DEF ModbusInv
  <2>4. r \notin spoilt => written = Part(r, 1, got[r] + k)
    BY <1>1, <1>2, <2>3, WriteContinues
  <2>5. written \in Seq(Bytes)
    <3>1. Part(r, got[r] + 1, got[r] + k) \in Seq(Bytes)
      BY <1>1, <1>2, ChunkIs
    <3> QED
      BY <1>2, <3>1, WriteAtType
  <2>6. /\ (k = n) \in BOOLEAN /\ object \in {None, Error}
        /\ object = None => k = n \/ ~granted
        /\ object = Error => got[r] + k \in Nat /\ got[r] + k < Length[r]
    <3>1. k \in Nat /\ k <= n /\ got[r] + n <= Length[r]
      BY <1>1, <1>2, <1>4 DEF Arrives
    <3>2. Marked(None, granted) = IF granted THEN Error ELSE None
      BY <1>3
    <3> QED
      BY <1>1, <1>2, <3>1, <3>2
  <2>7. /\ Proceed(r, n, k = n, object, ModbusOutcome(object))
        /\ FinishModbus(r, n, object, written)
    BY <2>1
  <2>8. /\ spoilt \subseteq spoilt'
        /\ k < n /\ ~granted => r \in spoilt'
        /\ k = n \/ k < n
    BY <1>1, <2>1
  <2> HIDE DEF object, written
  <2>9. ChunkEffect(r, n, k = n, object, written)
    <3>1. r \notin spoilt' => (object = None => k = n)
      BY <2>6, <2>8
    <3> QED
      BY <2>2, <2>3, <2>4, <2>6, <2>7, <2>8, <3>1 DEF ChunkEffect
  <2> QED
    BY <1>1, <1>4, <2>5, <2>6, <2>9
<1>9. CASE ModbusDrains(r, n)
  <2>1. /\ got[r] > 0 /\ (~opened[r] \/ slot[r] = Error) /\ latest' = latest
        /\ spoilt' = spoilt
    BY <1>9 DEF ModbusDrains
  <2>2. r \notin spoilt => slot[r] = Error
    BY <2>1 DEF ModbusInv
  <2>3. /\ Proceed(r, n, opened[r], slot[r], ModbusOutcome(slot[r]))
        /\ FinishModbus(r, n, slot[r], file["modbus"])
    BY <1>9 DEF ModbusDrains
  <2>4. ChunkEffect(r, n, opened[r], slot[r], file["modbus"])
    BY <2>1, <2>2, <2>3 DEF ChunkEffect
  <2> QED
    BY <1>1, <1>2, <1>4, <2>4
<1> QED
  BY <1>6, <1>7, <1>8, <1>9 DEF ModbusChunk

LEMMA ModbusStep == RequestsOK /\ StorageOK /\ ModbusInv /\ [Next]_vars => ModbusInv'
<1> SUFFICES ASSUME RequestsOK, StorageOK, ModbusInv, [Next]_vars
             PROVE  ModbusInv'
  OBVIOUS
<1>1. ASSUME NEW r \in ModbusPuts, NEW n \in 1 .. Length[r], ModbusChunk(r, n)
      PROVE  ModbusInv'
  <2>1. r \in Requests /\ n \in Nat /\ Arrives(r, n)
    BY <1>1, ModbusChunkIs
  <2>2. PICK handle \in BOOLEAN, object \in {None, Error}, contents \in Seq(Bytes) :
          ChunkEffect(r, n, handle, object, contents)
    BY <1>1, ModbusChunkIs
  <2>3. /\ got' = [got EXCEPT ![r] = IF IsLast(r, n) THEN 0 ELSE @ + n]
        /\ opened' = [opened EXCEPT ![r] = handle /\ ~IsLast(r, n)]
        /\ slot' = [slot EXCEPT ![r] = IF IsLast(r, n) THEN None ELSE object]
        /\ answer' = [answer EXCEPT ![r] = IF IsLast(r, n) THEN ModbusOutcome(object) ELSE None]
    BY <2>2 DEF ChunkEffect, Proceed
  <2>4. /\ \A q \in ModbusPuts \ {r} : /\ q \in Requests /\ got'[q] = got[q] /\ answer'[q] = answer[q]
                                       /\ opened'[q] = opened[q] /\ slot'[q] = slot[q]
        /\ got'[r] = IF IsLast(r, n) THEN 0 ELSE got[r] + n
        /\ slot'[r] = IF IsLast(r, n) THEN None ELSE object
        /\ opened'[r] = (handle /\ ~IsLast(r, n))
        /\ answer'[r] = IF IsLast(r, n) THEN ModbusOutcome(object) ELSE None
    BY <2>1, <2>3 DEF RequestsOK, Requests
  <2>5. file'["modbus"] = contents
    BY <2>2 DEF ChunkEffect, FinishModbus, StorageOK, Kinds
  <2>6. got[r] \in Nat /\ Length[r] \in Nat /\ got[r] + n \in 0 .. Length[r]
    <3>1. got[r] \in Nat /\ Length[r] \in Nat
      BY <2>1 DEF RequestsOK
    <3> QED
      BY <2>1, <3>1 DEF Arrives
  <2>7. IsLast(r, n) => Part(r, 1, got[r] + n) = Body(r)
    BY DEF IsLast, Body
  <2>8. \/ /\ latest' = latest /\ spoilt \subseteq spoilt'
           /\ contents = file["modbus"] \/ opened[r]
           /\ handle => opened[r]
        \/ /\ latest'["modbus"] = r
           /\ \A q \in ModbusPuts \ {r} : opened[q] => q \in spoilt' /\ r \in spoilt'
    BY <2>2 DEF ChunkEffect
  <2>9. \A q \in spoilt \ {r} : q \in spoilt'
    BY <2>2 DEF ChunkEffect
  <2>10. r \notin spoilt' =>
           /\ object = None => /\ handle /\ latest'["modbus"] = r
                               /\ contents = Part(r, 1, got[r] + n)
           /\ object = Error => \/ contents = file["modbus"] /\ latest' = latest /\ spoilt \subseteq spoilt'
                                \/ \E j \in Nat : j < Length[r] /\ contents = Part(r, 1, j)
    BY <2>2 DEF ChunkEffect
  \* An upload that is not spoilt and has written last is not disturbed by another one.
  <2>11. ASSUME NEW q \in ModbusPuts \ {r}, q \notin spoilt', latest["modbus"] = q,
                latest' = latest
         PROVE  contents = file["modbus"]
    BY <2>8, <2>9, <2>11 DEF ModbusInv
  <2>12. \A q \in ModbusPuts : opened'[q] => latest'["modbus"] = q \/ latest'["modbus"] \in spoilt'
    <3> SUFFICES ASSUME NEW q \in ModbusPuts, opened'[q]
                 PROVE  latest'["modbus"] = q \/ latest'["modbus"] \in spoilt'
      OBVIOUS
    <3> QED
      BY <2>4, <2>8 DEF ModbusInv
  <2>13. \A q \in ModbusPuts \ spoilt' : got'[q] > 0 /\ slot'[q] # Error =>
          opened'[q] /\ latest'["modbus"] = q /\ file'["modbus"] = Part(q, 1, got'[q])
    <3> SUFFICES ASSUME NEW q \in ModbusPuts, q \notin spoilt', got'[q] > 0, slot'[q] # Error
                 PROVE  opened'[q] /\ latest'["modbus"] = q /\ file'["modbus"] = Part(q, 1, got'[q])
      OBVIOUS
    <3>1. CASE q = r
      BY <2>2, <2>4, <2>5, <2>10, <3>1
    <3>2. CASE q # r
      <4>1. /\ q \notin spoilt /\ opened[q] /\ latest["modbus"] = q
            /\ file["modbus"] = Part(q, 1, got[q])
        BY <2>4, <2>9, <3>2 DEF ModbusInv
      <4>2. latest' = latest
        BY <2>8, <3>2, <4>1
      <4> QED
        BY <2>4, <2>5, <2>11, <3>2, <4>1, <4>2
    <3> QED
      BY <3>1, <3>2
  <2>14. ModbusUploadIsKept'
    <3> SUFFICES ASSUME NEW q \in ModbusPuts, q \notin spoilt', latest'["modbus"] = q,
                        answer'[q] = "ok"
                 PROVE  file'["modbus"] = Body(q)
      BY DEF ModbusUploadIsKept
    <3>1. CASE q = r
      BY <2>2, <2>4, <2>5, <2>7, <2>10, <3>1 DEF ModbusOutcome
    <3>2. CASE q # r
      <4>1. latest' = latest /\ q \notin spoilt
        BY <2>8, <2>9, <3>2
      <4> QED
        BY <2>4, <2>5, <2>11, <3>2, <4>1 DEF ModbusInv, ModbusUploadIsKept
    <3> QED
      BY <3>1, <3>2
  <2>15. latest'["modbus"] \notin spoilt' => file'["modbus"] \in {Factory} \cup Beginnings
    <3> SUFFICES ASSUME latest'["modbus"] \notin spoilt'
                 PROVE  contents \in {Factory} \cup Beginnings
      BY <2>5
    <3>0. \A j \in 0 .. Length[r] : Part(r, 1, j) \in Beginnings
      BY DEF Beginnings
    <3>1. CASE latest' = latest /\ contents = file["modbus"] /\ spoilt \subseteq spoilt'
      BY <3>1 DEF ModbusInv
    <3>2. CASE latest'["modbus"] = r
      <4>1. CASE object = None
        BY <2>6, <2>10, <3>0, <3>2, <4>1
      <4>2. CASE object = Error /\ \E j \in Nat : j < Length[r] /\ contents = Part(r, 1, j)
        BY <2>6, <3>0, <4>2
      <4>3. CASE contents = file["modbus"] /\ latest' = latest /\ spoilt \subseteq spoilt'
        BY <3>1, <4>3
      <4> QED
        BY <2>10, <3>2, <4>1, <4>2, <4>3
    <3>3. CASE latest' = latest /\ spoilt \subseteq spoilt' /\ opened[r] /\ latest'["modbus"] # r
      BY <3>3 DEF ModbusInv
    <3> QED
      BY <2>8, <3>1, <3>2, <3>3
  <2> QED
    BY <2>12, <2>13, <2>14, <2>15 DEF ModbusInv
\* A step of another kind of request.
<1>2. ASSUME NEW r \in MqttPuts \cup SecretPosts,
             \A q \in Requests \ {r} :
               /\ got'[q] = got[q] /\ opened'[q] = opened[q]
               /\ slot'[q] = slot[q] /\ answer'[q] = answer[q],
             file'["modbus"] = file["modbus"], latest'["modbus"] = latest["modbus"],
             spoilt' = spoilt
      PROVE  ModbusInv'
  <2>1. \A q \in ModbusPuts : q \in Requests \ {r}
    BY DEF Requests
  <2> QED
    BY <1>2, <2>1 DEF ModbusInv, ModbusUploadIsKept
<1>3. ASSUME NEW r \in MqttPuts \cup SecretPosts, NEW n \in 1 .. Length[r],
             Gather(r, n) \/ MqttOpenFails(r, n)
      PROVE  ModbusInv'
  <2>1. \E object : Proceed(r, n, FALSE, object, "failed")
    BY <1>3 DEF Gather, MqttOpenFails
  <2>2. UNCHANGED <<file, latest, spoilt>>
    BY <1>3 DEF Gather, MqttOpenFails
  <2> QED
    BY <1>2, <2>1, <2>2 DEF Proceed, RequestsOK
<1>4. ASSUME NEW r \in SecretPosts, NEW n \in 1 .. Length[r], PostSecret(r, n)
      PROVE  ModbusInv'
  <2>1. \E object, result : Proceed(r, n, FALSE, object, result)
    BY <1>4 DEF PostSecret
  <2>2. file'["modbus"] = file["modbus"] /\ latest'["modbus"] = latest["modbus"]
    BY <1>4 DEF PostSecret, StorageOK, Kinds
  <2>3. spoilt' = spoilt
    BY <1>4 DEF PostSecret
  <2> QED
    BY <1>2, <2>1, <2>2, <2>3 DEF Proceed, RequestsOK
<1>5. ASSUME NEW r \in MqttPuts, NEW n \in 1 .. Length[r], MqttOpens(r, n)
      PROVE  ModbusInv'
  BY <1>2, <1>5 DEF MqttOpens, RequestsOK, StorageOK, Kinds
<1>6. ASSUME NEW r \in MqttPuts, MqttWrites(r)
      PROVE  ModbusInv'
  <2>1. file'["modbus"] = file["modbus"]
    BY <1>6 DEF MqttWrites, StorageOK, Kinds
  <2>2. /\ latest' = latest /\ spoilt' = spoilt /\ opened' = opened
        /\ got' = [got EXCEPT ![r] = 0] /\ slot' = [slot EXCEPT ![r] = None]
    BY <1>6 DEF MqttWrites
  <2>3. \A q \in Requests \ {r} : answer'[q] = answer[q]
    BY <1>6 DEF MqttWrites, RequestsOK
  <2> QED
    BY <1>2, <2>1, <2>2, <2>3 DEF RequestsOK
<1>7. ASSUME NEW r \in Requests, Abort(r)
      PROVE  ModbusInv'
  <2>1. /\ got'[r] = 0 /\ ~opened'[r]
        /\ \A q \in Requests \ {r} :
             got'[q] = got[q] /\ opened'[q] = opened[q] /\ slot'[q] = slot[q]
    BY <1>7 DEF Abort, RequestsOK
  <2>2. \A q \in ModbusPuts : q \in Requests
    BY DEF Requests
  <2>3. UNCHANGED <<answer, file, latest, spoilt>>
    BY <1>7 DEF Abort
  <2> QED
    BY <2>1, <2>2, <2>3 DEF ModbusInv, ModbusUploadIsKept
<1>8. CASE \/ Boot \/ TestConnect \/ UNCHANGED vars
           \/ \E t \in ApTasks : ApReads(t) \/ ApLoads(t)
  <2>1. UNCHANGED <<requestVars, file, latest, spoilt>>
    BY <1>8 DEF Boot, TestConnect, ApReads, ApLoads, vars
  <2> QED
    BY <2>1 DEF requestVars, ModbusInv, ModbusUploadIsKept
<1>9. CASE Restart
  <2>1. \A q \in ModbusPuts : got'[q] = 0 /\ ~opened'[q]
    BY <1>9 DEF Restart, Requests
  <2>2. UNCHANGED <<answer, file, latest, spoilt>>
    BY <1>9 DEF Restart
  <2> QED
    BY <2>1, <2>2 DEF ModbusInv, ModbusUploadIsKept
<1> QED
  BY <1>1, <1>3, <1>4, <1>5, <1>6, <1>7, <1>8, <1>9 DEF Next, MqttChunk, SecretChunk

LEMMA ModbusAlways == Spec => []ModbusInv
<1>1. Init => ModbusInv
  <2> SUFFICES ASSUME Init
               PROVE  ModbusInv
    OBVIOUS
  <2>1. \A r \in ModbusPuts : r \in Requests /\ got[r] = 0 /\ ~opened[r] /\ latest["modbus"] # r
    BY DEF Init, Requests
  <2>2. file["modbus"] = Factory
    BY DEF Init, Kinds
  <2> QED
    BY <2>1, <2>2 DEF ModbusInv, ModbusUploadIsKept
<1> QED
  BY <1>1, ModbusStep, AlwaysOK, PTL DEF Spec

\* What was answered with 204 is in the file, whole, until the next upload opens it, if it
\* did not overlap with another one, nor fail without memory for the error byte.
THEOREM ModbusKept == Spec => []ModbusUploadIsKept
<1>1. ModbusInv => ModbusUploadIsKept
  BY DEF ModbusInv
<1> QED
  BY <1>1, ModbusAlways, PTL
-------------------------------------------------------------------------------
(* Uploads as StoredConfig has them.                                       *)

\* A part of a body that is not all of it is no configuration.
LEMMA PrefixIsNotWhole ==
  ASSUME NEW r \in Requests, NEW j \in Nat, j < Length[r]
  PROVE  Part(r, 1, j) \notin Whole
<1>1. Len(Part(r, 1, j)) = j /\ \A i \in 1 .. j : Part(r, 1, j)[i] = <<r, i>>
  BY PrefixIs
<1>2. Part(r, 1, j) # Factory
  <2> SUFFICES ASSUME Part(r, 1, j) = <<Nul>>
               PROVE  FALSE
    BY DEF Factory
  <2>1. Len(<<Nul>>) = 1 /\ <<Nul>>[1] = Nul
    OBVIOUS
  <2>2. j = 1 /\ Part(r, 1, j)[1] = <<r, 1>>
    BY <1>1, <2>1
  <2> QED
    BY <2>1, <2>2
<1>3. ASSUME NEW q \in Requests, Part(r, 1, j) = Body(q)
      PROVE  FALSE
  <2>1. /\ Len(Body(q)) = Length[q] /\ Length[q] \in Nat \ {0}
        /\ \A i \in 1 .. Length[q] : Body(q)[i] = <<q, i>>
    <3>1. Length[q] \in Nat \ {0}
      OBVIOUS
    <3> QED
      BY <3>1, PrefixIs DEF Body
  <2>2. j = Length[q] /\ <<r, 1>> = <<q, 1>>
    BY <1>1, <1>3, <2>1
  <2>3. r = q
    BY <2>2
  <2> QED
    BY <2>2, <2>3
<1> QED
  BY <1>2, <1>3 DEF Whole

\* An upload's whole body is the configuration that it brings.
LEMMA BodyIsWhole ==
  ASSUME NEW r \in Requests
  PROVE  Body(r) \in Whole
  BY DEF Whole

\* What loads of some contents is what loads of the configuration that they are.
LEMMA LoadsOfStored ==
  ASSUME NEW contents, NEW configuration,
         configuration = IF contents \in Whole THEN contents ELSE None
  PROVE  /\ Load(contents) \in MqttConfig!Loads(configuration)
         /\ Loads(contents) \subseteq MqttConfig!Loads(configuration)
         /\ ApTasks # {} => None \in MqttConfig!Loads(configuration)
<1>1. Loadable \subseteq Whole
  BY DEF Loadable, Whole
<1> QED
  BY <1>1 DEF Load, Loads, MqttConfig!Loads

LEMMA AnswerTo ==
  ASSUME RequestsOK, NEW puts \in SUBSET Requests, NEW r, NEW result,
         answer' = [answer EXCEPT ![r] = result]
  PROVE  /\ r \notin puts => Answers(puts)' = Answers(puts)
         /\ Answers(puts)' = [Answers(puts) EXCEPT ![r] = result]
<1>1. /\ Answers(puts) = [q \in puts |-> answer[q]]
      /\ Answers(puts)' = [q \in puts |-> answer'[q]]
  BY DEF Answers
<1>2. \A q \in puts : answer'[q] = IF q = r THEN result ELSE answer[q]
  BY DEF RequestsOK
<1> QED
  BY <1>1, <1>2

\* The MQTT configuration.
LEMMA MqttSimulates ==
  RequestsOK /\ StorageOK /\ [Next]_vars => [MqttConfig!Next]_(MqttConfig!vars)
<1> SUFFICES ASSUME RequestsOK, StorageOK, [Next]_vars
             PROVE  [MqttConfig!Next]_(MqttConfig!vars)
  OBVIOUS
<1>0. ASSUME file'["mqtt"] = file["mqtt"], running'["mqtt"] = running["mqtt"],
             copy' = copy, booted' = booted, \A q \in MqttPuts : answer'[q] = answer[q]
      PROVE  UNCHANGED MqttConfig!vars
  BY <1>0 DEF MqttConfig!vars, Stored, Answers, Read
<1>p. MqttPuts \in SUBSET Requests
  BY DEF Requests
<1>1. ASSUME NEW r \in ModbusPuts, NEW n \in 1 .. Length[r], ModbusChunk(r, n)
      PROVE  UNCHANGED MqttConfig!vars
  <2>1. /\ UNCHANGED <<booted, copy>>
        /\ \E object, contents, handle : /\ FinishModbus(r, n, object, contents)
                                         /\ Proceed(r, n, handle, object, ModbusOutcome(object))
    BY <1>1 DEF ModbusChunk, ModbusOpenFails, ModbusOpens, ModbusWrites, ModbusDrains, loaderVars
  <2>2. file'["mqtt"] = file["mqtt"] /\ running'["mqtt"] = running["mqtt"]
    BY <2>1 DEF FinishModbus, StorageOK, Kinds
  <2>3. \A q \in MqttPuts : q \in Requests /\ q # r
    BY DEF Requests
  <2>4. \A q \in MqttPuts : answer'[q] = answer[q]
    BY <2>1, <2>3 DEF Proceed, RequestsOK
  <2> QED
    BY <1>0, <2>1, <2>2, <2>4
<1>2. ASSUME NEW r \in MqttPuts, NEW n \in 1 .. Length[r], Gather(r, n) \/ MqttOpenFails(r, n)
      PROVE  MqttConfig!Attempt(r)
  <2>1. UNCHANGED <<file, running, booted, copy>>
    BY <1>2 DEF Gather, MqttOpenFails, loaderVars
  <2>2. \E result \in {None, "failed"} : answer' = [answer EXCEPT ![r] = result]
    BY <1>2 DEF Gather, MqttOpenFails, Proceed
  <2>3. \E result \in {None, "failed"} :
          Answers(MqttPuts)' = [Answers(MqttPuts) EXCEPT ![r] = result]
    BY <1>p, <2>2, AnswerTo
  <2>4. Stored("mqtt")' = Stored("mqtt")
    BY <2>1 DEF Stored
  <2> QED
    BY <2>1, <2>3, <2>4 DEF MqttConfig!Attempt, Read
<1>3. ASSUME NEW r \in SecretPosts, NEW n \in 1 .. Length[r], SecretChunk(r, n)
      PROVE  UNCHANGED MqttConfig!vars
  <2>1. /\ file' = file \/ \E contents : file' = [file EXCEPT !["secret"] = contents]
        /\ UNCHANGED <<running, booted, copy>>
        /\ \E result : answer' = [answer EXCEPT ![r] = result]
    BY <1>3 DEF SecretChunk, Gather, PostSecret, Proceed, loaderVars
  <2>2. file'["mqtt"] = file["mqtt"]
    BY <2>1 DEF StorageOK, Kinds
  <2>3. \A q \in MqttPuts : q \in Requests /\ q # r
    BY DEF Requests
  <2>4. \A q \in MqttPuts : answer'[q] = answer[q]
    BY <2>1, <2>3 DEF RequestsOK
  <2> QED
    BY <1>0, <2>1, <2>2, <2>4
<1>4. ASSUME NEW r \in MqttPuts, NEW n \in 1 .. Length[r], MqttOpens(r, n)
      PROVE  MqttConfig!Attempt(r)
  <2>1. /\ file' = [file EXCEPT !["mqtt"] = <<>>]
        /\ answer' = [answer EXCEPT ![r] = None] /\ UNCHANGED <<running, booted, copy>>
    BY <1>4 DEF MqttOpens, loaderVars
  <2>2. <<>> \notin Whole
    <3>1. \A q \in Requests : Len(Body(q)) # 0
      BY BodyIs
    <3>2. Len(<<Nul>>) # 0 /\ Len(<<>>) = 0
      OBVIOUS
    <3> QED
      BY <3>1, <3>2 DEF Whole, Factory
  <2>3. Stored("mqtt")' = None
    BY <2>1, <2>2 DEF Stored, StorageOK, Kinds
  <2>4. Answers(MqttPuts)' = [Answers(MqttPuts) EXCEPT ![r] = None]
    BY <1>p, <2>1, AnswerTo
  <2> QED
    BY <2>1, <2>3, <2>4 DEF MqttConfig!Attempt, Read
<1>5. ASSUME NEW r \in MqttPuts, MqttWrites(r)
      PROVE  MqttConfig!Attempt(r) \/ MqttConfig!Confirm(r)
  <2>1. r \in Requests /\ web = r /\ slot[r] = Body(r)
    BY <1>5 DEF MqttWrites, RequestsOK, Requests
  <2>2. Body(r) \in Seq(Bytes) /\ Len(Body(r)) = Length[r] /\ Length[r] \in Nat
    BY <2>1, BodyIs
  <2>3. PICK k \in 0 .. Length[r] :
          /\ file' = [file EXCEPT !["mqtt"] = SubSeq(slot[r], 1, k)]
          /\ IF k = Length[r] THEN LoadMqtt(None, slot[r]) ELSE UNCHANGED <<running, overtaken>>
          /\ answer' = [answer EXCEPT ![r] = IF k = Length[r] THEN "ok" ELSE "failed"]
    BY <1>5 DEF MqttWrites
  <2>4. UNCHANGED <<booted, copy>>
    BY <1>5 DEF MqttWrites
  <2>5. CASE k = Length[r]
    <3>1. SubSeq(slot[r], 1, k) = Body(r)
      BY <2>1, <2>2, <2>5, SubSeqFull
    <3>2. Stored("mqtt")' = Body(r) /\ running'["mqtt"] \in Loads(Body(r))
      <4>1. file'["mqtt"] = Body(r) /\ Body(r) \in Whole
        BY <2>1, <2>3, <3>1, BodyIsWhole DEF StorageOK, Kinds
      <4>2. LoadMqtt(None, Body(r))
        BY <2>1, <2>3, <2>5
      <4> QED
        BY <4>1, <4>2 DEF Stored, StorageOK, LoadMqtt
    <3>3. Answers(MqttPuts)' = [Answers(MqttPuts) EXCEPT ![r] = "ok"]
      BY <1>p, <2>3, <2>5, AnswerTo
    <3>4. Bodies(MqttPuts)[r] = Body(r)
      BY DEF Bodies
    <3>5. running'["mqtt"] \in MqttConfig!Loads(Body(r))
      BY <2>1, <3>2, LoadsOfStored, BodyIsWhole
    <3> QED
      BY <2>4, <3>2, <3>3, <3>4, <3>5 DEF MqttConfig!Confirm, Read
  <2>6. CASE k # Length[r]
    <3>1. SubSeq(Body(r), 1, k) = Part(r, 1, k)
      <4>1. Body(r) = [i \in 1 .. Length[r] |-> <<r, i>>]
        BY <2>1, <2>2, PrefixIs DEF Body
      <4>0. k \in Nat
        BY <2>2
      <4>2. k \in Nat /\ Part(r, 1, k) = [i \in 1 .. k |-> <<r, i>>]
        BY <2>1, <4>0, PrefixIs
      <4>3. SubSeq(Body(r), 1, k) = [i \in 1 .. k |-> Body(r)[i]]
        <5>1. /\ SubSeq(Body(r), 1, k) \in Seq(Bytes)
              /\ Len(SubSeq(Body(r), 1, k)) = k
              /\ \A i \in 1 .. k : SubSeq(Body(r), 1, k)[i] = Body(r)[i]
          BY <2>2, <4>2, SubSeqProperties
        <5> QED
          BY <4>2, <5>1
      <4>4. \A i \in 1 .. k : Body(r)[i] = <<r, i>>
        BY <2>2, <4>1
      <4> QED
        BY <4>2, <4>3, <4>4
    <3>2. Part(r, 1, k) \notin Whole
      BY <2>1, <2>2, <2>6, PrefixIsNotWhole
    <3>3. Stored("mqtt")' = None /\ running'["mqtt"] = running["mqtt"]
      BY <2>1, <2>3, <2>6, <3>1, <3>2 DEF Stored, StorageOK, Kinds
    <3>4. Answers(MqttPuts)' = [Answers(MqttPuts) EXCEPT ![r] = "failed"]
      BY <1>p, <2>3, <2>6, AnswerTo
    <3> QED
      BY <2>4, <3>3, <3>4 DEF MqttConfig!Attempt, Read
  <2> QED
    BY <2>5, <2>6
<1>6. ASSUME NEW r \in Requests, Abort(r)
      PROVE  UNCHANGED MqttConfig!vars
  BY <1>0, <1>6 DEF Abort, loaderVars
<1>7. CASE UNCHANGED vars
  BY <1>0, <1>7 DEF vars, requestVars, loaderVars
<1>8. CASE Boot
  <2>0. copy' = copy
    BY <1>8 DEF Boot
  <2>1. running'["mqtt"] = running["mqtt"] /\ ~booted /\ booted' = TRUE /\ file' = file /\ answer' = answer
    BY <1>8 DEF Boot, StorageOK, requestVars
  <2> QED
    BY <2>0, <2>1 DEF MqttConfig!Next, MqttConfig!Start, Stored, Answers, Read
<1>9. CASE Restart
  <2>1. /\ running'["mqtt"] = Load(file["mqtt"]) /\ booted' = FALSE /\ file' = file /\ answer' = answer
        /\ copy' = [t \in ApTasks |-> None]
    BY <1>9 DEF Restart
  <2>2. running'["mqtt"] \in MqttConfig!Loads(Stored("mqtt"))
    BY <2>1, LoadsOfStored DEF Stored
  <2>3. Read' = [t \in ApTasks |-> None]
    BY <2>1 DEF Read
  <2> QED
    BY <2>1, <2>2, <2>3 DEF MqttConfig!Next, MqttConfig!Restart, Stored, Answers
<1>10. CASE TestConnect
  <2>1. UNCHANGED <<file, answer, booted, copy>> /\ LoadMqtt(None, file["mqtt"])
    BY <1>10 DEF TestConnect, requestVars
  <2>2. running'["mqtt"] \in Loads(file["mqtt"])
    BY <2>1 DEF LoadMqtt, StorageOK
  <2>3. running'["mqtt"] \in MqttConfig!Loads(Stored("mqtt"))
    BY <2>2, LoadsOfStored DEF Stored
  <2> QED
    BY <2>1, <2>3 DEF MqttConfig!Next, MqttConfig!Reload, Stored, Answers, Read
<1>11. ASSUME NEW t \in ApTasks, ApReads(t)
       PROVE  MqttConfig!Read(t)
  <2>1. /\ UNCHANGED <<file, answer, booted, running>>
        /\ copy' = [copy EXCEPT ![t] = file["mqtt"]]
    BY <1>11 DEF ApReads, requestVars
  <2>2. copy'[t] = file["mqtt"] /\ \A u \in ApTasks \ {t} : copy'[u] = copy[u]
    BY <2>1 DEF StorageOK
  <2>3. Read' = [Read EXCEPT ![t] = Stored("mqtt")]
    BY <2>2 DEF Read, Stored
  <2> QED
    BY <2>1, <2>3 DEF MqttConfig!Read, Stored, Answers
<1>12. ASSUME NEW t \in ApTasks, ApLoads(t)
       PROVE  MqttConfig!Load(t)
  <2>1. /\ UNCHANGED <<file, answer, booted>>
        /\ copy' = [copy EXCEPT ![t] = None]
        /\ running'["mqtt"] \in {Load(copy[t])} \cup {None : u \in overtaken \cap {t}}
    BY <1>12 DEF ApLoads, requestVars, StorageOK
  <2>2. running'["mqtt"] \in MqttConfig!Loads(Read[t])
    BY <2>1, LoadsOfStored DEF Read
  <2>3. copy'[t] = None /\ \A u \in ApTasks \ {t} : copy'[u] = copy[u]
    BY <2>1 DEF StorageOK
  <2>4. Read' = [Read EXCEPT ![t] = None]
    BY <2>3 DEF Read
  <2> QED
    BY <2>1, <2>2, <2>4 DEF MqttConfig!Load, Stored, Answers
<1> QED
  BY <1>1, <1>2, <1>3, <1>4, <1>5, <1>6, <1>7, <1>8, <1>9, <1>10, <1>11, <1>12
  DEF Next, MqttChunk, MqttConfig!Next

\* The MQTT configuration is replaced in one step that is answered with 204, or not at all,
\* and what runs changes then, in a start, and when another request or a task of the
\* portal loads the file, which may be damaged.
THEOREM MqttInOnePiece == Spec => MqttConfig!Spec
<1>1. Init => MqttConfig!Init
  <2> SUFFICES ASSUME Init
               PROVE  MqttConfig!Init
    OBVIOUS
  <2>1. Stored("mqtt") = Factory /\ running["mqtt"] = Factory
    BY DEF Init, Stored, Whole, Kinds
  <2>2. Answers(MqttPuts) = [u \in MqttPuts |-> None]
    BY DEF Init, Answers, Requests
  <2>3. Read = [t \in ApTasks |-> None]
    BY DEF Init, Read
  <2> QED
    BY <2>1, <2>2, <2>3 DEF Init, MqttConfig!Init
<1> QED
  BY <1>1, MqttSimulates, AlwaysOK, PTL DEF Spec, MqttConfig!Spec

\* What ModbusManager makes of some contents.
LEMMA LoadsModbusOfStored ==
  ASSUME NEW contents, NEW configuration,
         configuration = IF contents \in Whole THEN contents ELSE None
  PROVE  /\ LoadsModbus(contents) \subseteq ModbusConfig!Loads(configuration) \cup {None}
         /\ contents \in {Factory} \cup Beginnings =>
              LoadsModbus(contents) \subseteq ModbusConfig!Loads(configuration)
<1>1. Loadable \subseteq Whole /\ Factory \in Loadable /\ None \notin Loadable
  <2>1. Loadable \subseteq Whole
    BY DEF Loadable, Whole
  <2>2. Factory \in Loadable
    BY DEF Loadable
  <2> QED
    BY <2>1, <2>2, NoneIsNoFile
<1> QED
  BY <1>1 DEF LoadsModbus, ModbusConfig!Loads

\* The Modbus configuration.
LEMMA ModbusSimulates ==
  RequestsOK /\ StorageOK /\ ModbusInv /\ [Next]_vars
    => [ModbusConfig!Next]_(ModbusConfig!vars)
<1> SUFFICES ASSUME RequestsOK, StorageOK, ModbusInv, [Next]_vars
             PROVE  [ModbusConfig!Next]_(ModbusConfig!vars)
  OBVIOUS
<1>0. ASSUME file'["modbus"] = file["modbus"], running'["modbus"] = running["modbus"],
             booted' = booted, spoilt' = spoilt, \A q \in ModbusPuts : answer'[q] = answer[q]
      PROVE  UNCHANGED ModbusConfig!vars
  BY <1>0 DEF ModbusConfig!vars, Stored, Answers
<1>p. ModbusPuts \in SUBSET Requests
  BY DEF Requests
<1>1. ASSUME NEW r \in ModbusPuts, NEW n \in 1 .. Length[r], ModbusChunk(r, n)
      PROVE  ModbusConfig!Attempt(r) \/ ModbusConfig!Confirm(r) \/ ModbusConfig!ConfirmSpoilt(r)
  <2>1. r \in Requests /\ n \in Nat /\ Arrives(r, n) /\ booted' = booted
    BY <1>1, ModbusChunkIs DEF loaderVars
  <2>2. PICK handle \in BOOLEAN, object \in {None, Error}, contents \in Seq(Bytes) :
          ChunkEffect(r, n, handle, object, contents)
    BY <1>1, ModbusChunkIs
  <2>3. answer' = [answer EXCEPT ![r] = IF IsLast(r, n) THEN ModbusOutcome(object) ELSE None]
    BY <2>2 DEF ChunkEffect, Proceed
  <2>4. /\ file'["modbus"] = contents
        /\ running'["modbus"] \in IF IsLast(r, n) /\ object # Error
                                  THEN LoadsModbus(contents) ELSE {running["modbus"]}
    BY <2>2 DEF ChunkEffect, FinishModbus, StorageOK, Kinds
  <2>5. got[r] + n \in Nat /\ got[r] + n <= Length[r] /\ Length[r] \in Nat
    <3>1. got[r] \in Nat /\ Length[r] \in Nat
      BY <2>1 DEF RequestsOK
    <3> QED
      BY <2>1, <3>1 DEF Arrives
  <2>6. r \notin spoilt' =>
          /\ object = None => contents = Part(r, 1, got[r] + n)
          /\ object = Error => \/ contents = file["modbus"]
                               \/ \E j \in Nat : j < Length[r] /\ contents = Part(r, 1, j)
    BY <2>2 DEF ChunkEffect
  <2>7. spoilt' \in SUBSET ModbusPuts
    BY StorageStep DEF StorageOK
  <2>8. Stored("modbus")' = IF contents \in Whole THEN contents ELSE None
    BY <2>4 DEF Stored
  <2>9. Stored("modbus")' \in Whole \cup {None}
    BY <2>8
  <2>10. CASE IsLast(r, n) /\ object # Error
    <3>1. Answers(ModbusPuts)' = [Answers(ModbusPuts) EXCEPT ![r] = "ok"]
      <4>1. answer' = [answer EXCEPT ![r] = "ok"]
        BY <2>3, <2>10 DEF ModbusOutcome
      <4> QED
        BY <1>p, <4>1, AnswerTo
    <3>2. running'["modbus"] \in LoadsModbus(contents)
      BY <2>4, <2>10
    <3>3. CASE r \in spoilt'
      <4>1. running'["modbus"] \in ModbusConfig!Loads(Stored("modbus")') \cup {None}
        BY <2>8, <3>2, LoadsModbusOfStored
      <4> QED
        BY <2>1, <2>7, <2>9, <3>1, <3>3, <4>1 DEF ModbusConfig!ConfirmSpoilt
    <3>4. CASE r \notin spoilt'
      <4>1. contents = Body(r)
        BY <2>2, <2>6, <2>10, <3>4 DEF IsLast, Body
      <4>2. Body(r) \in Whole /\ Body(r) \in Beginnings /\ Bodies(ModbusPuts)[r] = Body(r)
        <5>1. Length[r] \in 0 .. Length[r]
          BY <2>5
        <5> QED
          BY <2>1, <5>1, BodyIsWhole DEF Beginnings, Body, Bodies
      <4>3. running'["modbus"] \in ModbusConfig!Loads(Body(r))
        BY <3>2, <4>1, <4>2, LoadsModbusOfStored
      <4> QED
        BY <2>1, <2>7, <2>8, <3>1, <4>1, <4>2, <4>3 DEF ModbusConfig!Confirm
    <3> QED
      BY <3>3, <3>4
  <2>11. CASE ~(IsLast(r, n) /\ object # Error)
    <3>1. running'["modbus"] = running["modbus"]
      BY <2>4, <2>11
    <3>2. \E result \in {None, "failed"} :
            Answers(ModbusPuts)' = [Answers(ModbusPuts) EXCEPT ![r] = result]
      <4>1. \E result \in {None, "failed"} : answer' = [answer EXCEPT ![r] = result]
        BY <2>3, <2>11 DEF ModbusOutcome
      <4> QED
        BY <1>p, <4>1, AnswerTo
    <3>3. r \notin spoilt' => contents = file["modbus"] \/ contents \notin Whole
      <4> SUFFICES ASSUME r \notin spoilt'
                   PROVE  contents = file["modbus"] \/ contents \notin Whole
        OBVIOUS
      <4>1. CASE object = Error
        BY <2>1, <2>6, <4>1, PrefixIsNotWhole
      <4>2. CASE object # Error
        <5>1. contents = Part(r, 1, got[r] + n) /\ got[r] + n # Length[r]
          BY <2>2, <2>6, <2>11, <4>2 DEF IsLast
        <5> QED
          BY <2>1, <2>5, <5>1, PrefixIsNotWhole
      <4> QED
        BY <4>1, <4>2
    <3>4. Stored("modbus")' \in {Stored("modbus"), None} \cup {c \in Whole : r \in spoilt'}
      BY <2>8, <2>9, <3>3 DEF Stored
    <3> QED
      BY <2>1, <2>7, <3>1, <3>2, <3>4 DEF ModbusConfig!Attempt
  <2> QED
    BY <2>10, <2>11
\* A step of another kind of request.
<1>2. ASSUME NEW r \in MqttPuts \cup SecretPosts,
             \E kind \in {"mqtt", "secret"} : \E contents : file' = [file EXCEPT ![kind] = contents],
             \E result : answer' = [answer EXCEPT ![r] = result],
             running'["modbus"] = running["modbus"], booted' = booted, spoilt' = spoilt
      PROVE  UNCHANGED ModbusConfig!vars
  <2>1. \A q \in ModbusPuts : q \in Requests /\ q # r
    BY DEF Requests
  <2>2. \A q \in ModbusPuts : answer'[q] = answer[q]
    BY <1>2, <2>1 DEF RequestsOK
  <2>3. file'["modbus"] = file["modbus"]
    BY <1>2 DEF StorageOK, Kinds
  <2> QED
    BY <1>0, <1>2, <2>2, <2>3
<1>3. ASSUME NEW r \in MqttPuts \cup SecretPosts, NEW n \in 1 .. Length[r],
             MqttChunk(r, n) \/ SecretChunk(r, n)
      PROVE  UNCHANGED ModbusConfig!vars
  <2>1. \E result : answer' = [answer EXCEPT ![r] = result]
    BY <1>3 DEF MqttChunk, SecretChunk, Gather, MqttOpenFails, MqttOpens, PostSecret, Proceed
  <2>2. UNCHANGED <<running, booted, spoilt>>
    BY <1>3 DEF MqttChunk, SecretChunk, Gather, MqttOpenFails, MqttOpens, PostSecret, loaderVars
  <2>3. \/ file' = file
        \/ \E kind \in {"mqtt", "secret"} : \E contents : file' = [file EXCEPT ![kind] = contents]
    BY <1>3 DEF MqttChunk, SecretChunk, Gather, MqttOpenFails, MqttOpens, PostSecret
  <2>4. file = [file EXCEPT !["mqtt"] = file["mqtt"]]
    BY DEF StorageOK, Kinds
  <2> QED
    BY <1>2, <2>1, <2>2, <2>3, <2>4
<1>4. ASSUME NEW r \in MqttPuts, MqttWrites(r)
      PROVE  UNCHANGED ModbusConfig!vars
  <2>1. /\ \E contents : file' = [file EXCEPT !["mqtt"] = contents]
        /\ \E result : answer' = [answer EXCEPT ![r] = result]
        /\ UNCHANGED <<booted, spoilt>>
    BY <1>4 DEF MqttWrites
  <2>2. running'["modbus"] = running["modbus"]
    BY <1>4 DEF MqttWrites, LoadMqtt, StorageOK
  <2> QED
    BY <1>2, <2>1, <2>2
<1>5. ASSUME NEW r \in Requests, Abort(r)
      PROVE  UNCHANGED ModbusConfig!vars
  BY <1>0, <1>5 DEF Abort, loaderVars
<1>6. CASE \/ UNCHANGED vars \/ TestConnect
           \/ \E t \in ApTasks : ApReads(t) \/ ApLoads(t)
  <2>1. running'["modbus"] = running["modbus"] /\ UNCHANGED <<file, answer, booted, spoilt>>
    BY <1>6 DEF vars, requestVars, loaderVars, TestConnect, LoadMqtt, ApReads, ApLoads, StorageOK
  <2> QED
    BY <1>0, <2>1
<1>7. CASE Boot
  <2>1. /\ running'["modbus"] \in LoadsModbus(file["modbus"])
        /\ ~booted /\ booted' = TRUE /\ UNCHANGED <<file, answer, spoilt>>
    BY <1>7 DEF Boot, StorageOK, requestVars
  <2>2. running'["modbus"] \in ModbusConfig!Loads(Stored("modbus")) \cup {None : u \in spoilt}
    BY <2>1, LoadsModbusOfStored DEF Stored, ModbusInv
  <2> QED
    BY <2>1, <2>2 DEF ModbusConfig!Next, ModbusConfig!Start, Stored, Answers
<1>8. CASE Restart
  <2>1. running'["modbus"] = None /\ booted' = FALSE /\ UNCHANGED <<file, answer, spoilt>>
    BY <1>8 DEF Restart
  <2> QED
    BY <2>1 DEF ModbusConfig!Next, ModbusConfig!Restart, Stored, Answers
<1> QED
  BY <1>1, <1>3, <1>4, <1>5, <1>6, <1>7, <1>8 DEF Next, ModbusConfig!Next

\* Both configurations are replaced in one step that is answered with 204, or not at all,
\* except for Modbus uploads that overlap or fail without a mark.
THEOREM InOnePiece == Spec => ImplementsStoredConfig
<1>1. Init => ModbusConfig!Init
  BY DEF Init, ModbusConfig!Init, Stored, Answers, Whole, Kinds, Requests
<1>2. Spec => ModbusConfig!Spec
  BY <1>1, ModbusSimulates, ModbusAlways, AlwaysOK, PTL DEF Spec, ModbusConfig!Spec
<1> QED
  BY <1>2, MqttInOnePiece DEF ImplementsStoredConfig
===============================================================================
