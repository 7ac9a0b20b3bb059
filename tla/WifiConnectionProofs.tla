------------------------- MODULE WifiConnectionProofs --------------------------
(***************************************************************************)
(* Theorems about WifiConnection, for any networks and any length of the   *)
(* event queue.                                                            *)
(***************************************************************************)
EXTENDS WifiConnection, SequenceTheorems, TLAPS

EventTypes == {"ip", "down"}

\* Events taken from the queue and put into it.
LEMMA QueueIs ==
  ASSUME events \in Seq(EventTypes)
  PROVE  /\ \A e \in EventTypes :
              /\ Append(events, e) \in Seq(EventTypes)
              /\ Len(Append(events, e)) = Len(events) + 1
              /\ Append(events, e)[Len(events) + 1] = e
              /\ Append(events, e) # <<>>
         /\ events # <<>> =>
              /\ Head(events) = events[1] /\ Len(events) >= 1
              /\ Tail(events) \in Seq(EventTypes)
              /\ Tail(events) # <<>> =>
                   Tail(events)[Len(Tail(events))] = events[Len(events)]
              /\ Tail(events) = <<>> => Head(events) = events[Len(events)]
<1>1. ASSUME NEW e \in EventTypes
      PROVE  /\ Append(events, e) \in Seq(EventTypes)
             /\ Len(Append(events, e)) = Len(events) + 1
             /\ Append(events, e)[Len(events) + 1] = e
             /\ Append(events, e) # <<>>
  BY AppendProperties
<1>2. ASSUME events # <<>>
      PROVE  /\ Head(events) = events[1] /\ Len(events) >= 1
             /\ Tail(events) \in Seq(EventTypes)
             /\ Tail(events) # <<>> => Tail(events)[Len(Tail(events))] = events[Len(events)]
             /\ Tail(events) = <<>> => Head(events) = events[Len(events)]
  <2>1. /\ Tail(events) \in Seq(EventTypes) /\ Len(Tail(events)) = Len(events) - 1
        /\ \A i \in 1 .. Len(Tail(events)) : Tail(events)[i] = events[i + 1]
    BY <1>2, HeadTailProperties
  <2>2. Len(events) \in Nat /\ Len(events) >= 1 /\ Head(events) = events[1]
    BY <1>2, EmptySeq, LenProperties
  <2>3. Tail(events) = <<>> <=> Len(Tail(events)) = 0
    BY <2>1, EmptySeq
  <2> QED
    BY <2>1, <2>2, <2>3
<1> QED
  BY <1>1, <1>2

\* The driver's part of a step that takes it off its network.
LEMMA LeaveIs ==
  ASSUME link \in Links \cup {None}, events \in Seq(EventTypes),
         NEW next, next = None \/ next \in Links, Leave(next)
  PROVE  /\ link' = next
         /\ events' \in Seq(EventTypes)
         /\ events' = events \/ events' = Append(events, "down")
         /\ link # None /\ link.up => events' = Append(events, "down")
<1>1. Append(events, "down") \in Seq(EventTypes)
  BY QueueIs DEF EventTypes
<1> QED
  BY <1>1 DEF Leave

THEOREM TypeCorrect == Spec => []TypeOK
<1> USE WifiAssumption
<1>0. <<>> \in Seq({"ip", "down"})
  OBVIOUS
<1>1. Init => TypeOK
  BY <1>0 DEF Init, TypeOK
<1>2. TypeOK /\ [Next]_vars => TypeOK'
  <2> SUFFICES ASSUME TypeOK, [Next]_vars
               PROVE  TypeOK'
    OBVIOUS
  <2>0. events \in Seq(EventTypes) /\ link \in Links \cup {None}
    BY DEF TypeOK, EventTypes
  <2> USE DEF portal, radio, flash
  <2>1. CASE Joins
    <3>1. events' \in Seq(EventTypes)
      BY <2>0, <2>1, QueueIs DEF Joins, EventTypes
    <3>2. link \in Links
      BY <2>1 DEF Joins, TypeOK
    <3>3. link' \in Links
      BY <2>1, <3>2 DEF Joins, Links, TypeOK
    <3> QED
      BY <2>1, <3>1, <3>3 DEF Joins, TypeOK, EventTypes
  <2>2. CASE Loses
    <3>1. events' \in Seq(EventTypes)
      BY <2>0, <2>2, QueueIs DEF Loses, EventTypes
    <3>2. link \in Links
      BY <2>2 DEF Loses, TypeOK
    <3>3. link' \in Links \cup {None}
      <4>1. [to |-> link.to, save |-> link.save, up |-> FALSE] \in Links
        BY <3>2 DEF Links
      <4> QED
        BY <2>2, <4>1 DEF Loses, Joining
    <3> QED
      BY <2>2, <3>1, <3>3 DEF Loses, TypeOK, EventTypes
  <2>3. CASE Event
    <3>1. events' \in Seq(EventTypes)
      BY <2>0, <2>3, QueueIs DEF Event, GotIp, Lost
    <3> QED
      BY <2>3, <3>1 DEF Event, GotIp, Lost, Write, TypeOK, EventTypes
  <2>4. ASSUME NEW network \in Networks, NEW save \in BOOLEAN, ConnectBegins(network, save)
        PROVE  TypeOK'
    <3>1. [to |-> network, save |-> save] \in Requests
      BY DEF Requests
    <3> QED
      BY <2>4, <3>1 DEF ConnectBegins, TypeOK
  <2>50. web # None => web.to \in Networks /\ web.save \in BOOLEAN
    BY DEF TypeOK, Requests
  <2>5. CASE ConnectFails
    <3>1. /\ link' \in Links \cup {None}
          /\ events' \in Seq(EventTypes)
      BY <2>0, <2>5, LeaveIs DEF ConnectFails
    <3>2. stored' \in Networks \cup {None}
      BY <2>5, <2>50 DEF ConnectFails, MayPersist, TypeOK
    <3> QED
      BY <2>5, <3>1, <3>2 DEF ConnectFails, Suspend, TypeOK, EventTypes
  <2>6. CASE ConnectStarts
    <3>1. web.to \in Networks /\ web.save \in BOOLEAN
      BY <2>6, <2>50 DEF ConnectStarts
    <3>2. Joining(web) \in Links
      BY <3>1 DEF Joining, Links
    <3>3. /\ link' \in Links \cup {None}
          /\ events' \in Seq(EventTypes)
      BY <2>0, <2>6, <3>2, LeaveIs DEF ConnectStarts
    <3>4. stored' \in Networks \cup {None}
      BY <2>6, <3>1 DEF ConnectStarts, MayPersist, TypeOK
    <3> QED
      BY <2>6, <3>1, <3>3, <3>4 DEF ConnectStarts, Suspend, TypeOK, EventTypes
  <2>7. CASE Status \/ ApOff \/ Scan
    BY <2>7 DEF Status, ApOff, Scan, DecideToScan, StartScan, CollectScan, TypeOK
  <2>8. CASE Cancel \/ NetworkReset \/ TimeOut
    <3>1. /\ link' \in Links \cup {None}
          /\ events' \in Seq(EventTypes)
      <4>1. CASE Leave(None)
        BY <2>0, <4>1, LeaveIs
      <4>2. CASE UNCHANGED radio
        BY <2>0, <4>2
      <4> QED
        BY <2>8, <4>1, <4>2 DEF Cancel, NetworkReset, TimeOut
    <3> QED
      BY <2>8, <3>1 DEF Cancel, NetworkReset, TimeOut, TypeOK, EventTypes
  <2>9. CASE Restart
    BY <1>0, <2>9 DEF Restart, TypeOK
  <2>10. CASE UNCHANGED vars
    BY <2>10 DEF vars, TypeOK
  <2> QED
    BY <2>1, <2>2, <2>3, <2>4, <2>5, <2>6, <2>7, <2>8, <2>9, <2>10 DEF Next, Connect
<1> QED
  BY <1>1, <1>2, PTL DEF Spec
-------------------------------------------------------------------------------
Up == link # None /\ link.up

\* The last event of the queue tells of the link as it is, or else the status does.
AddressInv ==
  IF events = <<>> THEN state = "connected" => Up ELSE events[Len(events)] = "ip" => Up

\* Whatever events are still under way, once they are handled "connected" is true.
THEOREM ConnectedIsTrue == Spec => []ConnectedHasAddress
<1> USE WifiAssumption
<1>1. Init => AddressInv
  BY DEF Init, AddressInv
<1>2. TypeOK /\ AddressInv /\ [Next]_vars => AddressInv'
  <2> SUFFICES ASSUME TypeOK, AddressInv, [Next]_vars
               PROVE  AddressInv'
    OBVIOUS
  <2>0. events \in Seq(EventTypes) /\ link \in Links \cup {None}
    BY DEF TypeOK, EventTypes
  <2> USE DEF portal, radio, flash
  \* A step that takes the driver off its network, and does not make the status "connected".
  <2>1. ASSUME NEW next, next = None \/ next \in Links, Leave(next),
               state' = "connected" => state = "connected"
        PROVE  AddressInv'
    <3>1. events' = events \/ events' = Append(events, "down")
      BY <2>0, <2>1, LeaveIs
    <3>2. CASE events' = Append(events, "down")
      <4>1. events' # <<>> /\ events'[Len(events')] = "down"
        BY <2>0, <3>2, QueueIs DEF EventTypes
      <4> QED
        BY <4>1 DEF AddressInv
    <3>3. CASE events' = events /\ events' # Append(events, "down")
      <4>1. ~Up
        BY <2>0, <2>1, <3>3, LeaveIs DEF Up
      <4> QED
        BY <2>1, <3>3, <4>1 DEF AddressInv
    <3> QED
      BY <3>1, <3>2, <3>3
  <2>2. CASE Joins
    <3>1. link' # None /\ link'.up
      <4>1. link' \in Links /\ link'.up
        BY <2>0, <2>2 DEF Joins, Links
      <4>2. None \notin Links
        OBVIOUS
      <4> QED
        BY <4>1, <4>2
    <3>2. events' # <<>>
      BY <2>0, <2>2, QueueIs DEF Joins, EventTypes
    <3> QED
      BY <3>1, <3>2 DEF AddressInv, Up
  <2>3. CASE Loses
    <3>1. events' # <<>> /\ events'[Len(events')] = "down"
      BY <2>0, <2>3, QueueIs DEF Loses, EventTypes
    <3> QED
      BY <3>1 DEF AddressInv
  <2>4. CASE Event
    <3>1. /\ events # <<>> /\ events' = Tail(events) /\ link' = link
          /\ Head(events) = "ip" \/ state' # "connected"
      BY <2>4 DEF Event, GotIp, Lost
    <3>2. CASE events' = <<>>
      <4>1. Head(events) = events[Len(events)]
        BY <2>0, <3>1, <3>2, QueueIs
      <4> QED
        BY <3>1, <3>2, <4>1 DEF AddressInv, Up
    <3>3. CASE events' # <<>>
      <4>1. events'[Len(events')] = events[Len(events)]
        BY <2>0, <3>1, <3>3, QueueIs
      <4> QED
        BY <3>1, <3>3, <4>1 DEF AddressInv, Up
    <3> QED
      BY <3>2, <3>3
  <2>5. ASSUME NEW network \in Networks, NEW save \in BOOLEAN, ConnectBegins(network, save)
        PROVE  AddressInv'
    BY <2>5 DEF ConnectBegins, AddressInv, Up
  <2>6. CASE ConnectFails
    <3>1. CASE UNCHANGED radio
      BY <2>6, <3>1 DEF ConnectFails, AddressInv, Up
    <3>2. CASE Leave(None)
      BY <2>1, <2>6, <3>2 DEF ConnectFails
    <3> QED
      BY <2>6, <3>1, <3>2 DEF ConnectFails
  <2>7. CASE ConnectStarts
    <3>1. Joining(web) \in Links
      BY <2>7 DEF ConnectStarts, TypeOK, Requests, Joining, Links
    <3> QED
      BY <2>1, <2>7, <3>1 DEF ConnectStarts
  <2>8. CASE Status \/ ApOff \/ Scan \/ UNCHANGED vars
    BY <2>8 DEF Status, ApOff, Scan, DecideToScan, StartScan, CollectScan, vars, AddressInv, Up
  <2>9. CASE Cancel \/ NetworkReset \/ TimeOut
    <3>1. CASE Leave(None)
      <4>1. state' = "connected" => state = "connected"
        BY <2>9 DEF Cancel, NetworkReset, TimeOut
      <4> QED
        BY <2>1, <3>1, <4>1
    <3>2. CASE NetworkReset /\ UNCHANGED radio
      BY <3>2 DEF NetworkReset, AddressInv, Up
    <3> QED
      BY <2>9, <3>1, <3>2 DEF Cancel, NetworkReset, TimeOut
  <2>10. CASE Restart
    BY <2>10 DEF Restart, AddressInv
  <2> QED
    BY <2>2, <2>3, <2>4, <2>5, <2>6, <2>7, <2>8, <2>9, <2>10 DEF Next, Connect
<1>3. AddressInv => ConnectedHasAddress
  BY DEF AddressInv, ConnectedHasAddress, Up
<1> QED
  BY <1>1, <1>2, <1>3, TypeCorrect, PTL DEF Spec
-------------------------------------------------------------------------------
HasIp(queue) == \E i \in 1 .. Len(queue) : queue[i] = "ip"

\* A network that was to be saved is, or waits for the address that is still to be reported:
\* what waits to be stored is for the network the driver was given last.
SavedInv ==
  /\ link # None /\ link.save =>
       \/ remembered = link.to
       \/ remembered = None /\ (kept => stored = link.to)
  /\ Up /\ remembered # None => HasIp(events)

\* Once events are handled, a status "connected" of an attempt that was to save
\* (POST /api/wifi/connect) tells of credentials that are in flash, whatever events of other
\* attempts came in between, unless the write to flash failed or a reset erased them.
THEOREM ConnectedStaysSaved == Spec => []ConnectedIsSaved
<1> USE WifiAssumption
<1>1. Init => AddressInv /\ SavedInv
  BY DEF Init, AddressInv, SavedInv, Up
<1>2. TypeOK /\ SavedInv /\ [Next]_vars => SavedInv'
  <2> SUFFICES ASSUME TypeOK, SavedInv, [Next]_vars
               PROVE  SavedInv'
    OBVIOUS
  <2>0. events \in Seq(EventTypes) /\ link \in Links \cup {None}
    BY DEF TypeOK, EventTypes
  <2>00. /\ Len(events) \in Nat
         /\ \A e \in EventTypes, i \in 1 .. Len(events) : Append(events, e)[i] = events[i]
    BY <2>0, AppendProperties
  <2> USE DEF portal, radio, flash
  \* A step that takes the driver off its network for good.
  <2>1. ASSUME Leave(None)
        PROVE  SavedInv'
    BY <2>0, <2>1, LeaveIs DEF SavedInv, Up
  <2>2. CASE Joins
    <3>1. link \in Links /\ link'.to = link.to /\ link'.save = link.save /\ link # None
      BY <2>2 DEF Joins, TypeOK, Links
    <3>2. HasIp(events')
      BY <2>0, <2>00, <2>2, QueueIs DEF Joins, EventTypes, HasIp
    <3> QED
      BY <2>2, <3>1, <3>2 DEF Joins, SavedInv
  <2>3. CASE Loses
    <3>1. link # None /\ (link' # None => link'.to = link.to /\ link'.save = link.save /\ ~link'.up)
      BY <2>3 DEF Loses, Joining
    <3> QED
      BY <2>3, <3>1 DEF Loses, SavedInv, Up
  <2>4. CASE GotIp
    <3>1. CASE remembered # None
      BY <2>4, <3>1 DEF GotIp, Write, SavedInv
    <3>2. CASE remembered = None
      BY <2>4, <3>2 DEF GotIp, SavedInv
    <3> QED
      BY <3>1, <3>2
  <2>5. CASE Lost
    <3>1. events # <<>> /\ events' = Tail(events) /\ events[1] = "down"
      BY <2>0, <2>5, QueueIs DEF Lost
    <3>2. /\ Len(events') = Len(events) - 1
          /\ \A i \in 1 .. Len(events') : events'[i] = events[i + 1]
      BY <2>0, <3>1, HeadTailProperties
    <3>3. ASSUME HasIp(events)
          PROVE  HasIp(events')
      <4>1. PICK i \in 1 .. Len(events) : events[i] = "ip"
        BY <3>3 DEF HasIp
      <4>2. i # 1
        BY <3>1, <4>1
      <4>3. i - 1 \in 1 .. Len(events') /\ events'[i - 1] = "ip"
        BY <2>00, <3>2, <4>1, <4>2
      <4> QED
        BY <4>3 DEF HasIp
    <3> QED
      BY <2>5, <3>3 DEF Lost, SavedInv, Up
  <2>6. ASSUME NEW network \in Networks, NEW save \in BOOLEAN, ConnectBegins(network, save)
        PROVE  SavedInv'
    BY <2>6 DEF ConnectBegins, SavedInv, Up
  <2>7. CASE ConnectFails
    <3>1. CASE UNCHANGED <<radio, stored>>
      BY <2>7, <3>1 DEF ConnectFails, SavedInv, Up
    <3> QED
      BY <2>1, <2>7, <3>1 DEF ConnectFails
  <2>8. CASE ConnectStarts
    <3>1. link' = Joining(web) /\ ~Joining(web).up
      BY <2>8 DEF ConnectStarts, Leave, Joining
    <3>2. Joining(web).to = web.to /\ Joining(web).save = web.save
      BY DEF Joining
    <3> QED
      BY <2>8, <3>1, <3>2 DEF ConnectStarts, SavedInv, Up
  <2>9. CASE Status \/ ApOff \/ Scan \/ UNCHANGED vars
    BY <2>9 DEF Status, ApOff, Scan, DecideToScan, StartScan, CollectScan, vars, SavedInv, Up
  <2>10. CASE Cancel \/ TimeOut
    BY <2>1, <2>10 DEF Cancel, TimeOut
  <2>11. CASE NetworkReset
    <3>1. CASE UNCHANGED radio
      BY <2>11, <3>1 DEF NetworkReset, SavedInv, Up
    <3> QED
      BY <2>1, <2>11, <3>1 DEF NetworkReset
  <2>12. CASE Restart
    BY <2>12 DEF Restart, SavedInv, Up
  <2> QED
    BY <2>2, <2>3, <2>4, <2>5, <2>6, <2>7, <2>8, <2>9, <2>10, <2>11, <2>12 DEF Next, Event, Connect
<1>3. TypeOK /\ SavedInv /\ ConnectedHasAddress => ConnectedIsSaved
  <2> SUFFICES ASSUME TypeOK, SavedInv, ConnectedHasAddress,
                      events = <<>>, state = "connected", link # None, link.save, kept
               PROVE  stored = link.to
    BY DEF ConnectedIsSaved
  <2>1. ~HasIp(events)
    BY DEF HasIp
  <2>2. Up /\ remembered = None
    BY <2>1 DEF ConnectedHasAddress, SavedInv, Up
  <2>3. link.to # None
    BY DEF TypeOK, Links
  <2> QED
    BY <2>2, <2>3 DEF SavedInv
<1> QED
  BY <1>1, <1>2, <1>3, TypeCorrect, ConnectedIsTrue, PTL DEF Spec
===============================================================================
