------------------------ MODULE SelectLoopProofs ------------------------
(***************************************************************************)
(* No device is taken for another, and no descriptor is lost, however many *)
(* descriptors, connections and replugs there are.                         *)
(***************************************************************************)
EXTENDS SelectLoop, WellFoundedInduction, TLAPS

----------------------------------------------------------------------------
\* A set of descriptor numbers has a least one: open() and accept() hand out a
\* number that is free.
LEMMA LowestIsFree == FreeFds # {} => LowestFd \in FreeFds
<1> SUFFICES ASSUME FreeFds # {} PROVE LowestFd \in FreeFds
  OBVIOUS
<1>1. FreeFds \subseteq Nat
  BY FdAssumption DEF FreeFds
<1> DEFINE below == {ss \in Nat \X Nat : ss[1] < ss[2]}
<1>2. below = OpToRel(<, Nat)
  BY Zenon DEF OpToRel
<1>3. IsWellFoundedOn(below, Nat)
  BY <1>2, NatLessThanWellFounded, Zenon
<1>4. \E x \in FreeFds : \A y \in FreeFds : <<y, x>> \notin below
  <2> HIDE DEF below
  <2> QED
    BY <1>1, <1>3, WFMin
<1>5. \A x, y \in Nat : <<y, x>> \notin below => x <= y
  <2> SUFFICES ASSUME NEW x \in Nat, NEW y \in Nat, ~(x <= y) PROVE <<y, x>> \in below
    OBVIOUS
  <2>1. <<y, x>> \in Nat \X Nat /\ <<y, x>>[1] < <<y, x>>[2]
    OBVIOUS
  <2> QED
    BY <2>1
<1>6. \E x \in FreeFds : \A y \in FreeFds : x <= y
  <2> HIDE DEF below
  <2> QED
    BY <1>1, <1>4, <1>5
<1> QED
  BY <1>6 DEF LowestFd
----------------------------------------------------------------------------
\* HeldRight and NoLeak are inductive once it is known that a plugged port has a
\* number: it is what distinguishes one plugging from the next.
HeldInv == TypeOK /\ HeldRight /\ NoLeak /\ (plugged => plugs # 0)

LEMMA HeldInit == Init => HeldInv
<1> SUFFICES ASSUME Init PROVE HeldInv
  OBVIOUS
<1> USE FdAssumption, BoundAssumption DEF Init
<1>1. TypeOK
  <2>1. fds \in [Fds -> Objects]
    BY DEF Objects
  <2>2. conn \in [Ids -> {"none", "pending", "open", "hup", "closed"}]
        /\ inbox \in [Ids -> 0..MaxInbox]
    OBVIOUS
  <2>3. {can_sock_good, can_present, can_bound, can_lost} \subseteq BOOLEAN
    OBVIOUS
  <2>4. /\ pc \in Pc
        /\ fd_front_controls \in Fds \cup {-1} /\ client \in Fds \cup {-1}
        /\ readset \subseteq Fds /\ reported \subseteq Objects
        /\ plugs \in 0..MaxPlugs
    BY DEF Pc
  <2>5. listener_ready \in BOOLEAN /\ overlapped \in BOOLEAN /\ plugged \in BOOLEAN
    BY Zenon
  <2> QED
    BY <2>1, <2>2, <2>3, <2>4, <2>5, Zenon DEF TypeOK
<1> QED
  BY <1>1 DEF HeldInv, HeldRight, NoLeak

\* fc_open() takes a number that nobody holds.
LEMMA OpenFcHeld ==
  ASSUME HeldInv, OpenFc, UNCHANGED <<client, conn, overlapped>>
  PROVE  /\ fd_front_controls' \in Fds \cup {-1} /\ fds' \in [Fds -> Objects]
         /\ HeldRight' /\ NoLeak'
<1> USE FdAssumption DEF HeldInv, TypeOK, HeldRight, NoLeak
<1>1. CASE UNCHANGED <<fd_front_controls, fds>>
  BY <1>1
<1>2. CASE ~UNCHANGED <<fd_front_controls, fds>>
  <2> DEFINE low == LowestFd
  <2>1. /\ plugged /\ fd_front_controls = -1 /\ FreeFds # {}
        /\ fd_front_controls' = low
        /\ fds' = [fds EXCEPT ![low] = Fc(plugs)]
    BY <1>2 DEF OpenFc
  <2>2. low \in Fds /\ fds[low] = Free
    BY <2>1, LowestIsFree DEF FreeFds
  <2>3. Fc(plugs) \in Objects /\ Fc(plugs).kind = "fc"
    BY <2>1, BoundAssumption DEF Objects, Fc
  <2>4. Free.kind = "free"
    BY DEF Free
  <2> HIDE DEF low
  <2>5. low # -1 /\ low # client
    BY <2>2, <2>4
  <2>6. fds' \in [Fds -> Objects]
    BY <2>1, <2>2, <2>3
  <2>7. fds'[low] = Fc(plugs) /\ \A f \in Fds \ {low} : fds'[f] = fds[f]
    BY <2>1, <2>2
  <2>8. HeldRight'
    BY <2>1, <2>3, <2>5, <2>7
  <2>9. NoLeak'
    BY <2>1, <2>2, <2>5, <2>7
  <2> QED
    BY <2>1, <2>2, <2>6, <2>8, <2>9
<1> QED
  BY <1>1, <1>2

\* Both outcomes of select() open the port and try the CAN socket first.
LEMMA SelectHeld == HeldInv /\ (Select \/ SelectInterrupted) => HeldInv'
<1> SUFFICES ASSUME HeldInv, Select \/ SelectInterrupted PROVE HeldInv'
  OBVIOUS
<1>1. OpenFc /\ UNCHANGED <<client, conn, overlapped, plugs, plugged, inbox, can_present, can_lost>>
  BY DEF Select, SelectInterrupted, fc, phone
<1>2. /\ fd_front_controls' \in Fds \cup {-1} /\ fds' \in [Fds -> Objects]
      /\ HeldRight' /\ NoLeak'
  BY <1>1, OpenFcHeld
<1>3. {can_sock_good', can_bound'} \subseteq BOOLEAN
  BY DEF Select, SelectInterrupted, ConnectCan, HeldInv, TypeOK
<1>4. /\ pc' \in Pc /\ readset' \subseteq Fds /\ reported' \subseteq Objects
      /\ listener_ready' \in BOOLEAN
  <2>1. CASE Select
    <3>1. PICK ready \in SUBSET Asked :
            /\ readset' = ready /\ reported' = {fds[f] : f \in ready}
            /\ listener_ready' = (Pending # {})
            /\ pc' = IF ready = {} /\ Pending = {} THEN "send" ELSE "fc"
      BY <2>1 DEF Select
    <3>2. ready \subseteq Fds
      BY <3>1 DEF Asked, HeldInv, TypeOK
    <3>3. {fds[f] : f \in ready} \subseteq Objects
      BY <3>2 DEF HeldInv, TypeOK
    <3> QED
      BY <3>1, <3>2, <3>3 DEF Pc
  <2>2. CASE SelectInterrupted
    BY <2>2 DEF SelectInterrupted, result, HeldInv, TypeOK, Pc
  <2> QED
    BY <2>1, <2>2
<1> QED
  BY <1>1, <1>2, <1>3, <1>4 DEF HeldInv, TypeOK

\* readFC() may close the port it was called for.
LEMMA ReadFCHeld == HeldInv /\ ReadFC => HeldInv'
<1> SUFFICES ASSUME HeldInv, ReadFC PROVE HeldInv'
  OBVIOUS
<1> USE DEF HeldInv, TypeOK, HeldRight, NoLeak, result, fc, phone, can
<1>1. /\ pc' = "accept"
      /\ UNCHANGED <<client, result, fc, phone, can, overlapped>>
  BY DEF ReadFC
<1>2. CASE UNCHANGED <<fd_front_controls, fds>>
  BY <1>1, <1>2 DEF Pc
<1>3. CASE fd_front_controls \in readset /\ CloseFc
  <2>1. fd_front_controls \in Fds /\ fd_front_controls # -1
    BY <1>3, FdAssumption
  <2>2. Free \in Objects /\ Free.kind = "free"
    BY DEF Objects, Free
  <2>3. fd_front_controls' = -1 /\ fds' \in [Fds -> Objects]
    BY <1>3, <2>1, <2>2 DEF CloseFc
  <2>4. fds'[fd_front_controls] = Free
        /\ \A f \in Fds \ {fd_front_controls} : fds'[f] = fds[f]
    BY <1>3, <2>1 DEF CloseFc
  <2>5. client # fd_front_controls
    BY <2>1
  <2>6. HeldRight'
    BY <1>1, <2>3, <2>4, <2>5
  <2>7. NoLeak'
    BY <1>1, <2>3, <2>4, <2>5
  <2> QED
    BY <1>1, <2>3, <2>6, <2>7 DEF Pc
<1> QED
  BY <1>2, <1>3 DEF ReadFC

\* Accept() takes a number that is not the port's, and forgets the one it held.
LEMMA AcceptHeld == HeldInv /\ Accept => HeldInv'
<1> SUFFICES ASSUME HeldInv, Accept PROVE HeldInv'
  OBVIOUS
<1> USE DEF HeldInv, TypeOK, HeldRight, NoLeak, result, fc, can
<1>1. /\ pc' = "read"
      /\ UNCHANGED <<fd_front_controls, result, fc, inbox, can>>
  BY DEF Accept
<1>2. CASE UNCHANGED <<client, fds, conn, overlapped>>
  BY <1>1, <1>2 DEF Pc
<1>3. CASE /\ overlapped' = (overlapped \/ client # -1)
           /\ client' = -1 /\ UNCHANGED <<fds, conn>>
  BY <1>1, <1>3 DEF Pc
<1>4. CASE /\ overlapped' = (overlapped \/ client # -1)
           /\ FreeFds # {}
           /\ \E i \in Pending :
                 /\ client' = LowestFd
                 /\ fds' = [fds EXCEPT ![LowestFd] = Conn(i)]
                 /\ conn' = [conn EXCEPT ![i] = "open"]
  <2> DEFINE low == LowestFd
  <2>1. PICK i \in Pending : /\ client' = low
                             /\ fds' = [fds EXCEPT ![low] = Conn(i)]
                             /\ conn' = [conn EXCEPT ![i] = "open"]
    BY <1>4
  <2>2. low \in Fds /\ fds[low] = Free
    BY <1>4, LowestIsFree DEF FreeFds
  <2>3. i \in Ids /\ Conn(i) \in Objects /\ Conn(i).kind = "conn" /\ Conn(i).id = i
    BY DEF Pending, Ids, Objects, Conn
  <2>4. low # fd_front_controls /\ low # -1
    BY <2>2, FdAssumption DEF Free
  <2> HIDE DEF low
  <2>5. fds' \in [Fds -> Objects]
    BY <2>1, <2>2, <2>3
  <2>6. fds'[low] = Conn(i) /\ \A f \in Fds \ {low} : fds'[f] = fds[f]
    BY <2>1, <2>2
  <2>7. conn' \in [Ids -> {"none", "pending", "open", "hup", "closed"}] /\ conn'[i] = "open"
    BY <2>1, <2>3
  <2>8. HeldRight'
    BY <1>1, <2>1, <2>2, <2>3, <2>4, <2>6, <2>7
  <2>9. overlapped' \in BOOLEAN /\ (~overlapped' => ~overlapped /\ client = -1)
    BY <1>4, Zenon
  <2>10. NoLeak'
    BY <1>1, <2>1, <2>2, <2>6, <2>9, FdAssumption
  <2> QED
    BY <1>1, <2>1, <2>2, <2>5, <2>7, <2>8, <2>9, <2>10 DEF Pc
<1> QED
  BY <1>2, <1>3, <1>4 DEF Accept

\* Read() empties the connection's inbox or closes it.
LEMMA ReadDashboardHeld == HeldInv /\ ReadDashboard => HeldInv'
<1> SUFFICES ASSUME HeldInv, ReadDashboard PROVE HeldInv'
  OBVIOUS
<1> USE DEF HeldInv, TypeOK, HeldRight, NoLeak, fc, can
<1>1. /\ pc' = "send"
      /\ readset' = {} /\ listener_ready' = FALSE /\ reported' = {}
      /\ UNCHANGED <<fd_front_controls, fc, can, overlapped>>
  BY DEF ReadDashboard
<1>2. CASE UNCHANGED <<client, fds, conn>> /\ inbox' \in [Ids -> 0..MaxInbox]
  BY <1>1, <1>2 DEF Pc
<1>3. CASE client \in readset /\ CloseClient /\ UNCHANGED inbox
  <2>1. client \in Fds /\ client # -1
    BY <1>3, FdAssumption
  <2>2. Free \in Objects /\ Free.kind = "free"
    BY DEF Objects, Free
  <2>3. client' = -1 /\ fds' \in [Fds -> Objects]
        /\ conn' \in [Ids -> {"none", "pending", "open", "hup", "closed"}]
    BY <1>3, <2>1, <2>2 DEF CloseClient
  <2>4. fds'[client] = Free /\ \A f \in Fds \ {client} : fds'[f] = fds[f]
    BY <1>3, <2>1 DEF CloseClient
  <2>5. client # fd_front_controls
    BY <2>1
  <2>6. HeldRight'
    BY <1>1, <2>3, <2>4, <2>5
  <2>7. NoLeak'
    BY <1>1, <2>3, <2>4, <2>5
  <2> QED
    BY <1>1, <1>3, <2>3, <2>6, <2>7 DEF Pc
<1>4. CASE client \in readset /\ inbox' = [inbox EXCEPT ![ClientConn] = 0]
           /\ UNCHANGED <<client, fds, conn>>
  <2>1. 0 \in 0..MaxInbox
    BY BoundAssumption
  <2>2. inbox' \in [Ids -> 0..MaxInbox]
    <3> HIDE DEF ClientConn
    <3> DEFINE c == ClientConn
    <3>1. inbox' = [inbox EXCEPT ![c] = 0]
      BY <1>4
    <3> HIDE DEF c
    <3> QED
      BY <2>1, <3>1
  <2> QED
    BY <1>2, <1>4, <2>2
<1> QED
  BY <1>2, <1>3, <1>4 DEF ReadDashboard

\* Nobody else touches a descriptor; a connection that is held can only hang up.
LEMMA EnvironmentHeld == HeldInv /\ (Send \/ Environment) => HeldInv'
<1> SUFFICES ASSUME HeldInv, Send \/ Environment PROVE HeldInv'
  OBVIOUS
<1> USE DEF HeldInv, TypeOK, HeldRight, NoLeak, held, result, fc, phone, can
<1>1. CASE Send
  <2>1. {can_sock_good', can_bound'} \subseteq BOOLEAN
    BY <1>1 DEF Send, ConnectCan
  <2> QED
    BY <1>1, <2>1 DEF Send, Pc
<1>2. CASE PlugIn \/ Unplug
  <2>1. UNCHANGED <<pc, held, result, fds, phone, can, overlapped>>
    BY <1>2 DEF PlugIn, Unplug
  <2>2. plugs' \in 0..MaxPlugs /\ (plugged' => plugs' # 0)
    BY <1>2, BoundAssumption DEF PlugIn, Unplug
  <2>3. plugged' \in BOOLEAN
    BY <1>2, Zenon DEF PlugIn, Unplug
  <2> QED
    BY <2>1, <2>2, <2>3
<1>3. CASE CanAppears \/ CanRemoved
  <2>1. UNCHANGED <<pc, held, result, fds, fc, phone, can_sock_good, overlapped>>
    BY <1>3 DEF CanAppears, CanRemoved
  <2>2. {can_present', can_bound', can_lost'} \subseteq BOOLEAN
    BY <1>3 DEF CanAppears, CanRemoved
  <2> QED
    BY <2>1, <2>2
<1>4. ASSUME NEW i \in Ids, Call(i) \/ HangUp(i) PROVE HeldInv'
  <2>1. conn' \in [Ids -> {"none", "pending", "open", "hup", "closed"}]
    BY <1>4 DEF Call, HangUp
  <2>2. \A j \in Ids : conn[j] \in {"open", "hup"} => conn'[j] \in {"open", "hup"}
    BY <1>4 DEF Call, HangUp
  <2>3. UNCHANGED <<pc, held, result, fds, fc, inbox, can, overlapped>>
    BY <1>4 DEF Call, HangUp
  <2>4. client # -1 => fds[client].kind = "conn" /\ fds[client].id \in Ids
    BY DEF Objects, Ids, Free, Fc, Conn
  <2> QED
    BY <2>1, <2>2, <2>3, <2>4
<1>5. ASSUME NEW i \in Ids, SendCommand(i) PROVE HeldInv'
  <2>1. inbox' \in [Ids -> 0..MaxInbox]
    BY <1>5, BoundAssumption DEF SendCommand
  <2> QED
    BY <1>5, <2>1 DEF SendCommand
<1> QED
  BY <1>1, <1>2, <1>3, <1>4, <1>5 DEF Environment

LEMMA HeldInvariant == Spec => []HeldInv
<1>1. HeldInv /\ UNCHANGED vars => HeldInv'
  BY DEF HeldInv, TypeOK, HeldRight, NoLeak, vars, held, result, fc, phone, can
<1>2. HeldInv /\ [Next]_vars => HeldInv'
  BY <1>1, SelectHeld, ReadFCHeld, AcceptHeld, ReadDashboardHeld, EnvironmentHeld
     DEF Next, LoopStep
<1> QED
  BY <1>2, HeldInit, PTL DEF Spec

\* The descriptor tables have their types in every reachable state.
THEOREM SelectTypeCorrect == Spec => []TypeOK
<1>1. HeldInv => TypeOK
  BY DEF HeldInv
<1> QED
  BY <1>1, HeldInvariant, PTL

\* Bytes of the front controls, the kill switch among them, are never taken from
\* the phone's connection nor the other way round, however main.cpp's handlers
\* and the kernel's reuse of numbers fall together.
THEOREM NeverCrossed == Spec => []HeldRight
<1>1. HeldInv => HeldRight
  BY DEF HeldInv
<1> QED
  BY <1>1, HeldInvariant, PTL

\* The only way to lose a descriptor is EDL_Bluetooth::Accept() over a held one.
THEOREM OnlyAcceptLeaks == Spec => []NoLeak
<1>1. HeldInv => NoLeak
  BY DEF HeldInv
<1> QED
  BY <1>1, HeldInvariant, PTL
=============================================================================
