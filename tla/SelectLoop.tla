--------------------------- MODULE SelectLoop ---------------------------
(***************************************************************************)
(* How the main loop keeps its devices: the front controls' serial port,   *)
(* which may be unplugged and plugged in again, the dashboard's Bluetooth  *)
(* connection, and the CAN socket.  One pass asks select() which           *)
(* descriptors are readable and then runs the handlers in a fixed order;   *)
(* a handler may close its descriptor, and the kernel hands out the lowest *)
(* free number to the next one that opens.                                 *)
(*                                                                         *)
(* reported, overlapped and can_lost are history variables.                *)
(***************************************************************************)
EXTENDS Integers, FiniteSets

CONSTANTS
    Fds,          \* descriptor numbers left to the devices
    MaxConns,     \* bound: dashboard connections over the whole run
    MaxPlugs,     \* bound: times the front controls are plugged in
    MaxInbox      \* bound: commands waiting in a connection

ASSUME FdAssumption == Fds \subseteq Nat \ {0} /\ IsFiniteSet(Fds) /\ Fds # {}
ASSUME BoundAssumption ==
    MaxConns \in Nat /\ MaxPlugs \in Nat /\ MaxInbox \in Nat

Free    == [kind |-> "free", id |-> 0]
Fc(i)   == [kind |-> "fc", id |-> i]
Conn(i) == [kind |-> "conn", id |-> i]
Objects == {Free} \cup {Fc(i) : i \in 1..MaxPlugs} \cup {Conn(i) : i \in 1..MaxConns}
Pc      == {"select", "fc", "accept", "read", "send"}

VARIABLES
    pc,                  \* next step of the pass
    fd_front_controls,   \* -1 or the port's descriptor
    client,              \* -1 or the connection's descriptor
    readset,             \* descriptors select() left set
    listener_ready,      \* the listening socket was left set
    can_sock_good,       \* the CAN socket is believed to be bound
    fds,                 \* the kernel's table: descriptor -> object
    plugs, plugged,      \* how often the front controls were plugged in; they are now
    conn,                \* connection -> "none", "pending", "open", "hup", "closed"
    inbox,               \* connection -> commands sent and not read
    can_present,         \* the CAN interface exists
    can_bound,           \* the kernel has the socket bound to it
    reported,            \* objects select() reported in this pass
    overlapped,          \* a connection was accepted over one still held
    can_lost             \* the interface was removed at some time

fc     == <<plugs, plugged>>
phone  == <<conn, inbox>>
can    == <<can_sock_good, can_present, can_bound, can_lost>>
result == <<readset, listener_ready, reported>>
held   == <<fd_front_controls, client>>
vars   == <<pc, held, result, fds, fc, phone, can, overlapped>>

Ids == 1..MaxConns

Init ==
    /\ pc = "select"
    /\ fd_front_controls = -1 /\ client = -1
    /\ readset = {} /\ listener_ready = FALSE /\ reported = {}
    /\ fds = [f \in Fds |-> Free]
    /\ plugs = 0 /\ plugged = FALSE
    /\ conn = [i \in Ids |-> "none"] /\ inbox = [i \in Ids |-> 0]
    /\ can_sock_good = FALSE /\ can_present = FALSE /\ can_bound = FALSE
    /\ can_lost = FALSE
    /\ overlapped = FALSE
----------------------------------------------------------------------------
(* The kernel.                                                             *)

FreeFds  == {f \in Fds : fds[f] = Free}
LowestFd == CHOOSE f \in FreeFds : \A g \in FreeFds : f <= g

LiveFc(obj) == plugged /\ obj = Fc(plugs)

\* A port whose device is gone and a connection that hung up read as 0 bytes,
\* so select() reports both; a live port may or may not have bytes waiting.
MustReport(f) ==
    \/ fds[f].kind = "fc" /\ ~LiveFc(fds[f])
    \/ fds[f].kind = "conn" /\ (inbox[fds[f].id] > 0 \/ conn[fds[f].id] = "hup")
MayReport(f) == MustReport(f) \/ LiveFc(fds[f])

Pending == {i \in Ids : conn[i] = "pending"}
----------------------------------------------------------------------------
(* Building the read set and select().                                     *)

\* Mutants: the port, or the dashboard, is left out once both are there.
AskedOneOnly == IF fd_front_controls > 0 THEN {fd_front_controls} ELSE {client} \ {-1}

Asked == {fd_front_controls, client} \ {-1}

\* Mutant: a port is opened once.
OpenFcOnce ==
    IF plugged /\ plugs = 1 /\ fd_front_controls = -1 /\ FreeFds # {}
    THEN /\ fd_front_controls' = LowestFd
         /\ fds' = [fds EXCEPT ![LowestFd] = Fc(plugs)]
    ELSE UNCHANGED <<fd_front_controls, fds>>

\* Without a descriptor, try to open the port; it is polled from the next pass on.
OpenFc ==
    IF fd_front_controls = -1 /\ plugged /\ FreeFds # {}
    THEN /\ fd_front_controls' = LowestFd
         /\ fds' = [fds EXCEPT ![LowestFd] = Fc(plugs)]
    ELSE UNCHANGED <<fd_front_controls, fds>>

\* Mutant: a failed first attempt counts as connected.
ConnectCanOnce ==
    /\ can_sock_good' = TRUE
    /\ can_bound' = (can_bound \/ (~can_sock_good /\ can_present))

\* can_sock_connect(), retried while can_sock_good is false.
ConnectCan ==
    IF ~can_sock_good /\ can_present
    THEN can_sock_good' = TRUE /\ can_bound' = TRUE
    ELSE UNCHANGED <<can_sock_good, can_bound>>

\* select() returns with something to read, or times out with nothing.
Select ==
    /\ pc = "select"
    /\ OpenFc /\ ConnectCan
    /\ \E ready \in SUBSET Asked :
          /\ \A f \in ready : MayReport(f)
          /\ \A f \in Asked : MustReport(f) => f \in ready
          /\ readset' = ready
          /\ reported' = {fds[f] : f \in ready}
          /\ listener_ready' = (Pending # {})
          /\ pc' = IF ready = {} /\ Pending = {} THEN "send" ELSE "fc"
    /\ UNCHANGED <<client, fc, phone, can_present, can_lost, overlapped>>

\* A signal interrupts select(): the handlers are skipped.
SelectInterrupted ==
    /\ pc = "select"
    /\ OpenFc /\ ConnectCan
    /\ pc' = "send"
    /\ UNCHANGED <<client, result, fc, phone, can_present, can_lost, overlapped>>
----------------------------------------------------------------------------
(* The handlers, in the order of the code.                                 *)

\* Mutants: the closed port's number is kept; it is dropped, not closed.
CloseFcKeepsNumber ==
    /\ fds' = [fds EXCEPT ![fd_front_controls] = Free]
    /\ UNCHANGED fd_front_controls
CloseFcForgets == fd_front_controls' = -1 /\ UNCHANGED fds

CloseFc ==
    /\ fds' = [fds EXCEPT ![fd_front_controls] = Free]
    /\ fd_front_controls' = -1

\* readFC(): 0 bytes close the port, anything else leaves it open.
ReadFC ==
    /\ pc = "fc" /\ pc' = "accept"
    /\ IF fd_front_controls \in readset /\ ~LiveFc(fds[fd_front_controls])
       THEN CloseFc
       ELSE UNCHANGED <<fd_front_controls, fds>>
    /\ UNCHANGED <<client, result, fc, phone, can, overlapped>>

\* Accept(): the new descriptor replaces the old one, which is not closed; -1
\* when the caller has gone again or no descriptor is left.
Accept ==
    /\ pc = "accept" /\ pc' = "read"
    /\ IF ~listener_ready
       THEN UNCHANGED <<client, fds, conn, overlapped>>
       ELSE /\ overlapped' = (overlapped \/ client # -1)
            /\ IF Pending = {} \/ FreeFds = {}
               THEN client' = -1 /\ UNCHANGED <<fds, conn>>
               ELSE \E i \in Pending :
                      /\ client' = LowestFd
                      /\ fds' = [fds EXCEPT ![LowestFd] = Conn(i)]
                      /\ conn' = [conn EXCEPT ![i] = "open"]
    /\ UNCHANGED <<fd_front_controls, result, fc, inbox, can>>

ClientConn == fds[client].id

\* Mutant: only an error closes the connection, not the end of it.
CloseClientOnError ==
    IF conn[ClientConn] = "hup"
    THEN UNCHANGED <<fds, client, conn>>
    ELSE /\ fds' = [fds EXCEPT ![client] = Free]
         /\ client' = -1
         /\ conn' = [conn EXCEPT ![ClientConn] = "closed"]

CloseClient ==
    /\ fds' = [fds EXCEPT ![client] = Free]
    /\ client' = -1
    /\ conn' = [conn EXCEPT ![ClientConn] = "closed"]

\* Read() takes everything that has arrived; 0 bytes and EAGAIN alike close the
\* connection.  readset is not looked at again in this pass.
ReadDashboard ==
    /\ pc = "read" /\ pc' = "send"
    /\ IF client \notin readset
       THEN UNCHANGED <<client, fds, conn, inbox>>
       ELSE IF inbox[ClientConn] > 0
            THEN /\ inbox' = [inbox EXCEPT ![ClientConn] = 0]
                 /\ UNCHANGED <<client, fds, conn>>
            ELSE CloseClient /\ UNCHANGED inbox
    /\ readset' = {} /\ listener_ready' = FALSE /\ reported' = {}
    /\ UNCHANGED <<fd_front_controls, fc, can, overlapped>>

\* The write phase changes no descriptor; it tries the CAN interface once more.
Send ==
    /\ pc = "send" /\ pc' = "select"
    /\ ConnectCan
    /\ UNCHANGED <<held, result, fds, fc, phone, can_present, can_lost, overlapped>>
----------------------------------------------------------------------------
(* The environment.                                                        *)

PlugIn ==
    /\ ~plugged /\ plugs < MaxPlugs
    /\ plugged' = TRUE /\ plugs' = plugs + 1
    /\ UNCHANGED <<pc, held, result, fds, phone, can, overlapped>>

Unplug ==
    /\ plugged
    /\ plugged' = FALSE
    /\ UNCHANGED <<pc, held, result, fds, plugs, phone, can, overlapped>>

\* listen(s, 1): one caller waits at a time.
Call(i) ==
    /\ conn[i] = "none" /\ Pending = {}
    /\ conn' = [conn EXCEPT ![i] = "pending"]
    /\ UNCHANGED <<pc, held, result, fds, fc, inbox, can, overlapped>>

\* The phone goes away: before it was accepted, or after.
HangUp(i) ==
    /\ conn[i] \in {"pending", "open"}
    /\ conn' = [conn EXCEPT ![i] = IF @ = "pending" THEN "closed" ELSE "hup"]
    /\ UNCHANGED <<pc, held, result, fds, fc, inbox, can, overlapped>>

SendCommand(i) ==
    /\ conn[i] \in {"pending", "open"} /\ inbox[i] < MaxInbox
    /\ inbox' = [inbox EXCEPT ![i] = @ + 1]
    /\ UNCHANGED <<pc, held, result, fds, fc, conn, can, overlapped>>

CanAppears ==
    /\ ~can_present
    /\ can_present' = TRUE
    /\ UNCHANGED <<pc, held, result, fds, fc, phone, can_sock_good, can_bound,
                   can_lost, overlapped>>

\* The interface is removed: the kernel unbinds the socket.
CanRemoved ==
    /\ can_present
    /\ can_present' = FALSE /\ can_bound' = FALSE /\ can_lost' = TRUE
    /\ UNCHANGED <<pc, held, result, fds, fc, phone, can_sock_good, overlapped>>

LoopStep ==
    Select \/ SelectInterrupted \/ ReadFC \/ Accept \/ ReadDashboard \/ Send

Environment ==
    \/ PlugIn \/ Unplug \/ CanAppears \/ CanRemoved
    \/ \E i \in Ids : Call(i) \/ HangUp(i) \/ SendCommand(i)

Next == LoopStep \/ Environment

Spec == Init /\ [][Next]_vars

\* The only thread is scheduled, and signals do not interrupt every select().
FairSpec == Spec /\ WF_vars(LoopStep) /\ SF_vars(Select)
----------------------------------------------------------------------------
(* Properties.                                                             *)

TypeOK ==
    /\ pc \in Pc
    /\ fd_front_controls \in Fds \cup {-1} /\ client \in Fds \cup {-1}
    /\ readset \subseteq Fds /\ reported \subseteq Objects
    /\ listener_ready \in BOOLEAN /\ overlapped \in BOOLEAN
    /\ fds \in [Fds -> Objects]
    /\ plugs \in 0..MaxPlugs /\ plugged \in BOOLEAN
    /\ conn \in [Ids -> {"none", "pending", "open", "hup", "closed"}]
    /\ inbox \in [Ids -> 0..MaxInbox]
    /\ {can_sock_good, can_present, can_bound, can_lost} \subseteq BOOLEAN

\* However the kernel reuses numbers, a descriptor the program believes to be
\* the front controls' or the dashboard's is that device's: no frame of one is
\* ever read or written as the other's.
HeldRight ==
    /\ fd_front_controls # -1 => fds[fd_front_controls].kind = "fc"
    /\ client # -1 => fds[client].kind = "conn" /\ conn[fds[client].id] \in {"open", "hup"}

\* As long as no phone connects while another's connection is still held, every
\* open descriptor is one the program knows of, and will close.
NoLeak ==
    ~overlapped => \A f \in Fds : fds[f] # Free => f \in {fd_front_controls, client}

\* dashboard.Read() only runs on a connection that select() reported.
DashboardReadWasReported ==
    pc = "read" /\ client \in readset => fds[client] \in reported

\* No number is free, and one belongs to a connection that was accepted over.
LeakFillsTable ==
    FreeFds = {} /\ \E f \in Fds \ {client} : fds[f].kind = "conn"

\* Front controls that stay plugged in end up connected, whatever was unplugged and
\* accepted before.  The one thing that keeps them out is a table without a free
\* number, with a leaked connection in it: open() then fails in every pass.
FcReconnects ==
    <>[]plugged =>
        <>[](\/ fd_front_controls # -1 /\ fds[fd_front_controls] = Fc(plugs)
             \/ LeakFillsTable)

\* A connection that has hung up does not stay the dashboard's client.
HangUpNoticed ==
    \A i \in Ids :
        (client # -1 /\ fds[client] = Conn(i) /\ conn[i] = "hup")
            ~> (client = -1 \/ fds[client] # Conn(i))

\* A command sent over the held connection is read, unless the program drops or
\* replaces the connection first.
CommandRead ==
    \A i \in Ids :
        (client # -1 /\ fds[client] = Conn(i) /\ inbox[i] > 0)
            ~> (inbox[i] = 0 \/ client = -1 \/ fds[client] # Conn(i))

\* A CAN interface that appears and stays is connected, however late.
CanConnects == <>[](can_present /\ ~can_lost) => <>[]can_bound

\* ... and so is one that was removed and came back.
CanReconnects == <>[]can_present => <>[]can_bound
=============================================================================
