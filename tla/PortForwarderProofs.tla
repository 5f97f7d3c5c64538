-------------------------- MODULE PortForwarderProofs --------------------------
(***************************************************************************)
(* The safety of one forwarded port, for any number of connections, chunks *)
(* and kinds of failure of accept.                                         *)
(*                                                                         *)
(* NothingIsCutOff speaks of closed connections.  What makes it inductive  *)
(* is why the thread that copies to the client ended: the client had gone, *)
(* or the guest had closed and all it sent had been read (CopyInv); and    *)
(* that a connection which reached the guest is closed by the ends of its  *)
(* copying threads alone.                                                  *)
(***************************************************************************)
EXTENDS PortForwarder, TLAPS

\* The listener is gone with its thread, and with the owner's join its thread.
ListenerInv ==
    /\ owner = "dropped" => acceptor = "done"
    /\ acceptor = "done" => \A c \in Conns : conn[c] # "backlog"

CopyInv ==
    \A c \in Conns :
      /\ conn[c] \in {"none", "backlog", "connecting"} => guest[c] = "none" /\ down[c] = "none"
      /\ conn[c] = "closed" /\ guest[c] = "closed" => down[c] = "done"
      /\ down[c] = "done" => \/ client[c] = "closed"
                             \/ guest[c] = "closed" /\ readDown[c] = sentDown[c]

ForwarderInv == TypeOK /\ ListenerInv /\ CopyInv

-----------------------------------------------------------------------------
\* A step of the acceptor's thread.
LEMMA AcceptorSteps ==
    ASSUME ForwarderInv, CheckStop \/ Accept
    PROVE  ForwarderInv'
  <1> USE DEF ForwarderInv, TypeOK, ListenerInv, CopyInv
  <1>1. UNCHANGED <<stop, owner, up, down, readUp, readDown, client, guest, sentUp, sentDown>>
    BY DEF CheckStop, Accept, threadVars, peerVars
  <1>2. CASE AcceptorEnds /\ acceptor # "done"
    BY <1>1, <1>2 DEF AcceptorEnds
  <1>3. CASE UNCHANGED conn /\ acceptor' \in {"check", "accept"} /\ acceptor # "done"
    BY <1>1, <1>3
  <1>4. ASSUME NEW c \in Conns, conn[c] = "backlog", acceptor = "accept",
               conn' = [conn EXCEPT ![c] = "connecting"], acceptor' = "check"
        PROVE  ForwarderInv'
    BY <1>1, <1>4
  <1> QED BY <1>2, <1>3, <1>4 DEF CheckStop, Accept, NoClient

\* A step of the owner, or the end of the VM, touches no connection.
LEMMA OwnerSteps ==
    ASSUME ForwarderInv, SetStop \/ Join \/ GuestVanishes \/ UNCHANGED vars
    PROVE  ForwarderInv'
  <1> USE DEF ForwarderInv, TypeOK, ListenerInv, CopyInv
  <1>1. CASE SetStop         BY <1>1 DEF SetStop, threadVars, peerVars
  <1>2. CASE Join            BY <1>2 DEF Join, threadVars, peerVars
  <1>3. CASE GuestVanishes   BY <1>3 DEF GuestVanishes, threadVars
  <1>4. CASE UNCHANGED vars  BY <1>4 DEF vars
  <1> QED BY <1>1, <1>2, <1>3, <1>4

\* A connection to the guest is made, or given up.
LEMMA ConnectStep ==
    ASSUME ForwarderInv, NEW c \in Conns, Connect(c)
    PROVE  ForwarderInv'
  BY DEF ForwarderInv, TypeOK, ListenerInv, CopyInv, Connect

\* A chunk to the guest, or the end of the copying.
LEMMA CopyUpStep ==
    ASSUME ForwarderInv, NEW c \in Conns, CopyUp(c)
    PROVE  ForwarderInv'
  BY ForwarderAssumption
     DEF ForwarderInv, TypeOK, ListenerInv, CopyInv, CopyUp, EndCopies, SocketsClosed,
         Available, peerVars, ForwarderAssumption

\* A chunk to the client, or the end of the copying.
LEMMA CopyDownStep ==
    ASSUME ForwarderInv, NEW c \in Conns, CopyDown(c)
    PROVE  ForwarderInv'
  BY ForwarderAssumption
     DEF ForwarderInv, TypeOK, ListenerInv, CopyInv, CopyDown, EndCopies, SocketsClosed,
         Available, peerVars, ForwarderAssumption

\* A step of one of the two peers.
LEMMA PeerSteps ==
    ASSUME ForwarderInv, NEW c \in Conns, ClientConnects(c) \/ ClientActs(c) \/ GuestActs(c)
    PROVE  ForwarderInv'
  <1> USE ForwarderAssumption DEF ForwarderInv, TypeOK, ListenerInv, CopyInv, ForwarderAssumption
  <1>1. CASE ClientConnects(c)  BY <1>1 DEF ClientConnects, threadVars, peerVars
  <1>2. CASE ClientActs(c)      BY <1>2 DEF ClientActs, threadVars
  <1>3. CASE GuestActs(c)       BY <1>3 DEF GuestActs, threadVars
  <1> QED BY <1>1, <1>2, <1>3

-----------------------------------------------------------------------------
\* Every variable of the forwarder stays in its type, the listener goes with its
\* thread, and a copying thread ends only for one of two reasons.
THEOREM ForwarderInvariance == Spec => []ForwarderInv
  <1>1. Init => ForwarderInv
    <2> SUFFICES ASSUME Init PROVE ForwarderInv
      OBVIOUS
    <2>1. 0 \in 0 .. MaxChunks
      BY ForwarderAssumption DEF ForwarderAssumption
    <2>2. TypeOK
      BY <2>1 DEF Init, TypeOK
    <2>3. ListenerInv /\ CopyInv
      BY DEF Init, ListenerInv, CopyInv
    <2> QED BY <2>2, <2>3 DEF ForwarderInv
  <1>2. ForwarderInv /\ [Next]_vars => ForwarderInv'
    BY AcceptorSteps, OwnerSteps, ConnectStep, CopyUpStep, CopyDownStep, PeerSteps
       DEF Next, Dropped
  <1> QED BY <1>1, <1>2, PTL DEF Spec

\* Every variable stays in its type: no thread counts past what was sent.
THEOREM ForwarderTypeCorrect == Spec => []TypeOK
  <1>1. ForwarderInv => TypeOK
    BY DEF ForwarderInv
  <1> QED BY <1>1, ForwarderInvariance, PTL

\* When Drop for PortForwarder has returned, its listener is closed and no thread
\* takes a connection: the port can be bound again.
THEOREM DropClosesListener == Spec => []DroppedIsClosed
  <1>1. ForwarderInv => DroppedIsClosed
    BY DEF ForwarderInv, ListenerInv, DroppedIsClosed
  <1> QED BY <1>1, ForwarderInvariance, PTL

\* proxy_tcp closes no connection on a client that has not been given everything
\* its guest sent before it closed.
THEOREM ClientGetsAll == Spec => []NothingIsCutOff
  <1>1. ForwarderInv => NothingIsCutOff
    BY DEF ForwarderInv, CopyInv, NothingIsCutOff
  <1> QED BY <1>1, ForwarderInvariance, PTL
================================================================================
