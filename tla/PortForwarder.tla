---------------------------- MODULE PortForwarder ----------------------------
(***************************************************************************)
(* One forwarded port: start_port_forwarder, its acceptor thread, the      *)
(* detached thread of each connection, the two copying threads of          *)
(* proxy_tcp, and Drop for PortForwarder, in src/src/firecracker.rs.       *)
(*                                                                         *)
(* A chunk is what one read of io::copy returns; chunks are counted, their *)
(* contents do not matter.  The clients and the guest are TCP peers whose  *)
(* orderly close is read as end of file after all they sent.               *)
(***************************************************************************)
EXTENDS Naturals, FiniteSets

CONSTANTS
    Conns,          \* connections clients may make
    MaxChunks,      \* bound: chunks either end of a connection sends
    AcceptErrors    \* whether accept may fail otherwise than WouldBlock

ASSUME ForwarderAssumption == MaxChunks \in Nat /\ AcceptErrors \in BOOLEAN

VARIABLES
    acceptor,   \* "check", "accept" or "done"; the thread owns the listener
    stop,       \* the AtomicBool shared with Drop
    owner,      \* the RunningVm's thread: "serving", "joining", "dropped"
    conn,       \* a connection: "none", "backlog", "connecting", "proxy", "closed"
    up, down,   \* the copying threads: client to guest, guest to client
    client,     \* the client's end: "open", "shut" (it will send no more), "closed"
    guest,      \* the guest's end: "none", "open", "closed", "vanished"
    sentUp, readUp,     \* chunks sent by the client, and read by up
    sentDown, readDown  \* chunks sent by the guest, and read by down

vars == <<acceptor, stop, owner, conn, up, down, client, guest,
          sentUp, readUp, sentDown, readDown>>
threadVars == <<up, down, readUp, readDown>>
peerVars   == <<client, guest, sentUp, sentDown>>

Init ==
    /\ acceptor = "check" /\ stop = FALSE /\ owner = "serving"
    /\ conn = [c \in Conns |-> "none"]
    /\ up = [c \in Conns |-> "none"] /\ down = [c \in Conns |-> "none"]
    /\ client = [c \in Conns |-> "open"] /\ guest = [c \in Conns |-> "none"]
    /\ sentUp = [c \in Conns |-> 0] /\ readUp = [c \in Conns |-> 0]
    /\ sentDown = [c \in Conns |-> 0] /\ readDown = [c \in Conns |-> 0]

-----------------------------------------------------------------------------
(* The acceptor thread and the owner. *)

\* Connections the listener still holds are reset when it is closed.
AcceptorEnds ==
    /\ acceptor' = "done"
    /\ conn' = [c \in Conns |-> IF conn[c] = "backlog" THEN "closed" ELSE conn[c]]

CheckStop ==
    /\ acceptor = "check"
    /\ IF stop THEN AcceptorEnds ELSE acceptor' = "accept" /\ UNCHANGED conn
    /\ UNCHANGED <<stop, owner, threadVars, peerVars>>

\* WouldBlock: sleep 5 ms and look at stop again.
NoClient == (\A c \in Conns : conn[c] # "backlog") /\ acceptor' = "check" /\ UNCHANGED conn

\* Any other error ends the thread.
Accept ==
    /\ acceptor = "accept"
    /\ \/ \E c \in Conns : /\ conn[c] = "backlog"
                           /\ conn' = [conn EXCEPT ![c] = "connecting"]
                           /\ acceptor' = "check"
       \/ NoClient
       \/ AcceptErrors /\ AcceptorEnds
    /\ UNCHANGED <<stop, owner, threadVars, peerVars>>

\* Mutant: the handle is joined and the flag is not set.
JoinWithoutStop ==
    /\ owner = "serving" /\ owner' = "joining"
    /\ UNCHANGED <<acceptor, stop, conn, threadVars, peerVars>>

\* Drop for PortForwarder.
SetStop ==
    /\ owner = "serving"
    /\ owner' = "joining" /\ stop' = TRUE
    /\ UNCHANGED <<acceptor, conn, threadVars, peerVars>>

\* Mutant: the handle is taken and not joined.
JoinNothing ==
    /\ owner = "joining"
    /\ owner' = "dropped"
    /\ UNCHANGED <<acceptor, stop, conn, threadVars, peerVars>>

Join ==
    /\ owner = "joining" /\ acceptor = "done"
    /\ owner' = "dropped"
    /\ UNCHANGED <<acceptor, stop, conn, threadVars, peerVars>>

-----------------------------------------------------------------------------
(* The thread of a connection. *)

\* connect_timeout of 50 ms; proxy_tcp gives up when a try_clone fails.  In
\* either case both sockets are dropped.
Connect(c) ==
    /\ conn[c] = "connecting"
    /\ \/ /\ conn' = [conn EXCEPT ![c] = "proxy"]
          /\ up' = [up EXCEPT ![c] = "copying"]
          /\ down' = [down EXCEPT ![c] = "copying"]
          /\ guest' = [guest EXCEPT ![c] = "open"]
       \/ conn' = [conn EXCEPT ![c] = "closed"] /\ UNCHANGED <<up, down, guest>>
    /\ UNCHANGED <<acceptor, stop, owner, readUp, readDown, client, sentUp, sentDown>>

\* Each copying thread owns one descriptor of either socket, the original or
\* the clone, and drops both when its copy ends: a socket is closed when both
\* threads have ended.  Mutant: when the first ends.
SocketsClosedEarly(u, d) == u = "done" \/ d = "done"

SocketsClosed(u, d) == u = "done" /\ d = "done"

EndCopies(c) ==
    conn' = [conn EXCEPT ![c] = IF SocketsClosed(up'[c], down'[c]) THEN "closed" ELSE @]

\* Whether read returns a chunk.  Mutant: an empty read is taken for one.
AvailableOrEmpty(sent, read) == read <= sent

Available(sent, read) == read < sent

\* A chunk read, and written to the other peer.  If that one has gone, the
\* write fails or its data is lost.
CopyUp(c) ==
    /\ conn[c] = "proxy" /\ up[c] = "copying"
    /\ \/ /\ Available(sentUp[c], readUp[c])
          /\ readUp' = [readUp EXCEPT ![c] = @ + 1]
          /\ up' = up \/ (guest[c] # "open" /\ up' = [up EXCEPT ![c] = "done"])
       \/ /\ client[c] # "open" /\ (readUp[c] = sentUp[c] \/ client[c] = "closed")
          /\ up' = [up EXCEPT ![c] = "done"] /\ UNCHANGED readUp
    /\ UNCHANGED <<acceptor, stop, owner, down, readDown, peerVars>>
    /\ EndCopies(c)

CopyDown(c) ==
    /\ conn[c] = "proxy" /\ down[c] = "copying"
    /\ \/ /\ Available(sentDown[c], readDown[c])
          /\ readDown' = [readDown EXCEPT ![c] = @ + 1]
          /\ down' = down \/ (client[c] = "closed" /\ down' = [down EXCEPT ![c] = "done"])
       \/ /\ guest[c] = "closed" /\ readDown[c] = sentDown[c]
          /\ down' = [down EXCEPT ![c] = "done"] /\ UNCHANGED readDown
    /\ UNCHANGED <<acceptor, stop, owner, up, readUp, peerVars>>
    /\ EndCopies(c)

-----------------------------------------------------------------------------
(* The peers. *)

ClientConnects(c) ==
    /\ conn[c] = "none" /\ acceptor # "done"
    /\ conn' = [conn EXCEPT ![c] = "backlog"]
    /\ UNCHANGED <<acceptor, stop, owner, threadVars, peerVars>>

ClientActs(c) ==
    /\ conn[c] \notin {"none", "closed"}
    /\ \/ /\ client[c] = "open" /\ sentUp[c] < MaxChunks
          /\ sentUp' = [sentUp EXCEPT ![c] = @ + 1] /\ UNCHANGED client
       \/ client[c] = "open" /\ client' = [client EXCEPT ![c] = "shut"] /\ UNCHANGED sentUp
       \/ client[c] # "closed" /\ client' = [client EXCEPT ![c] = "closed"] /\ UNCHANGED sentUp
    /\ UNCHANGED <<acceptor, stop, owner, conn, threadVars, guest, sentDown>>

GuestActs(c) ==
    /\ guest[c] = "open" /\ conn[c] = "proxy"
    /\ \/ /\ sentDown[c] < MaxChunks
          /\ sentDown' = [sentDown EXCEPT ![c] = @ + 1] /\ UNCHANGED guest
       \/ guest' = [guest EXCEPT ![c] = "closed"] /\ UNCHANGED sentDown
    /\ UNCHANGED <<acceptor, stop, owner, conn, threadVars, client, sentUp>>

\* The VM is killed: its ends of the connections fall silent without a close.
GuestVanishes ==
    /\ owner = "serving" /\ \E c \in Conns : guest[c] = "open"
    /\ guest' = [c \in Conns |-> IF guest[c] = "open" THEN "vanished" ELSE guest[c]]
    /\ UNCHANGED <<acceptor, stop, owner, conn, threadVars, client, sentUp, sentDown>>

Dropped == owner = "dropped" /\ UNCHANGED vars

Next ==
    \/ CheckStop \/ Accept \/ SetStop \/ Join \/ GuestVanishes \/ Dropped
    \/ \E c \in Conns : \/ Connect(c) \/ CopyUp(c) \/ CopyDown(c)
                        \/ ClientConnects(c) \/ ClientActs(c) \/ GuestActs(c)

Spec == Init /\ [][Next]_vars

\* The threads run; nothing is asked of the peers or of the owner's SetStop.
FairSpec ==
    /\ Spec /\ WF_vars(CheckStop) /\ WF_vars(Accept) /\ WF_vars(Join)
    /\ \A c \in Conns : WF_vars(Connect(c)) /\ WF_vars(CopyUp(c)) /\ WF_vars(CopyDown(c))

-----------------------------------------------------------------------------
\* Every variable stays in its type.
TypeOK ==
    /\ acceptor \in {"check", "accept", "done"} /\ stop \in BOOLEAN
    /\ owner \in {"serving", "joining", "dropped"}
    /\ conn \in [Conns -> {"none", "backlog", "connecting", "proxy", "closed"}]
    /\ up \in [Conns -> {"none", "copying", "done"}]
    /\ down \in [Conns -> {"none", "copying", "done"}]
    /\ client \in [Conns -> {"open", "shut", "closed"}]
    /\ guest \in [Conns -> {"none", "open", "closed", "vanished"}]
    /\ \A f \in {sentUp, readUp, sentDown, readDown} : f \in [Conns -> 0 .. MaxChunks]

\* Once the forwarder is dropped its listener is closed and no thread can take
\* a connection: the next VM of the command can bind the port again.
DroppedIsClosed ==
    owner = "dropped" => acceptor = "done" /\ \A c \in Conns : conn[c] # "backlog"

\* A client that sees the end of its connection, and did not end it, has been
\* given all that the guest sent: neither copying thread ends the other's work.
NothingIsCutOff ==
    \A c \in Conns : conn[c] = "closed" /\ guest[c] = "closed" /\ client[c] # "closed"
                       => readDown[c] = sentDown[c]

\* Dropping a forwarder takes a bounded number of its steps, whatever its
\* connections do: the owner does not wait for them.
DropEnds == owner = "joining" ~> owner = "dropped"

\* A connection that was taken is proxied or closed; one whose two peers have
\* closed does not keep its threads.
ConnectionsEnd ==
    /\ \A c \in Conns : conn[c] = "connecting" ~> conn[c] \in {"proxy", "closed"}
    /\ \A c \in Conns : client[c] = "closed" /\ guest[c] = "closed" ~> conn[c] = "closed"

\* No thread of the forwarder outlives what it is for.
ThreadsEnd == DropEnds /\ ConnectionsEnd
=============================================================================
