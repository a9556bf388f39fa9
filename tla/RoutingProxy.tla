---------------------------- MODULE RoutingProxy ----------------------------
(***************************************************************************)
(* The routing proxy: routing::run's accept loop, one handler task per      *)
(* client connection, ocproxy in front of the tunnel, and the clients and   *)
(* destinations at the two ends.                                            *)
(*                                                                         *)
(* A handler's `stage` is the await it is parked at.  Handlers are detached *)
(* tasks: the accept loop never waits for one.  Data is counted in chunks   *)
(* that follow the client's request, or the destination's acceptance.       *)
(***************************************************************************)
EXTENDS Integers

CONSTANTS
  Conn,       \* client connections
  Target,     \* destinations
  VpnTarget,  \* those that route_for sends upstream (DomainRouting)
  NoTarget,
  MaxData     \* bound on the chunks that one side sends

ASSUME TargetAssumption == VpnTarget \subseteq Target /\ NoTarget \notin Target
ASSUME DataAssumption == MaxData \in Nat

VARIABLES
  listener,  \* binding, open or closed
  stop,      \* the shutdown token
  ocproxy,   \* ocproxy listens on the SOCKS port
  conn       \* state of each connection

vars == <<listener, stop, ocproxy, conn>>

Dir == {"up", "down"}  \* client to destination and back

Fresh == [ stage     |-> "none",
           proto     |-> "none",   \* socks or http
           target    |-> NoTarget,
           client    |-> "open",   \* open, halfclosed or gone
           peer      |-> "none",   \* the outbound socket's other end
           reached   |-> {},       \* ways on which the target's name went out
           confirmed |-> "none",   \* the way on which it was connected
           answer    |-> "none",   \* what the client was told: ok or error
           sent      |-> [d \in Dir |-> 0],
           unread    |-> [d \in Dir |-> 0],
           delivered |-> [d \in Dir |-> 0] ]

RouteOf(t) == IF t \in VpnTarget THEN "tunnel" ELSE "direct"

-----------------------------------------------------------------------------
(* How a handler ends: its sockets are dropped, what they held is lost.     *)
Closes(c, answer) ==
  conn' = [conn EXCEPT ![c].stage = "closed", ![c].answer = answer,
                       ![c].peer = "none"]
Refuses(c) == Closes(c, "error")
Drops(c) == Closes(c, conn[c].answer)

Quiet == UNCHANGED <<listener, stop, ocproxy>>

-----------------------------------------------------------------------------
(* The accept loop.                                                         *)
Bind ==
  /\ listener = "binding" /\ listener' \in {"open", "closed"}
  /\ UNCHANGED <<stop, ocproxy, conn>>

(* The select is biased: a cancelled token wins over a waiting connection.  *)
Accept(c) ==
  /\ listener = "open" /\ ~stop /\ conn[c].stage = "backlog"
  /\ conn' = [conn EXCEPT ![c].stage = "peek"]
  /\ Quiet

(* Mutant of ListenerCloses: run joins its connections first. *)
ListenerDrains ==
  /\ listener = "open" /\ stop /\ listener' = "closed"
  /\ \A c \in Conn : conn[c].stage \in {"none", "backlog", "closed"}
  /\ conn' = [c \in Conn |->
                IF conn[c].stage = "backlog"
                  THEN [conn[c] EXCEPT !.stage = "closed"] ELSE conn[c]]
  /\ UNCHANGED <<stop, ocproxy>>

(* run returns; the kernel resets what was not accepted yet.                *)
ListenerCloses ==
  /\ listener = "open" /\ stop /\ listener' = "closed"
  /\ conn' = [c \in Conn |->
                IF conn[c].stage = "backlog"
                  THEN [conn[c] EXCEPT !.stage = "closed"] ELSE conn[c]]
  /\ UNCHANGED <<stop, ocproxy>>

-----------------------------------------------------------------------------
(* The handshake with the client.                                           *)
ReadsClient == {"peek", "greeting", "request", "head"}

(* The first byte tells the protocol.                                       *)
Peek(c) ==
  /\ conn[c].stage = "peek"
  /\ \/ conn' = [conn EXCEPT ![c].stage = "greeting", ![c].proto = "socks"]
     \/ conn' = [conn EXCEPT ![c].stage = "head", ![c].proto = "http"]
     \/ Drops(c)
  /\ Quiet

(* AUTH_NONE is offered, or nothing acceptable is.                          *)
Greeting(c) ==
  /\ conn[c].stage = "greeting"
  /\ \/ conn' = [conn EXCEPT ![c].stage = "request"]
     \/ Refuses(c)
  /\ Quiet

(* Mutant of Request: a buffered reader takes what follows the request. *)
RequestReadsAhead(c) ==
  /\ conn[c].stage \in {"request", "head"}
  /\ \/ \E t \in Target :
          conn' = [conn EXCEPT ![c].stage = "dial", ![c].target = t,
                               ![c].unread["up"] = 0]
     \/ Refuses(c)
     \/ Drops(c)
  /\ Quiet

(* A complete request, read to its last byte and no further; or one that is
   refused, or (a name that is no UTF-8) dropped.                           *)
Request(c) ==
  /\ conn[c].stage \in {"request", "head"}
  /\ \/ \E t \in Target :
          conn' = [conn EXCEPT ![c].stage = "dial", ![c].target = t]
     \/ Refuses(c)
     \/ conn[c].proto = "socks" /\ Drops(c)
  /\ Quiet

(* The client closed before its request was complete.                       *)
RequestEnds(c) ==
  /\ conn[c].stage \in ReadsClient /\ conn[c].client # "open"
  /\ Drops(c)
  /\ Quiet
-----------------------------------------------------------------------------
(* Towards the destination.                                                 *)
DialDirect(c) ==
  /\ conn[c].stage = "dial" /\ RouteOf(conn[c].target) = "direct"
  /\ \/ conn' = [conn EXCEPT ![c].stage = "answer", ![c].peer = "open",
                             ![c].reached = @ \cup {"direct"},
                             ![c].confirmed = "direct"]
     \/ conn' = [conn EXCEPT ![c].stage = "closed", ![c].answer = "error",
                             ![c].reached = @ \cup {"direct"}]
  /\ Quiet

DialTunnel(c) ==
  /\ conn[c].stage = "dial" /\ RouteOf(conn[c].target) = "tunnel"
  /\ IF ocproxy
       THEN conn' = [conn EXCEPT ![c].stage = "upgreet", ![c].peer = "open"]
       ELSE Refuses(c)
  /\ Quiet

(* Mutant of UpstreamGreeting: success is reported before the connection is. *)
GreetingIsSuccess(c) ==
  /\ conn[c].stage = "upgreet" /\ conn[c].peer = "open"
  /\ conn' = [conn EXCEPT ![c].stage = "answer", ![c].reached = @ \cup {"tunnel"}]
  /\ Quiet

(* ocproxy's answer to the greeting; then the request with the name.        *)
UpstreamGreeting(c) ==
  /\ conn[c].stage = "upgreet" /\ conn[c].peer = "open"
  /\ \/ conn' = [conn EXCEPT ![c].stage = "upreply",
                             ![c].reached = @ \cup {"tunnel"}]
     \/ Refuses(c)
  /\ Quiet

UpstreamReply(c) ==
  /\ conn[c].stage = "upreply" /\ conn[c].peer = "open"
  /\ \/ conn' = [conn EXCEPT ![c].stage = "answer", ![c].confirmed = "tunnel"]
     \/ Refuses(c)
  /\ Quiet

(* Mutant of UpstreamLost: the name is tried without the tunnel. *)
UpstreamFallsBack(c) ==
  /\ conn[c].stage \in {"upgreet", "upreply"} /\ conn[c].peer = "gone"
  /\ conn' = [conn EXCEPT ![c].stage = "answer", ![c].peer = "open",
                          ![c].reached = @ \cup {"direct"},
                          ![c].confirmed = "direct"]
  /\ Quiet

(* Mutant of UpstreamLost: `?` without a reply. *)
UpstreamLostSilently(c) ==
  /\ conn[c].stage \in {"upgreet", "upreply"} /\ conn[c].peer = "gone"
  /\ Drops(c)
  /\ Quiet

(* ocproxy died in the middle of its handshake.                             *)
UpstreamLost(c) ==
  /\ conn[c].stage \in {"upgreet", "upreply"} /\ conn[c].peer = "gone"
  /\ Refuses(c)
  /\ Quiet

(* The success reply, in the client's protocol.  Writing it fails only when
   the client is gone, and may succeed even then.                           *)
Answer(c) ==
  /\ conn[c].stage = "answer"
  /\ \/ conn' = [conn EXCEPT ![c].stage = "relay", ![c].answer = "ok"]
     \/ conn[c].client = "gone" /\ Drops(c)
  /\ Quiet

-----------------------------------------------------------------------------
(* The relay.                                                               *)
Source(c, d) == IF d = "up" THEN conn[c].client ELSE conn[c].peer
Sink(c, d) == IF d = "up" THEN conn[c].peer ELSE conn[c].client

(* Mutant of Copy: what was written is not consumed. *)
CopyRepeats(c, d) ==
  /\ conn[c].stage = "relay" /\ conn[c].unread[d] > 0
  /\ Sink(c, d) # "gone"
  /\ conn' = [conn EXCEPT ![c].delivered[d] = @ + 1]
  /\ Quiet

(* A chunk is copied once its sink takes it.  A sink that does not read takes
   none once its socket is full, and the copy waits in its write.           *)
Copy(c, d) ==
  /\ conn[c].stage = "relay" /\ conn[c].unread[d] > 0
  /\ Sink(c, d) # "gone"
  /\ conn' = [conn EXCEPT ![c].unread[d] = @ - 1, ![c].delivered[d] = @ + 1]
  /\ Quiet

(* One copy is over: its source is at its end and all of it was passed on.  *)
CopyOver(c, d) == Source(c, d) # "open" /\ conn[c].unread[d] = 0

(* Mutant of RelayEnds: the relay waits for both copies. *)
RelayJoins(c) ==
  /\ conn[c].stage = "relay" /\ \A d \in Dir : CopyOver(c, d)
  /\ Drops(c)
  /\ Quiet

(* Mutant of RelayEnds: the relay ends as soon as one side has closed. *)
RelayCuts(c) ==
  /\ conn[c].stage = "relay" /\ \E d \in Dir : Source(c, d) # "open"
  /\ Drops(c)
  /\ Quiet

(* Mutant of RelayEnds: a copy that failed is reported like a handshake. *)
RelayRefuses(c) ==
  /\ conn[c].stage = "relay" /\ \E d \in Dir : CopyOver(c, d)
  /\ IF "gone" \in {conn[c].client, conn[c].peer} THEN Refuses(c) ELSE Drops(c)
  /\ Quiet

(* The first copy to be over ends the relay, and with it the other copy.    *)
RelayEnds(c) ==
  /\ conn[c].stage = "relay" /\ \E d \in Dir : CopyOver(c, d)
  /\ Drops(c)
  /\ Quiet

(* So does one that fails, because a side is gone while there is data to pass
   on.  It need not fail: a side can go without a reset, and a copy that waits
   in its write, its buffer full, reads nothing.                            *)
RelayBreaks(c) ==
  /\ conn[c].stage = "relay"
  /\ \E d \in Dir : "gone" \in {Source(c, d), Sink(c, d)} /\ conn[c].unread[d] > 0
  /\ Drops(c)
  /\ Quiet

-----------------------------------------------------------------------------
(* The environment: clients, destinations, the tunnel and the supervisor.   *)
ClientConnects(c) ==
  /\ listener = "open" /\ conn[c].stage = "none"
  /\ conn' = [conn EXCEPT ![c].stage = "backlog"]
  /\ Quiet

Connected(c) == conn[c].stage \notin {"none", "closed"}

(* A client may send ahead of the answer to its request.                    *)
Sends(c, d) ==
  /\ Connected(c) /\ Source(c, d) = "open" /\ conn[c].sent[d] < MaxData
  /\ d = "down" => conn[c].stage \in {"answer", "relay"}
  /\ conn' = [conn EXCEPT ![c].sent[d] = @ + 1, ![c].unread[d] = @ + 1]
  /\ Quiet

ClientCloses(c) ==
  /\ Connected(c) /\ conn[c].client # "gone"
  /\ \E s \in {"halfclosed", "gone"} :
       conn[c].client # s /\ conn' = [conn EXCEPT ![c].client = s]
  /\ Quiet

PeerCloses(c) ==
  /\ conn[c].stage \in {"answer", "relay"} /\ conn[c].peer \in {"open", "halfclosed"}
  /\ \E s \in {"halfclosed", "gone"} :
       conn[c].peer # s /\ conn' = [conn EXCEPT ![c].peer = s]
  /\ Quiet

TunnelStarts == ~ocproxy /\ ocproxy' = TRUE /\ UNCHANGED <<listener, stop, conn>>

(* openconnect ended and ocproxy with it, and all sockets of ocproxy.       *)
TunnelEnds ==
  /\ ocproxy /\ ocproxy' = FALSE
  /\ conn' = [c \in Conn |->
                IF RouteOf(conn[c].target) = "tunnel" /\ conn[c].peer # "none"
                  THEN [conn[c] EXCEPT !.peer = "gone"] ELSE conn[c]]
  /\ UNCHANGED <<listener, stop>>

StopRequested == ~stop /\ stop' = TRUE /\ UNCHANGED <<listener, ocproxy, conn>>

-----------------------------------------------------------------------------
Init ==
  /\ listener = "binding" /\ stop = FALSE /\ ocproxy \in BOOLEAN
  /\ conn = [c \in Conn |-> Fresh]

Loop == Bind \/ ListenerCloses \/ \E c \in Conn : Accept(c)

(* What a handler does once the bytes it waits for are there, or taken, or an
   error is; and what it does in any case.                                  *)
FromClient(c) == Peek(c) \/ Greeting(c) \/ Request(c)
FromOcproxy(c) == UpstreamGreeting(c) \/ UpstreamReply(c)
Relay(c) == RelayBreaks(c) \/ \E d \in Dir : Copy(c, d)
Handler(c) == RequestEnds(c) \/ DialDirect(c) \/ DialTunnel(c)
                \/ UpstreamLost(c) \/ Answer(c) \/ RelayEnds(c)
Outside(c) == ClientConnects(c) \/ ClientCloses(c) \/ PeerCloses(c)
                \/ \E d \in Dir : Sends(c, d)

Next ==
  \/ Loop \/ TunnelStarts \/ TunnelEnds \/ StopRequested
  \/ \E c \in Conn : \/ FromClient(c) \/ FromOcproxy(c) \/ Relay(c) \/ Handler(c)
                     \/ Outside(c)

Spec == Init /\ [][Next]_vars

(* Every task is scheduled.  Nothing is promised about clients, ocproxy or
   destinations: no await has a timeout.  They may stop sending, and reading:
   only the few bytes of a handshake's answers are taken to fit a socket.   *)
FairSpec ==
  Spec /\ WF_vars(Loop) /\ \A c \in Conn : WF_vars(Handler(c))

-----------------------------------------------------------------------------
(* Properties.                                                              *)

(* Every field stays in its range.                                          *)
Stages == {"none", "backlog", "peek", "greeting", "request", "head", "dial",
           "upgreet", "upreply", "answer", "relay", "closed"}
ConnType ==
  [ stage : Stages, proto : {"none", "socks", "http"},
    target : Target \cup {NoTarget},
    client : {"open", "halfclosed", "gone"},
    peer : {"none", "open", "halfclosed", "gone"},
    reached : SUBSET {"direct", "tunnel"},
    confirmed : {"none", "direct", "tunnel"},
    answer : {"none", "ok", "error"},
    sent : [Dir -> 0..MaxData], unread : [Dir -> 0..MaxData],
    delivered : [Dir -> 0..MaxData] ]
TypeOK ==
  /\ listener \in {"binding", "open", "closed"}
  /\ stop \in BOOLEAN /\ ocproxy \in BOOLEAN
  /\ conn \in [Conn -> ConnType]

(* A VPN name is never resolved or dialled outside the tunnel, and no other
   name inside it, whatever fails on the way and in whatever state the tunnel
   is.                                                                      *)
NamesStayOnRoute ==
  \A c \in Conn : conn[c].reached \subseteq {RouteOf(conn[c].target)}

(* A client is told of success only when its own destination is connected, on
   the right way.                                                           *)
SuccessIsTrue ==
  \A c \in Conn :
    conn[c].answer = "ok" => conn[c].confirmed = RouteOf(conn[c].target)

(* A request that was understood is answered, however its connection failed,
   unless the client left.                                                  *)
UnderstoodIsAnswered ==
  \A c \in Conn :
    conn[c].stage = "closed" /\ conn[c].target # NoTarget /\ conn[c].answer = "none"
      => conn[c].client = "gone"

(* What a client sends right behind its request, or before it is answered, is
   still there for the relay: the handshake swallows none of it.            *)
NothingSwallowed ==
  \A c \in Conn : \A d \in Dir :
    conn[c].sent[d] = conn[c].unread[d] + conn[c].delivered[d]

(* While neither side is gone, a relay ends only when one side has finished
   and all that this side sent has been passed on.                          *)
DrainedBeforeEnd ==
  [][\A c \in Conn :
       conn[c].stage = "relay" /\ conn'[c].stage = "closed"
         /\ conn[c].client # "gone" /\ conn[c].peer # "gone"
       => \E d \in Dir : /\ Source(c, d) = "halfclosed"
                         /\ conn[c].delivered[d] = conn[c].sent[d]]_vars

(* What a client sees of its connection, as a call of ProxyContract.  It is
   linked once its destination was confirmed, not once a handler thinks so. *)
Phase(r) ==
  CASE r.stage \in ReadsClient \cup {"none", "backlog"} -> "idle"
    [] r.stage \in {"dial", "upgreet"} -> "asked"
    [] r.stage = "upreply" -> "reached"
    [] r.stage = "answer" ->
         IF r.confirmed = RouteOf(r.target) THEN "linked" ELSE "reached"
    [] r.stage = "relay" -> "connected"
    [] r.stage = "closed" -> "over"

View(r) == [ phase |-> Phase(r), target |-> r.target, ways |-> r.reached,
             told |-> r.answer, client |-> r.client,
             sent |-> r.sent, passed |-> r.delivered ]

Calls == [c \in Conn |-> View(conn[c])]

(* Whatever the tunnel, the listener and the two ends do meanwhile, a client
   is served as ProxyContract says: one destination, one answer, and nothing
   happens in a call that is over.                                          *)
Promise == INSTANCE ProxyContract WITH Client <- Conn, call <- Calls
ImplementsProxyContract == Promise!Spec

(* When the tunnel is lost, or replaced after a resume, a connection through
   it ends though its client sends nothing and never closes, provided the
   client has taken what came back.  One that leaves data unread may keep its
   handler for ever.                                                        *)
LossEndsConnection ==
  \A c \in Conn :
    conn[c].peer = "gone" /\ conn[c].unread["down"] = 0 ~> conn[c].stage = "closed"

(* Shutdown closes the listener though clients stay connected; the supervisor
   waits for this before it takes the tunnel down.                          *)
StopClosesListener == stop ~> listener = "closed"
=============================================================================
