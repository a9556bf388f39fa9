------------------------- MODULE RoutingProxyProofs -------------------------
(* Theorems about RoutingProxy, for any number of connections and any split *)
(* of the destinations.  Connections do not touch each other, so the        *)
(* invariant is one predicate on a connection's record, and a step of one   *)
(* handler has to keep it for one record.                                   *)
EXTENDS RoutingProxy, TLAPS

(* What a connection's record satisfies at each stage.                      *)
Asking(r) == r.stage \in {"none", "backlog", "peek", "greeting", "request", "head"}

Counted(r) == \A d \in Dir : r.sent[d] = r.unread[d] + r.delivered[d]

StageFacts(r) ==
  /\ Asking(r) => r.target = NoTarget
  /\ r.stage \in {"dial", "upgreet", "upreply", "answer", "relay"}
       => r.target \in Target
  /\ r.stage \in {"upgreet", "upreply"} => RouteOf(r.target) = "tunnel"
  /\ r.stage \in {"answer", "relay"}
       => r.confirmed = RouteOf(r.target) /\ r.peer # "none"
  /\ r.stage \in {"upreply", "answer", "relay"} => r.reached = {RouteOf(r.target)}

AnswerFacts(r) ==
  /\ r.stage \notin {"relay", "closed"} => r.answer = "none"
  /\ r.stage = "relay" => r.answer = "ok"
  /\ r.answer = "ok" => r.confirmed = RouteOf(r.target)
  /\ r.stage = "closed" /\ r.target # NoTarget /\ r.answer = "none"
       => r.client = "gone"

Good(r) ==
  /\ r \in ConnType
  /\ Counted(r) /\ StageFacts(r) /\ AnswerFacts(r)
  /\ r.reached \subseteq {RouteOf(r.target)}
  /\ Asking(r) => r.reached = {}

LoopType ==
  /\ listener \in {"binding", "open", "closed"}
  /\ stop \in BOOLEAN /\ ocproxy \in BOOLEAN

PInv == /\ LoopType
        /\ conn = [c \in Conn |-> conn[c]]
        /\ \A c \in Conn : Good(conn[c])

USE DEF Dir

(* A new connection's record is good.                                       *)
LEMMA FreshIsGood == Good(Fresh)
<1>1. Fresh \in ConnType
  BY DataAssumption DEF Fresh, ConnType, Stages
<1>2. Counted(Fresh)
  BY DEF Counted, Fresh
<1>3. StageFacts(Fresh) /\ AnswerFacts(Fresh)
  BY DEF StageFacts, AnswerFacts, Asking, Fresh
<1> QED
  BY <1>1, <1>2, <1>3 DEF Good, Fresh

LEMMA ProxyInit == Init => PInv
  BY FreshIsGood DEF Init, PInv, LoopType

(* A step of one connection keeps the invariant if it keeps the record good. *)
LEMMA OneConnection ==
  ASSUME PInv, NEW c \in Conn, NEW r, Good(r), Quiet, conn' = [conn EXCEPT ![c] = r]
  PROVE  PInv'
  BY DEF PInv, LoopType, Quiet

(* Dropping the sockets keeps a record good when the answer is right.       *)
Closed(r, answer) == [r EXCEPT !.stage = "closed", !.answer = answer, !.peer = "none"]

LEMMA ClosingIsGood ==
  ASSUME NEW r, Good(r), NEW a \in {"none", "ok", "error"},
         a = "ok" => r.answer = "ok",
         a = "none" /\ r.target # NoTarget => r.client = "gone"
  PROVE  Good(Closed(r, a))
<1>0. r \in ConnType
  BY DEF Good
<1>1. Closed(r, a) \in ConnType
  <2>1. [r EXCEPT !.stage = "closed"] \in ConnType
    BY <1>0 DEF ConnType, Stages
  <2>2. [r EXCEPT !.stage = "closed", !.answer = a] \in ConnType
    BY <2>1 DEF ConnType
  <2> QED
    BY <2>2 DEF ConnType, Closed
<1>2. Counted(Closed(r, a))
  BY DEF Good, Closed, ConnType, Counted
<1>3. StageFacts(Closed(r, a)) /\ AnswerFacts(Closed(r, a))
  BY DEF Good, Closed, ConnType, StageFacts, AnswerFacts, Asking
<1> QED
  BY <1>1, <1>2, <1>3 DEF Good, Closed, ConnType, Asking

LEMMA CloseKeeps ==
  ASSUME PInv, NEW c \in Conn, NEW a \in {"none", "ok", "error"}, Quiet,
         Closes(c, a),
         a = "ok" => conn[c].answer = "ok",
         a = "none" /\ conn[c].target # NoTarget => conn[c].client = "gone"
  PROVE  PInv'
<1>1. Good(conn[c])
  BY DEF PInv
<1>2. Good(Closed(conn[c], a))
  BY <1>1, ClosingIsGood
<1>3. conn' = [conn EXCEPT ![c] = Closed(conn[c], a)]
  BY DEF Closes, Closed, PInv
<1> QED
  BY <1>2, <1>3, OneConnection

(* A refused client has its answer.                                         *)
LEMMA RefuseKeeps ==
  ASSUME PInv, NEW c \in Conn, Refuses(c), Quiet
  PROVE  PInv'
  BY CloseKeeps DEF Refuses

(* Dropping is for a client that has asked for nothing, has its answer, or
   is gone.                                                                 *)
LEMMA DropKeeps ==
  ASSUME PInv, NEW c \in Conn, Drops(c), Quiet,
         \/ Asking(conn[c])
         \/ conn[c].stage = "relay"
         \/ conn[c].client = "gone"
  PROVE  PInv'
<1>1. Good(conn[c]) /\ conn[c] \in ConnType
  BY DEF PInv, Good
<1>2. conn[c].answer \in {"none", "ok", "error"}
  BY <1>1 DEF ConnType
<1>3. conn[c].answer = "none" /\ conn[c].target # NoTarget
        => conn[c].client = "gone"
  BY <1>1 DEF Good, StageFacts, AnswerFacts
<1> QED
  BY <1>2, <1>3, CloseKeeps DEF Drops

(* Connecting and accepting only move a connection that asks.               *)
LEMMA AcceptKeeps ==
  ASSUME PInv, NEW c \in Conn, Accept(c)
  PROVE  PInv'
<1>1. Good(conn[c]) /\ conn[c] \in ConnType
  BY DEF PInv, Good
<1> DEFINE r == [conn[c] EXCEPT !.stage = "peek"]
<1>2. r \in ConnType
  BY <1>1 DEF ConnType, Stages
<1>3. Good(r)
  BY <1>1, <1>2, TargetAssumption DEF Good, ConnType, Counted, StageFacts,
     AnswerFacts, Asking, RouteOf, Accept
<1> QED
  BY <1>3, OneConnection DEF PInv, Accept

(* The same for a new client.                                               *)
LEMMA ConnectKeeps ==
  ASSUME PInv, NEW c \in Conn, ClientConnects(c)
  PROVE  PInv'
<1>1. Good(conn[c]) /\ conn[c] \in ConnType
  BY DEF PInv, Good
<1> DEFINE r == [conn[c] EXCEPT !.stage = "backlog"]
<1>2. r \in ConnType
  BY <1>1 DEF ConnType, Stages
<1>3. Good(r)
  BY <1>1, <1>2, TargetAssumption DEF Good, ConnType, Counted, StageFacts,
     AnswerFacts, Asking, RouteOf, ClientConnects
<1> QED
  BY <1>3, OneConnection DEF PInv, ClientConnects

(* The protocol is known, nothing is asked yet.                             *)
LEMMA PeekKeeps ==
  ASSUME PInv, NEW c \in Conn, Peek(c)
  PROVE  PInv'
<1>1. Good(conn[c]) /\ conn[c] \in ConnType
  BY DEF PInv, Good
<1>2. CASE conn' = [conn EXCEPT ![c].stage = "greeting", ![c].proto = "socks"]
  <2> DEFINE r == [conn[c] EXCEPT !.stage = "greeting", !.proto = "socks"]
  <2>1. r \in ConnType
    BY <1>1 DEF ConnType, Stages
  <2>2. Good(r)
    BY <1>1, <2>1, TargetAssumption DEF Good, ConnType, Counted, StageFacts,
       AnswerFacts, Asking, RouteOf, Peek
  <2> QED
    BY <1>2, <2>2, OneConnection DEF PInv, Peek
<1>3. CASE conn' = [conn EXCEPT ![c].stage = "head", ![c].proto = "http"]
  <2> DEFINE r == [conn[c] EXCEPT !.stage = "head", !.proto = "http"]
  <2>1. r \in ConnType
    BY <1>1 DEF ConnType, Stages
  <2>2. Good(r)
    BY <1>1, <2>1, TargetAssumption DEF Good, ConnType, Counted, StageFacts,
       AnswerFacts, Asking, RouteOf, Peek
  <2> QED
    BY <1>3, <2>2, OneConnection DEF PInv, Peek
<1>4. CASE Drops(c)
  BY <1>4, DropKeeps DEF Peek, Asking
<1> QED
  BY <1>2, <1>3, <1>4 DEF Peek

(* The method negotiation.                                                  *)
LEMMA GreetingKeeps ==
  ASSUME PInv, NEW c \in Conn, Greeting(c)
  PROVE  PInv'
<1>1. Good(conn[c]) /\ conn[c] \in ConnType
  BY DEF PInv, Good
<1>2. CASE conn' = [conn EXCEPT ![c].stage = "request"]
  <2> DEFINE r == [conn[c] EXCEPT !.stage = "request"]
  <2>1. r \in ConnType
    BY <1>1 DEF ConnType, Stages
  <2>2. Good(r)
    BY <1>1, <2>1, TargetAssumption DEF Good, ConnType, Counted, StageFacts,
       AnswerFacts, Asking, RouteOf, Greeting
  <2> QED
    BY <1>2, <2>2, OneConnection DEF PInv, Greeting
<1>3. CASE Refuses(c)
  BY <1>3, RefuseKeeps DEF Greeting
<1> QED
  BY <1>2, <1>3 DEF Greeting

(* A request brings a target, a refusal or nothing.                         *)
LEMMA RequestKeeps ==
  ASSUME PInv, NEW c \in Conn, Request(c)
  PROVE  PInv'
<1>1. Good(conn[c]) /\ conn[c] \in ConnType
  BY DEF PInv, Good
<1>2. ASSUME NEW t \in Target,
             conn' = [conn EXCEPT ![c].stage = "dial", ![c].target = t]
      PROVE  PInv'
  <2> DEFINE r == [conn[c] EXCEPT !.stage = "dial", !.target = t]
  <2>1. r \in ConnType
    BY <1>1 DEF ConnType, Stages
  <2>2. Good(r)
    BY <1>1, <2>1, TargetAssumption DEF Good, ConnType, Counted, StageFacts,
       AnswerFacts, Asking, RouteOf, Request
  <2> QED
    BY <1>2, <2>2, OneConnection DEF PInv, Request
<1>3. CASE Refuses(c)
  BY <1>3, RefuseKeeps DEF Request
<1>4. CASE Drops(c)
  BY <1>4, DropKeeps DEF Request, Asking
<1> QED
  BY <1>2, <1>3, <1>4 DEF Request

(* A client that left early has asked for nothing.                          *)
LEMMA RequestEndsKeeps ==
  ASSUME PInv, NEW c \in Conn, RequestEnds(c)
  PROVE  PInv'
  BY DropKeeps DEF RequestEnds, ReadsClient, Asking

(* Only a name routed directly is dialled directly.                         *)
LEMMA DialDirectKeeps ==
  ASSUME PInv, NEW c \in Conn, DialDirect(c)
  PROVE  PInv'
<1>1. Good(conn[c]) /\ conn[c] \in ConnType
  BY DEF PInv, Good
<1>2. CASE conn' = [conn EXCEPT ![c].stage = "answer", ![c].peer = "open",
                               ![c].reached = @ \cup {"direct"},
                               ![c].confirmed = "direct"]
  <2> DEFINE r == [conn[c] EXCEPT !.stage = "answer", !.peer = "open",
                                  !.reached = @ \cup {"direct"},
                                  !.confirmed = "direct"]
  <2>1. r \in ConnType
    BY <1>1 DEF ConnType, Stages
  <2>2. Good(r)
    BY <1>1, <2>1, TargetAssumption DEF Good, ConnType, Counted, StageFacts,
       AnswerFacts, Asking, RouteOf, DialDirect
  <2> QED
    BY <1>2, <2>2, OneConnection DEF PInv, DialDirect
<1>3. CASE conn' = [conn EXCEPT ![c].stage = "closed", ![c].answer = "error",
                               ![c].reached = @ \cup {"direct"}]
  <2> DEFINE r == [conn[c] EXCEPT !.stage = "closed", !.answer = "error",
                                  !.reached = @ \cup {"direct"}]
  <2>1. r \in ConnType
    BY <1>1 DEF ConnType, Stages
  <2>2. Good(r)
    BY <1>1, <2>1, TargetAssumption DEF Good, ConnType, Counted, StageFacts,
       AnswerFacts, Asking, RouteOf, DialDirect
  <2> QED
    BY <1>3, <2>2, OneConnection DEF PInv, DialDirect
<1> QED
  BY <1>2, <1>3 DEF DialDirect

(* The connection to ocproxy carries no name yet.                           *)
LEMMA DialTunnelKeeps ==
  ASSUME PInv, NEW c \in Conn, DialTunnel(c)
  PROVE  PInv'
<1>1. Good(conn[c]) /\ conn[c] \in ConnType
  BY DEF PInv, Good
<1>2. CASE conn' = [conn EXCEPT ![c].stage = "upgreet", ![c].peer = "open"]
  <2> DEFINE r == [conn[c] EXCEPT !.stage = "upgreet", !.peer = "open"]
  <2>1. r \in ConnType
    BY <1>1 DEF ConnType, Stages
  <2>2. Good(r)
    BY <1>1, <2>1, TargetAssumption DEF Good, ConnType, Counted, StageFacts,
       AnswerFacts, Asking, RouteOf, DialTunnel
  <2> QED
    BY <1>2, <2>2, OneConnection DEF PInv, DialTunnel
<1>3. CASE Refuses(c)
  BY <1>3, RefuseKeeps DEF DialTunnel
<1> QED
  BY <1>2, <1>3 DEF DialTunnel

(* Now the name goes out, through the tunnel.                               *)
LEMMA UpstreamGreetingKeeps ==
  ASSUME PInv, NEW c \in Conn, UpstreamGreeting(c)
  PROVE  PInv'
<1>1. Good(conn[c]) /\ conn[c] \in ConnType
  BY DEF PInv, Good
<1>2. CASE conn' = [conn EXCEPT ![c].stage = "upreply",
                               ![c].reached = @ \cup {"tunnel"}]
  <2> DEFINE r == [conn[c] EXCEPT !.stage = "upreply",
                                  !.reached = @ \cup {"tunnel"}]
  <2>1. r \in ConnType
    BY <1>1 DEF ConnType, Stages
  <2>2. Good(r)
    BY <1>1, <2>1, TargetAssumption DEF Good, ConnType, Counted, StageFacts,
       AnswerFacts, Asking, RouteOf, UpstreamGreeting
  <2> QED
    BY <1>2, <2>2, OneConnection DEF PInv, UpstreamGreeting
<1>3. CASE Refuses(c)
  BY <1>3, RefuseKeeps DEF UpstreamGreeting
<1> QED
  BY <1>2, <1>3 DEF UpstreamGreeting

(* ocproxy confirms, or the client is refused.                              *)
LEMMA UpstreamReplyKeeps ==
  ASSUME PInv, NEW c \in Conn, UpstreamReply(c)
  PROVE  PInv'
<1>1. Good(conn[c]) /\ conn[c] \in ConnType
  BY DEF PInv, Good
<1>2. CASE conn' = [conn EXCEPT ![c].stage = "answer",
                               ![c].confirmed = "tunnel"]
  <2> DEFINE r == [conn[c] EXCEPT !.stage = "answer", !.confirmed = "tunnel"]
  <2>1. r \in ConnType
    BY <1>1 DEF ConnType, Stages
  <2>2. Good(r)
    BY <1>1, <2>1, TargetAssumption DEF Good, ConnType, Counted, StageFacts,
       AnswerFacts, Asking, RouteOf, UpstreamReply
  <2> QED
    BY <1>2, <2>2, OneConnection DEF PInv, UpstreamReply
<1>3. CASE Refuses(c)
  BY <1>3, RefuseKeeps DEF UpstreamReply
<1> QED
  BY <1>2, <1>3 DEF UpstreamReply

(* A lost handshake is answered.                                            *)
LEMMA UpstreamLostKeeps ==
  ASSUME PInv, NEW c \in Conn, UpstreamLost(c)
  PROVE  PInv'
  BY RefuseKeeps DEF UpstreamLost

(* The answer follows the confirmation.                                     *)
LEMMA AnswerKeeps ==
  ASSUME PInv, NEW c \in Conn, Answer(c)
  PROVE  PInv'
<1>1. Good(conn[c]) /\ conn[c] \in ConnType
  BY DEF PInv, Good
<1>2. CASE conn' = [conn EXCEPT ![c].stage = "relay", ![c].answer = "ok"]
  <2> DEFINE r == [conn[c] EXCEPT !.stage = "relay", !.answer = "ok"]
  <2>1. r \in ConnType
    BY <1>1 DEF ConnType, Stages
  <2>2. Good(r)
    BY <1>1, <2>1, TargetAssumption DEF Good, ConnType, Counted, StageFacts,
       AnswerFacts, Asking, RouteOf, Answer
  <2> QED
    BY <1>2, <2>2, OneConnection DEF PInv, Answer
<1>3. CASE conn[c].client = "gone" /\ Drops(c)
  BY <1>3, DropKeeps DEF Answer, Asking
<1> QED
  BY <1>2, <1>3 DEF Answer

(* A relay was answered before it began.                                    *)
LEMMA RelayEndsKeeps ==
  ASSUME PInv, NEW c \in Conn, RelayEnds(c) \/ RelayBreaks(c)
  PROVE  PInv'
  BY DropKeeps DEF RelayEnds, RelayBreaks, Asking

(* Copying moves a chunk from one count to the other.                       *)
LEMMA CopyKeeps ==
  ASSUME PInv, NEW c \in Conn, NEW d \in Dir, Copy(c, d)
  PROVE  PInv'
<1> DEFINE r == [conn[c] EXCEPT !.unread[d] = @ - 1, !.delivered[d] = @ + 1]
<1>1. Good(conn[c]) /\ conn[c] \in ConnType
  BY DEF PInv, Good
<1>2. /\ conn[c].sent \in [Dir -> 0..MaxData] /\ conn[c].unread \in [Dir -> 0..MaxData]
      /\ conn[c].delivered \in [Dir -> 0..MaxData]
  BY <1>1 DEF ConnType
<1>3. conn[c].unread[d] > 0 /\ conn[c].sent[d] = conn[c].unread[d] + conn[c].delivered[d]
  BY <1>1 DEF Copy, Good, Counted
<1>4. conn[c].unread[d] - 1 \in 0..MaxData /\ conn[c].delivered[d] + 1 \in 0..MaxData
  BY <1>2, <1>3, DataAssumption
<1>5. /\ [conn[c].unread EXCEPT ![d] = @ - 1] \in [Dir -> 0..MaxData]
      /\ [conn[c].delivered EXCEPT ![d] = @ + 1] \in [Dir -> 0..MaxData]
  BY <1>2, <1>4
<1>6. r \in ConnType
  BY <1>1, <1>5 DEF ConnType
<1>7. Counted(r)
  BY <1>1, <1>2, <1>3, DataAssumption DEF Good, Counted, ConnType
<1>8. Good(r)
  BY <1>1, <1>6, <1>7 DEF Good, ConnType, StageFacts, AnswerFacts, Asking
<1>9. conn' = [conn EXCEPT ![c] = r] /\ Quiet
  BY <1>1 DEF PInv, Copy, ConnType
<1> QED
  BY <1>8, <1>9, OneConnection

(* Sending adds a chunk to what is unread.                                  *)
LEMMA SendsKeeps ==
  ASSUME PInv, NEW c \in Conn, NEW d \in Dir, Sends(c, d)
  PROVE  PInv'
<1> DEFINE r == [conn[c] EXCEPT !.sent[d] = @ + 1, !.unread[d] = @ + 1]
<1>1. Good(conn[c]) /\ conn[c] \in ConnType
  BY DEF PInv, Good
<1>2. /\ conn[c].sent \in [Dir -> 0..MaxData] /\ conn[c].unread \in [Dir -> 0..MaxData]
      /\ conn[c].delivered \in [Dir -> 0..MaxData]
  BY <1>1 DEF ConnType
<1>3. conn[c].sent[d] < MaxData /\ conn[c].sent[d] = conn[c].unread[d] + conn[c].delivered[d]
  BY <1>1 DEF Sends, Good, Counted
<1>4. conn[c].unread[d] + 1 \in 0..MaxData /\ conn[c].sent[d] + 1 \in 0..MaxData
  BY <1>2, <1>3, DataAssumption
<1>5. /\ [conn[c].sent EXCEPT ![d] = @ + 1] \in [Dir -> 0..MaxData]
      /\ [conn[c].unread EXCEPT ![d] = @ + 1] \in [Dir -> 0..MaxData]
  BY <1>2, <1>4
<1>6. r \in ConnType
  BY <1>1, <1>5 DEF ConnType
<1>7. Counted(r)
  BY <1>1, <1>2, <1>3, DataAssumption DEF Good, Counted, ConnType
<1>8. Good(r)
  BY <1>1, <1>6, <1>7 DEF Good, ConnType, StageFacts, AnswerFacts, Asking
<1>9. conn' = [conn EXCEPT ![c] = r] /\ Quiet
  BY <1>1 DEF PInv, Sends, ConnType
<1> QED
  BY <1>8, <1>9, OneConnection

(* A client that closes was connected: no closed record asks it to stay.    *)
LEMMA ClientClosesKeeps ==
  ASSUME PInv, NEW c \in Conn, ClientCloses(c)
  PROVE  PInv'
<1>1. Good(conn[c]) /\ conn[c] \in ConnType
  BY DEF PInv, Good
<1>2. PICK s \in {"halfclosed", "gone"} : conn' = [conn EXCEPT ![c].client = s]
  BY DEF ClientCloses
<1> DEFINE r == [conn[c] EXCEPT !.client = s]
<1>3. r \in ConnType
  BY <1>1 DEF ConnType
<1>4. Good(r)
  BY <1>1, <1>3 DEF Good, ConnType, Counted, StageFacts, AnswerFacts, Asking,
                    ClientCloses, Connected
<1>5. conn' = [conn EXCEPT ![c] = r] /\ Quiet
  BY <1>2 DEF PInv, ClientCloses
<1> QED
  BY <1>4, <1>5, OneConnection

(* The destination's end appears in no other fact.                          *)
LEMMA NewPeerIsGood ==
  ASSUME NEW r, Good(r), NEW s \in {"halfclosed", "gone"}
  PROVE  Good([r EXCEPT !.peer = s])
<1>1. r \in ConnType
  BY DEF Good
<1>2. [r EXCEPT !.peer = s] \in ConnType
  BY <1>1 DEF ConnType
<1> QED
  BY <1>1, <1>2 DEF Good, ConnType, Counted, StageFacts, AnswerFacts, Asking

LEMMA PeerClosesKeeps ==
  ASSUME PInv, NEW c \in Conn, PeerCloses(c)
  PROVE  PInv'
<1>1. PICK s \in {"halfclosed", "gone"} : conn' = [conn EXCEPT ![c].peer = s]
  BY DEF PeerCloses
<1>2. Good([conn[c] EXCEPT !.peer = s])
  BY NewPeerIsGood DEF PInv
<1>3. conn' = [conn EXCEPT ![c] = [conn[c] EXCEPT !.peer = s]] /\ Quiet
  BY <1>1 DEF PInv, PeerCloses
<1> QED
  BY <1>2, <1>3, OneConnection

(* The end of the tunnel takes the peers of many connections at once.       *)
LEMMA TunnelEndsKeeps ==
  ASSUME PInv, TunnelEnds
  PROVE  PInv'
<1>1. LoopType' /\ conn' = [c \in Conn |-> conn'[c]]
  BY DEF PInv, LoopType, TunnelEnds
<1>2. ASSUME NEW c \in Conn PROVE Good(conn[c])'
  <2>1. Good([conn[c] EXCEPT !.peer = "gone"])
    BY NewPeerIsGood DEF PInv
  <2>2. conn'[c] = conn[c] \/ conn'[c] = [conn[c] EXCEPT !.peer = "gone"]
    BY DEF TunnelEnds
  <2>3. Good(conn'[c])
    BY <2>1, <2>2 DEF PInv
  <2> QED
    BY <2>3
<1> QED
  BY <1>1, <1>2 DEF PInv

(* A connection that was never accepted has asked for nothing.              *)
LEMMA ListenerClosesKeeps ==
  ASSUME PInv, ListenerCloses
  PROVE  PInv'
<1>1. LoopType' /\ conn' = [c \in Conn |-> conn'[c]]
  BY DEF PInv, LoopType, ListenerCloses
<1>2. ASSUME NEW c \in Conn PROVE Good(conn[c])'
  <2> DEFINE r == [conn[c] EXCEPT !.stage = "closed"]
  <2>1. Good(conn[c]) /\ conn[c] \in ConnType
    BY DEF PInv, Good
  <2>2. r \in ConnType
    BY <2>1 DEF ConnType, Stages
  <2>3. conn[c].stage = "backlog" => Good(r)
    BY <2>1, <2>2 DEF Good, ConnType, Counted, StageFacts, AnswerFacts, Asking
  <2>4. conn'[c] = IF conn[c].stage = "backlog" THEN r ELSE conn[c]
    BY DEF ListenerCloses
  <2>5. Good(conn'[c])
    BY <2>1, <2>3, <2>4
  <2> QED
    BY <2>5
<1> QED
  BY <1>1, <1>2 DEF PInv

(* Every step keeps the invariant.                                          *)
LEMMA ProxyStep == PInv /\ [Next]_vars => PInv'
<1> SUFFICES ASSUME PInv, [Next]_vars
             PROVE  PInv'
  OBVIOUS
<1>1. CASE Bind \/ TunnelStarts \/ StopRequested
  BY <1>1 DEF PInv, LoopType, Bind, TunnelStarts, StopRequested
<1>2. CASE ListenerCloses
  BY <1>2, ListenerClosesKeeps
<1>3. CASE TunnelEnds
  BY <1>3, TunnelEndsKeeps
<1>4. ASSUME NEW c \in Conn, Accept(c)
      PROVE  PInv'
  BY <1>4, AcceptKeeps
<1>5. ASSUME NEW c \in Conn, FromClient(c) \/ FromOcproxy(c)
      PROVE  PInv'
  BY <1>5, PeekKeeps, GreetingKeeps, RequestKeeps, UpstreamGreetingKeeps,
     UpstreamReplyKeeps DEF FromClient, FromOcproxy
<1>6. ASSUME NEW c \in Conn, Handler(c)
      PROVE  PInv'
  BY <1>6, RequestEndsKeeps, DialDirectKeeps, DialTunnelKeeps, UpstreamLostKeeps,
     AnswerKeeps, RelayEndsKeeps DEF Handler
<1>7. ASSUME NEW c \in Conn, Relay(c)
      PROVE  PInv'
  BY <1>7, RelayEndsKeeps, CopyKeeps DEF Relay
<1>8. ASSUME NEW c \in Conn, Outside(c)
      PROVE  PInv'
  BY <1>8, ConnectKeeps, ClientClosesKeeps, PeerClosesKeeps, SendsKeeps DEF Outside
<1>9. CASE UNCHANGED vars
  BY <1>9 DEF PInv, LoopType, vars
<1> QED
  BY <1>1, <1>2, <1>3, <1>4, <1>5, <1>6, <1>7, <1>8, <1>9 DEF Next, Loop

(* The strengthened invariant holds always.                                 *)
THEOREM ProxyStrengthened == Spec => []PInv
  BY ProxyInit, ProxyStep, PTL DEF Spec

-----------------------------------------------------------------------------
(* What follows from it.                                                    *)

(* Every field keeps to its range.                                          *)
THEOREM ProxyTypeCorrect == Spec => []TypeOK
<1>1. PInv => TypeOK
  BY DEF PInv, LoopType, TypeOK, Good
<1> QED
  BY <1>1, ProxyStrengthened, PTL

(* VPN names stay in the tunnel, the others out of it.                      *)
THEOREM NamesKeepTheirRoute == Spec => []NamesStayOnRoute
<1>1. PInv => NamesStayOnRoute
  BY DEF PInv, NamesStayOnRoute, Good
<1> QED
  BY <1>1, ProxyStrengthened, PTL

(* No client is told of a success that is not there.                        *)
THEOREM SuccessIsReal == Spec => []SuccessIsTrue
<1>1. PInv => SuccessIsTrue
  BY DEF PInv, SuccessIsTrue, Good, AnswerFacts
<1> QED
  BY <1>1, ProxyStrengthened, PTL

(* No client is left without an answer to what it asked.                    *)
THEOREM RequestsAreAnswered == Spec => []UnderstoodIsAnswered
<1>1. PInv => UnderstoodIsAnswered
  BY DEF PInv, UnderstoodIsAnswered, Good, AnswerFacts
<1> QED
  BY <1>1, ProxyStrengthened, PTL

(* The handshake takes nothing from the data that follows it.               *)
THEOREM DataSurvivesHandshake == Spec => []NothingSwallowed
<1>1. PInv => NothingSwallowed
  BY DEF PInv, NothingSwallowed, Good, Counted
<1> QED
  BY <1>1, ProxyStrengthened, PTL

(* Only RelayEnds takes a connection whose sides are there out of its relay. *)
LEMMA OnlyRelayEnds ==
  ASSUME PInv, [Next]_vars, NEW c \in Conn,
         conn[c].stage = "relay", conn'[c].stage = "closed",
         conn[c].client # "gone", conn[c].peer # "gone"
  PROVE  RelayEnds(c)
<1>1. Good(conn[c]) /\ conn[c] \in ConnType
  BY DEF PInv, Good
<1>2. ~(Bind \/ TunnelStarts \/ StopRequested \/ UNCHANGED vars)
  BY DEF Bind, TunnelStarts, StopRequested, vars
<1>3. ~ListenerCloses /\ ~TunnelEnds
  BY <1>1 DEF ListenerCloses, TunnelEnds, ConnType
<1>4. ASSUME NEW k \in Conn, Accept(k) \/ ClientConnects(k) \/ FromClient(k)
      PROVE  FALSE
  BY <1>1, <1>4 DEF PInv, Accept, ClientConnects, FromClient, Peek, Greeting,
                    Request, Refuses, Drops, Closes
<1>5. ASSUME NEW k \in Conn,
             \/ RequestEnds(k) \/ DialDirect(k) \/ DialTunnel(k)
             \/ FromOcproxy(k) \/ UpstreamLost(k) \/ Answer(k)
      PROVE  FALSE
  BY <1>1, <1>5 DEF PInv, RequestEnds, ReadsClient, DialDirect, DialTunnel,
                    FromOcproxy, UpstreamGreeting, UpstreamReply, UpstreamLost,
                    Answer, Refuses, Drops, Closes
<1>6. ASSUME NEW k \in Conn, NEW d \in Dir,
             Copy(k, d) \/ Sends(k, d) \/ ClientCloses(k) \/ PeerCloses(k)
      PROVE  FALSE
  BY <1>1, <1>6 DEF PInv, Copy, Sends, ClientCloses, PeerCloses, ConnType
<1>7. ASSUME NEW k \in Conn, RelayEnds(k)
      PROVE  k = c
  BY <1>1, <1>7 DEF PInv, RelayEnds, Drops, Closes
<1>8. ASSUME NEW k \in Conn, RelayBreaks(k)
      PROVE  FALSE
  <2>1. k = c
    BY <1>1, <1>8 DEF PInv, RelayBreaks, Drops, Closes
  <2> QED
    BY <1>8, <2>1 DEF RelayBreaks, Source, Sink
<1> QED
  BY <1>2, <1>3, <1>4, <1>5, <1>6, <1>7, <1>8
  DEF Next, Loop, FromOcproxy, Handler, Relay, Outside

(* A relay between living sides ends with one side's data passed on.        *)
THEOREM RelayDrains == Spec => DrainedBeforeEnd
<1> DEFINE Drained(c) == \E d \in Dir : /\ Source(c, d) = "halfclosed"
                                        /\ conn[c].delivered[d] = conn[c].sent[d]
<1>1. ASSUME PInv, [Next]_vars, NEW c \in Conn,
             conn[c].stage = "relay", conn'[c].stage = "closed",
             conn[c].client # "gone", conn[c].peer # "gone"
      PROVE  Drained(c)
  <2>1. PICK d \in Dir : CopyOver(c, d)
    BY <1>1, OnlyRelayEnds DEF RelayEnds
  <2>2. Good(conn[c]) /\ conn[c] \in ConnType
    BY <1>1 DEF PInv, Good
  <2>3. Source(c, d) # "gone" /\ Sink(c, d) # "gone"
    BY <1>1 DEF Source, Sink
  <2>4. Source(c, d) # "open" /\ conn[c].unread[d] = 0
    BY <2>1 DEF CopyOver
  <2>5. conn[c].delivered[d] \in Nat /\ conn[c].delivered[d] = conn[c].sent[d]
    BY <2>2, <2>4, DataAssumption DEF Good, Counted, ConnType
  <2>6. conn[c].peer # "none"
    BY <1>1, <2>2 DEF Good, StageFacts
  <2>7. Source(c, d) = "halfclosed"
    BY <2>2, <2>3, <2>4, <2>6 DEF Source, ConnType
  <2> QED
    BY <2>5, <2>7
<1>2. PInv /\ [Next]_vars =>
        \A c \in Conn :
          conn[c].stage = "relay" /\ conn'[c].stage = "closed"
            /\ conn[c].client # "gone" /\ conn[c].peer # "gone" => Drained(c)
  BY <1>1
<1> QED
  BY <1>2, ProxyStrengthened, PTL DEF Spec, DrainedBeforeEnd

-----------------------------------------------------------------------------
(* Refinement of what a client is promised.                                 *)

(* A call field by field.                                                   *)
CallType ==
  [ phase : {"idle", "asked", "reached", "linked", "connected", "over"},
    target : Target \cup {NoTarget}, ways : SUBSET {"direct", "tunnel"},
    told : {"none", "ok", "error"}, client : {"open", "halfclosed", "gone"},
    sent : [Dir -> 0..MaxData], passed : [Dir -> 0..MaxData] ]

LEMMA CallFields ==
  ASSUME NEW r \in ConnType
  PROVE  /\ View(r) \in CallType
         /\ View(r).phase = Phase(r) /\ View(r).target = r.target
         /\ View(r).ways = r.reached /\ View(r).told = r.answer
         /\ View(r).client = r.client /\ View(r).sent = r.sent
         /\ View(r).passed = r.delivered
<1>1. Phase(r) \in {"idle", "asked", "reached", "linked", "connected", "over"}
  BY DEF Phase, ConnType, Stages, ReadsClient
<1>2. /\ r.target \in Target \cup {NoTarget} /\ r.reached \in SUBSET {"direct", "tunnel"}
      /\ r.answer \in {"none", "ok", "error"} /\ r.client \in {"open", "halfclosed", "gone"}
      /\ r.sent \in [Dir -> 0..MaxData] /\ r.delivered \in [Dir -> 0..MaxData]
  BY DEF ConnType
<1> QED
  BY <1>1, <1>2 DEF View, CallType

(* A step of one connection is a step of one call.                          *)
LEMMA OneCall ==
  ASSUME PInv, PInv', NEW c \in Conn, NEW r, conn' = [conn EXCEPT ![c] = r]
  PROVE  /\ r \in ConnType /\ conn[c] \in ConnType
         /\ Promise!Becomes(c, View(r)) /\ Calls[c] = View(conn[c])
<1>1. conn'[c] = r /\ \A k \in Conn \ {c} : conn'[k] = conn[k]
  BY DEF PInv
<1>2. Calls' = [k \in Conn |-> View(conn'[k])]
  BY DEF Calls
<1>3. \A k \in Conn : View(conn'[k]) = [Calls EXCEPT ![c] = View(r)][k]
  BY <1>1 DEF Calls
<1>4. [Calls EXCEPT ![c] = View(r)] = [k \in Conn |-> [Calls EXCEPT ![c] = View(r)][k]]
  BY DEF Calls
<1>5. Good(conn[c]) /\ Good(conn'[c])
  BY DEF PInv
<1> QED
  BY <1>1, <1>2, <1>3, <1>4, <1>5 DEF Promise!Becomes, Calls, Good

(* A handler's step, which counts no data, in the terms of its call.        *)
LEMMA CallMoves ==
  ASSUME PInv, PInv', NEW c \in Conn, NEW r, conn' = [conn EXCEPT ![c] = r],
         r.client = conn[c].client, r.sent = conn[c].sent,
         r.delivered = conn[c].delivered
  PROVE  /\ Promise!Becomes(c, View(r))
         /\ Calls[c] \in CallType /\ View(r) \in CallType
         /\ View(r).client = Calls[c].client /\ View(r).sent = Calls[c].sent
         /\ View(r).passed = Calls[c].passed
         /\ View(r).phase = Phase(r) /\ Calls[c].phase = Phase(conn[c])
         /\ View(r).target = r.target /\ Calls[c].target = conn[c].target
         /\ View(r).ways = r.reached /\ Calls[c].ways = conn[c].reached
         /\ View(r).told = r.answer /\ Calls[c].told = conn[c].answer
<1>1. r \in ConnType /\ conn[c] \in ConnType
      /\ Promise!Becomes(c, View(r)) /\ Calls[c] = View(conn[c])
  BY OneCall
<1> QED
  BY <1>1, CallFields

(* What the other fields of a connection's record do is no call's business. *)
LEMMA CallStays ==
  ASSUME PInv, PInv', NEW c \in Conn, NEW r, conn' = [conn EXCEPT ![c] = r],
         r.client = conn[c].client, r.sent = conn[c].sent,
         r.delivered = conn[c].delivered, Phase(r) = Phase(conn[c]),
         r.target = conn[c].target, r.reached = conn[c].reached,
         r.answer = conn[c].answer
  PROVE  UNCHANGED Calls
<1> DEFINE v == Calls[c]
           w == View(r)
<1>1. /\ Promise!Becomes(c, w) /\ v \in CallType /\ w \in CallType
      /\ w.phase = v.phase /\ w.target = v.target /\ w.ways = v.ways
      /\ w.told = v.told /\ w.client = v.client /\ w.sent = v.sent
      /\ w.passed = v.passed
  <2>1. Promise!Becomes(c, w) /\ v \in CallType /\ w \in CallType
    BY CallMoves
  <2>2. w.target = r.target /\ w.ways = r.reached /\ w.told = r.answer
        /\ w.phase = Phase(r)
    BY CallMoves
  <2>4. v.target = conn[c].target /\ v.ways = conn[c].reached
        /\ v.told = conn[c].answer /\ v.phase = Phase(conn[c])
    BY CallMoves
  <2>3. w.client = v.client /\ w.sent = v.sent /\ w.passed = v.passed
    BY CallMoves
  <2> QED
    BY <2>1, <2>2, <2>3, <2>4
<1> HIDE DEF v, w
<1>2. w = v
  BY ONLY <1>1 DEF CallType
<1>3. Calls' = [Calls EXCEPT ![c] = Calls[c]]
  BY <1>1, <1>2 DEF v, Promise!Becomes
<1> QED
  BY <1>3 DEF Calls

(* A handler that ends is a call that is over.                              *)
LEMMA CallCloses ==
  ASSUME PInv, PInv', NEW c \in Conn, NEW a, Closes(c, a)
  PROVE  Promise!Becomes(c, [Calls[c] EXCEPT !.phase = "over", !.told = a])
<1> DEFINE r == Closed(conn[c], a)
           v == Calls[c]
           w == View(r)
<1>1. conn[c] \in ConnType
  BY DEF PInv, Good
<1>2. conn' = [conn EXCEPT ![c] = r]
  BY DEF Closes, Closed, PInv
<1>3. /\ r.stage = "closed" /\ r.answer = a /\ r.target = conn[c].target
      /\ r.reached = conn[c].reached /\ r.client = conn[c].client
      /\ r.sent = conn[c].sent /\ r.delivered = conn[c].delivered
  BY <1>1 DEF Closed, ConnType
<1>4. Phase(r) = "over"
  BY <1>3 DEF Phase, ReadsClient
<1> HIDE DEF r
<1>5. /\ Promise!Becomes(c, w) /\ v \in CallType /\ w \in CallType
      /\ w.phase = "over" /\ w.told = a
      /\ w.target = v.target /\ w.ways = v.ways /\ w.client = v.client
      /\ w.sent = v.sent /\ w.passed = v.passed
  BY ONLY PInv, PInv', c \in Conn, <1>2, <1>3, <1>4, CallMoves
<1> HIDE DEF v, w
<1>6. w = [v EXCEPT !.phase = "over", !.told = a]
  BY ONLY <1>5 DEF CallType
<1> QED
  BY <1>5, <1>6 DEF v

(* A dropped call had asked for nothing, was connected, or its client left. *)
LEMMA DropsCall ==
  ASSUME PInv, PInv', NEW c \in Conn, Drops(c)
  PROVE  /\ Asking(conn[c]) => Promise!TurnAway
         /\ conn[c].stage = "answer" /\ conn[c].client = "gone" => Promise!GiveUp(c)
         /\ conn[c].stage = "relay" => Promise!HangUp(c)
<1> DEFINE v == Calls[c]
<1>1. conn[c] \in ConnType /\ Calls[c] = View(conn[c]) /\ StageFacts(conn[c])
  BY DEF PInv, Good, Calls
<1>2. /\ v \in CallType /\ v.phase = Phase(conn[c]) /\ v.told = conn[c].answer
      /\ v.client = conn[c].client
  BY <1>1, CallFields
<1>3. Promise!Becomes(c, [v EXCEPT !.phase = "over", !.told = v.told])
  BY <1>2, CallCloses DEF Drops
<1>4. Calls = [k \in Conn |-> Calls[k]]
  BY DEF Calls
<1> HIDE DEF v
<1>5. [v EXCEPT !.phase = "over", !.told = v.told] = [v EXCEPT !.phase = "over"]
  BY ONLY <1>2 DEF CallType
<1>6. Promise!Becomes(c, [Calls[c] EXCEPT !.phase = "over"])
  BY <1>3, <1>5 DEF v
<1>7. ASSUME Asking(conn[c])
      PROVE  Promise!TurnAway
  <2>1. {c} \in SUBSET {k \in Conn : Calls[k].phase = "idle"}
    BY <1>2, <1>7 DEF v, Asking, Phase, ReadsClient
  <2>2. Calls' = [k \in Conn |-> IF k \in {c} THEN [Calls[k] EXCEPT !.phase = "over"]
                                  ELSE Calls[k]]
    BY <1>4, <1>6 DEF Promise!Becomes
  <2> QED
    BY <2>1, <2>2 DEF Promise!TurnAway
<1>8. ASSUME conn[c].stage = "answer", conn[c].client = "gone"
      PROVE  Promise!GiveUp(c)
  BY <1>1, <1>2, <1>6, <1>8 DEF v, Promise!GiveUp, Phase, ReadsClient, StageFacts
<1>9. ASSUME conn[c].stage = "relay"
      PROVE  Promise!HangUp(c)
  BY <1>2, <1>6, <1>9 DEF v, Promise!HangUp, Phase, ReadsClient
<1> QED
  BY <1>7, <1>8, <1>9

(* A refusal is for calls that are not linked.                              *)
LEMMA RefusesCall ==
  ASSUME PInv, PInv', NEW c \in Conn, Refuses(c),
         Phase(conn[c]) \in {"idle", "asked", "reached"}
  PROVE  Promise!Refuse(c)
<1>1. Promise!Becomes(c, [Calls[c] EXCEPT !.phase = "over", !.told = "error"])
  BY CallCloses DEF Refuses
<1>2. Calls[c].phase = Phase(conn[c])
  BY DEF Calls, View
<1> QED
  BY <1>1, <1>2 DEF Promise!Refuse

(* Up to the request, on the way to ocproxy and when the destination closes,
   a call does not move.                                                    *)
LEMMA CallWaits ==
  ASSUME PInv, PInv', NEW c \in Conn, NEW s,
         \/ conn[c].stage = "none" /\ conn' = [conn EXCEPT ![c].stage = "backlog"]
         \/ conn[c].stage = "backlog" /\ conn' = [conn EXCEPT ![c].stage = "peek"]
         \/ /\ conn[c].stage = "peek"
            /\ conn' = [conn EXCEPT ![c].stage = "greeting", ![c].proto = "socks"]
         \/ /\ conn[c].stage = "peek"
            /\ conn' = [conn EXCEPT ![c].stage = "head", ![c].proto = "http"]
         \/ conn[c].stage = "greeting" /\ conn' = [conn EXCEPT ![c].stage = "request"]
         \/ /\ conn[c].stage = "dial"
            /\ conn' = [conn EXCEPT ![c].stage = "upgreet", ![c].peer = "open"]
         \/ conn' = [conn EXCEPT ![c].peer = s]
  PROVE  UNCHANGED Calls
<1>1. conn[c] \in ConnType
  BY DEF PInv, Good
<1>2. CASE conn[c].stage = "none" /\ conn' = [conn EXCEPT ![c].stage = "backlog"]
  <2> DEFINE r == [conn[c] EXCEPT !.stage = "backlog"]
  <2>1. conn' = [conn EXCEPT ![c] = r]
    BY <1>2 DEF PInv
  <2>2. /\ r.client = conn[c].client /\ r.sent = conn[c].sent
        /\ r.delivered = conn[c].delivered /\ r.target = conn[c].target
        /\ r.reached = conn[c].reached /\ r.answer = conn[c].answer
    BY <1>1 DEF ConnType
  <2>3. Phase(r) = Phase(conn[c])
    BY <1>1, <1>2 DEF ConnType, Phase, ReadsClient
  <2> HIDE DEF r
  <2> QED
    BY <2>1, <2>2, <2>3, CallStays
<1>3. CASE conn[c].stage = "backlog" /\ conn' = [conn EXCEPT ![c].stage = "peek"]
  <2> DEFINE r == [conn[c] EXCEPT !.stage = "peek"]
  <2>1. conn' = [conn EXCEPT ![c] = r]
    BY <1>3 DEF PInv
  <2>2. /\ r.client = conn[c].client /\ r.sent = conn[c].sent
        /\ r.delivered = conn[c].delivered /\ r.target = conn[c].target
        /\ r.reached = conn[c].reached /\ r.answer = conn[c].answer
    BY <1>1 DEF ConnType
  <2>3. Phase(r) = Phase(conn[c])
    BY <1>1, <1>3 DEF ConnType, Phase, ReadsClient
  <2> HIDE DEF r
  <2> QED
    BY <2>1, <2>2, <2>3, CallStays
<1>4. CASE conn[c].stage = "peek" /\ conn' = [conn EXCEPT ![c].stage = "greeting", ![c].proto = "socks"]
  <2> DEFINE r == [conn[c] EXCEPT !.stage = "greeting", !.proto = "socks"]
  <2>1. conn' = [conn EXCEPT ![c] = r]
    BY <1>4 DEF PInv
  <2>2. /\ r.client = conn[c].client /\ r.sent = conn[c].sent
        /\ r.delivered = conn[c].delivered /\ r.target = conn[c].target
        /\ r.reached = conn[c].reached /\ r.answer = conn[c].answer
    BY <1>1 DEF ConnType
  <2>3. Phase(r) = Phase(conn[c])
    BY <1>1, <1>4 DEF ConnType, Phase, ReadsClient
  <2> HIDE DEF r
  <2> QED
    BY <2>1, <2>2, <2>3, CallStays
<1>5. CASE conn[c].stage = "peek" /\ conn' = [conn EXCEPT ![c].stage = "head", ![c].proto = "http"]
  <2> DEFINE r == [conn[c] EXCEPT !.stage = "head", !.proto = "http"]
  <2>1. conn' = [conn EXCEPT ![c] = r]
    BY <1>5 DEF PInv
  <2>2. /\ r.client = conn[c].client /\ r.sent = conn[c].sent
        /\ r.delivered = conn[c].delivered /\ r.target = conn[c].target
        /\ r.reached = conn[c].reached /\ r.answer = conn[c].answer
    BY <1>1 DEF ConnType
  <2>3. Phase(r) = Phase(conn[c])
    BY <1>1, <1>5 DEF ConnType, Phase, ReadsClient
  <2> HIDE DEF r
  <2> QED
    BY <2>1, <2>2, <2>3, CallStays
<1>6. CASE conn[c].stage = "greeting" /\ conn' = [conn EXCEPT ![c].stage = "request"]
  <2> DEFINE r == [conn[c] EXCEPT !.stage = "request"]
  <2>1. conn' = [conn EXCEPT ![c] = r]
    BY <1>6 DEF PInv
  <2>2. /\ r.client = conn[c].client /\ r.sent = conn[c].sent
        /\ r.delivered = conn[c].delivered /\ r.target = conn[c].target
        /\ r.reached = conn[c].reached /\ r.answer = conn[c].answer
    BY <1>1 DEF ConnType
  <2>3. Phase(r) = Phase(conn[c])
    BY <1>1, <1>6 DEF ConnType, Phase, ReadsClient
  <2> HIDE DEF r
  <2> QED
    BY <2>1, <2>2, <2>3, CallStays
<1>7. CASE conn[c].stage = "dial" /\ conn' = [conn EXCEPT ![c].stage = "upgreet", ![c].peer = "open"]
  <2> DEFINE r == [conn[c] EXCEPT !.stage = "upgreet", !.peer = "open"]
  <2>1. conn' = [conn EXCEPT ![c] = r]
    BY <1>7 DEF PInv
  <2>2. /\ r.client = conn[c].client /\ r.sent = conn[c].sent
        /\ r.delivered = conn[c].delivered /\ r.target = conn[c].target
        /\ r.reached = conn[c].reached /\ r.answer = conn[c].answer
    BY <1>1 DEF ConnType
  <2>3. Phase(r) = Phase(conn[c])
    BY <1>1, <1>7 DEF ConnType, Phase, ReadsClient
  <2> HIDE DEF r
  <2> QED
    BY <2>1, <2>2, <2>3, CallStays
<1>8. CASE conn' = [conn EXCEPT ![c].peer = s]
  <2> DEFINE r == [conn[c] EXCEPT !.peer = s]
  <2>1. conn' = [conn EXCEPT ![c] = r]
    BY <1>8 DEF PInv
  <2>2. /\ r.client = conn[c].client /\ r.sent = conn[c].sent
        /\ r.delivered = conn[c].delivered /\ r.target = conn[c].target
        /\ r.reached = conn[c].reached /\ r.answer = conn[c].answer
    BY <1>1 DEF ConnType
  <2>3. Phase(r) = Phase(conn[c])
    BY <1>1, <1>8 DEF ConnType, Phase, ReadsClient
  <2> HIDE DEF r
  <2> QED
    BY <2>1, <2>2, <2>3, CallStays
<1> QED
  BY <1>2, <1>3, <1>4, <1>5, <1>6, <1>7, <1>8

(* A request names the destination, once.                                   *)
LEMMA CallAsks ==
  ASSUME PInv, PInv', NEW c \in Conn, NEW t \in Target,
         conn[c].stage \in {"request", "head"},
         conn' = [conn EXCEPT ![c].stage = "dial", ![c].target = t]
  PROVE  Promise!Ask(c)
<1> DEFINE r == [conn[c] EXCEPT !.stage = "dial", !.target = t]
           v == Calls[c]
           w == View(r)
<1>1. conn[c] \in ConnType /\ Good(conn[c])
  BY DEF PInv, Good
<1>2. conn' = [conn EXCEPT ![c] = r]
  BY DEF PInv
<1>3. /\ r.client = conn[c].client /\ r.sent = conn[c].sent
      /\ r.delivered = conn[c].delivered
      /\ r.target = t /\ r.reached = conn[c].reached /\ r.answer = conn[c].answer
  BY <1>1 DEF ConnType
<1>4. Phase(r) = "asked" /\ Phase(conn[c]) = "idle"
  BY <1>1 DEF ConnType, Phase, ReadsClient, Good, StageFacts, Asking
<1> HIDE DEF r
<1>5. /\ Promise!Becomes(c, w) /\ v \in CallType /\ w \in CallType
      /\ w.phase = Phase(r) /\ v.phase = Phase(conn[c])
      /\ w.target = r.target /\ v.target = conn[c].target
      /\ w.ways = r.reached /\ v.ways = conn[c].reached
      /\ w.told = r.answer /\ v.told = conn[c].answer
      /\ w.client = v.client /\ w.sent = v.sent /\ w.passed = v.passed
  BY ONLY PInv, PInv', c \in Conn, <1>2, <1>3, CallMoves
<1>6. w.phase = "asked" /\ w.target = t /\ w.ways = v.ways /\ w.told = v.told
  BY <1>3, <1>4, <1>5
<1> HIDE DEF v, w
<1>7. w = [v EXCEPT !.phase = "asked", !.target = t]
  BY ONLY <1>5, <1>6 DEF CallType
<1> QED
  BY <1>4, <1>5, <1>7 DEF v, Promise!Ask

(* The name goes out where it belongs.                                      *)
LEMMA CallReaches ==
  ASSUME PInv, PInv', NEW c \in Conn, conn[c].stage = "upgreet",
         conn' = [conn EXCEPT ![c].stage = "upreply",
                              ![c].reached = @ \cup {"tunnel"}]
  PROVE  Promise!Reach(c)
<1> DEFINE r == [conn[c] EXCEPT !.stage = "upreply", !.reached = @ \cup {"tunnel"}]
           v == Calls[c]
           w == View(r)
<1>1. conn[c] \in ConnType /\ Good(conn[c])
  BY DEF PInv, Good
<1>2. conn' = [conn EXCEPT ![c] = r]
  BY DEF PInv
<1>3. /\ r.client = conn[c].client /\ r.sent = conn[c].sent
      /\ r.delivered = conn[c].delivered
      /\ r.reached = conn[c].reached \cup {"tunnel"} /\ r.target = conn[c].target
      /\ r.answer = conn[c].answer
  BY <1>1 DEF ConnType
<1>4. Phase(r) = "reached" /\ Phase(conn[c]) = "asked"
  BY <1>1 DEF ConnType, Phase, ReadsClient, Good, StageFacts, Asking
<1>8. r.reached = {Promise!Way(conn[c].target)}
  BY <1>1, <1>3 DEF Good, StageFacts, RouteOf, Promise!Way
<1> HIDE DEF r
<1>5. /\ Promise!Becomes(c, w) /\ v \in CallType /\ w \in CallType
      /\ w.phase = Phase(r) /\ v.phase = Phase(conn[c])
      /\ w.target = r.target /\ v.target = conn[c].target
      /\ w.ways = r.reached /\ v.ways = conn[c].reached
      /\ w.told = r.answer /\ v.told = conn[c].answer
      /\ w.client = v.client /\ w.sent = v.sent /\ w.passed = v.passed
  BY ONLY PInv, PInv', c \in Conn, <1>2, <1>3, CallMoves
<1>6. w.phase = "reached" /\ w.target = v.target /\ w.told = v.told /\ w.ways = {Promise!Way(v.target)}
  BY <1>3, <1>4, <1>5, <1>8
<1> HIDE DEF v, w
<1>7. w = [v EXCEPT !.phase = "reached", !.ways = {Promise!Way(v.target)}]
  BY ONLY <1>5, <1>6 DEF CallType
<1> QED
  BY <1>4, <1>5, <1>7 DEF v, Promise!Reach

(* ocproxy confirms what it was asked for.                                  *)
LEMMA CallLinks ==
  ASSUME PInv, PInv', NEW c \in Conn, conn[c].stage = "upreply",
         conn' = [conn EXCEPT ![c].stage = "answer", ![c].confirmed = "tunnel"]
  PROVE  Promise!Link(c)
<1> DEFINE r == [conn[c] EXCEPT !.stage = "answer", !.confirmed = "tunnel"]
           v == Calls[c]
           w == View(r)
<1>1. conn[c] \in ConnType /\ Good(conn[c])
  BY DEF PInv, Good
<1>2. conn' = [conn EXCEPT ![c] = r]
  BY DEF PInv
<1>3. /\ r.client = conn[c].client /\ r.sent = conn[c].sent
      /\ r.delivered = conn[c].delivered
      /\ r.reached = conn[c].reached /\ r.target = conn[c].target
      /\ r.answer = conn[c].answer
  BY <1>1 DEF ConnType
<1>4. Phase(r) = "linked" /\ Phase(conn[c]) = "reached"
  BY <1>1 DEF ConnType, Phase, ReadsClient, Good, StageFacts, Asking
<1>8. r.reached = {Promise!Way(conn[c].target)}
  BY <1>1, <1>3 DEF Good, StageFacts, RouteOf, Promise!Way
<1> HIDE DEF r
<1>5. /\ Promise!Becomes(c, w) /\ v \in CallType /\ w \in CallType
      /\ w.phase = Phase(r) /\ v.phase = Phase(conn[c])
      /\ w.target = r.target /\ v.target = conn[c].target
      /\ w.ways = r.reached /\ v.ways = conn[c].reached
      /\ w.told = r.answer /\ v.told = conn[c].answer
      /\ w.client = v.client /\ w.sent = v.sent /\ w.passed = v.passed
  BY ONLY PInv, PInv', c \in Conn, <1>2, <1>3, CallMoves
<1>6. w.phase = "linked" /\ w.target = v.target /\ w.told = v.told /\ w.ways = {Promise!Way(v.target)}
  BY <1>3, <1>4, <1>5, <1>8
<1> HIDE DEF v, w
<1>7. w = [v EXCEPT !.phase = "linked", !.ways = {Promise!Way(v.target)}]
  BY ONLY <1>5, <1>6 DEF CallType
<1> QED
  BY <1>4, <1>5, <1>7 DEF v, Promise!Link

(* A direct connection is its own confirmation.                             *)
LEMMA CallLinksDirect ==
  ASSUME PInv, PInv', NEW c \in Conn, conn[c].stage = "dial",
         RouteOf(conn[c].target) = "direct",
         conn' = [conn EXCEPT ![c].stage = "answer", ![c].peer = "open",
                              ![c].reached = @ \cup {"direct"},
                              ![c].confirmed = "direct"]
  PROVE  Promise!Link(c)
<1> DEFINE r == [conn[c] EXCEPT !.stage = "answer", !.peer = "open", !.reached = @ \cup {"direct"},
                              !.confirmed = "direct"]
           v == Calls[c]
           w == View(r)
<1>1. conn[c] \in ConnType /\ Good(conn[c])
  BY DEF PInv, Good
<1>2. conn' = [conn EXCEPT ![c] = r]
  BY DEF PInv
<1>3. /\ r.client = conn[c].client /\ r.sent = conn[c].sent
      /\ r.delivered = conn[c].delivered
      /\ r.reached = conn[c].reached \cup {"direct"} /\ r.target = conn[c].target
      /\ r.answer = conn[c].answer
  BY <1>1 DEF ConnType
<1>4. Phase(r) = "linked" /\ Phase(conn[c]) = "asked"
  BY <1>1 DEF ConnType, Phase, ReadsClient, Good, StageFacts, Asking
<1>8. r.reached = {Promise!Way(conn[c].target)}
  BY <1>1, <1>3 DEF Good, StageFacts, RouteOf, Promise!Way
<1> HIDE DEF r
<1>5. /\ Promise!Becomes(c, w) /\ v \in CallType /\ w \in CallType
      /\ w.phase = Phase(r) /\ v.phase = Phase(conn[c])
      /\ w.target = r.target /\ v.target = conn[c].target
      /\ w.ways = r.reached /\ v.ways = conn[c].reached
      /\ w.told = r.answer /\ v.told = conn[c].answer
      /\ w.client = v.client /\ w.sent = v.sent /\ w.passed = v.passed
  BY ONLY PInv, PInv', c \in Conn, <1>2, <1>3, CallMoves
<1>6. w.phase = "linked" /\ w.target = v.target /\ w.told = v.told /\ w.ways = {Promise!Way(v.target)}
  BY <1>3, <1>4, <1>5, <1>8
<1> HIDE DEF v, w
<1>7. w = [v EXCEPT !.phase = "linked", !.ways = {Promise!Way(v.target)}]
  BY ONLY <1>5, <1>6 DEF CallType
<1> QED
  BY <1>4, <1>5, <1>7 DEF v, Promise!Link

(* A failed one has still named its destination.                            *)
LEMMA CallFails ==
  ASSUME PInv, PInv', NEW c \in Conn, conn[c].stage = "dial",
         RouteOf(conn[c].target) = "direct",
         conn' = [conn EXCEPT ![c].stage = "closed", ![c].answer = "error",
                              ![c].reached = @ \cup {"direct"}]
  PROVE  Promise!Fail(c)
<1> DEFINE r == [conn[c] EXCEPT !.stage = "closed", !.answer = "error",
                              !.reached = @ \cup {"direct"}]
           v == Calls[c]
           w == View(r)
<1>1. conn[c] \in ConnType /\ Good(conn[c])
  BY DEF PInv, Good
<1>2. conn' = [conn EXCEPT ![c] = r]
  BY DEF PInv
<1>3. /\ r.client = conn[c].client /\ r.sent = conn[c].sent
      /\ r.delivered = conn[c].delivered
      /\ r.reached = conn[c].reached \cup {"direct"} /\ r.target = conn[c].target
      /\ r.answer = "error"
  BY <1>1 DEF ConnType
<1>4. Phase(r) = "over" /\ Phase(conn[c]) = "asked"
  BY <1>1 DEF ConnType, Phase, ReadsClient, Good, StageFacts, Asking
<1>8. r.reached = {Promise!Way(conn[c].target)}
  BY <1>1, <1>3 DEF Good, StageFacts, RouteOf, Promise!Way
<1> HIDE DEF r
<1>5. /\ Promise!Becomes(c, w) /\ v \in CallType /\ w \in CallType
      /\ w.phase = Phase(r) /\ v.phase = Phase(conn[c])
      /\ w.target = r.target /\ v.target = conn[c].target
      /\ w.ways = r.reached /\ v.ways = conn[c].reached
      /\ w.told = r.answer /\ v.told = conn[c].answer
      /\ w.client = v.client /\ w.sent = v.sent /\ w.passed = v.passed
  BY ONLY PInv, PInv', c \in Conn, <1>2, <1>3, CallMoves
<1>6. w.phase = "over" /\ w.target = v.target /\ w.told = "error" /\ w.ways = {Promise!Way(v.target)}
  BY <1>3, <1>4, <1>5, <1>8
<1> HIDE DEF v, w
<1>7. w = [v EXCEPT !.phase = "over", !.told = "error",
                   !.ways = {Promise!Way(v.target)}]
  BY ONLY <1>5, <1>6 DEF CallType
<1> QED
  BY <1>4, <1>5, <1>7 DEF v, Promise!Fail

(* Success is told of what is linked.                                       *)
LEMMA CallTold ==
  ASSUME PInv, PInv', NEW c \in Conn, conn[c].stage = "answer",
         conn' = [conn EXCEPT ![c].stage = "relay", ![c].answer = "ok"]
  PROVE  Promise!Tell(c)
<1> DEFINE r == [conn[c] EXCEPT !.stage = "relay", !.answer = "ok"]
           v == Calls[c]
           w == View(r)
<1>1. conn[c] \in ConnType /\ Good(conn[c])
  BY DEF PInv, Good
<1>2. conn' = [conn EXCEPT ![c] = r]
  BY DEF PInv
<1>3. /\ r.client = conn[c].client /\ r.sent = conn[c].sent
      /\ r.delivered = conn[c].delivered
      /\ r.reached = conn[c].reached /\ r.target = conn[c].target /\ r.answer = "ok"
  BY <1>1 DEF ConnType
<1>4. Phase(r) = "connected" /\ Phase(conn[c]) = "linked"
  BY <1>1 DEF ConnType, Phase, ReadsClient, Good, StageFacts, Asking
<1> HIDE DEF r
<1>5. /\ Promise!Becomes(c, w) /\ v \in CallType /\ w \in CallType
      /\ w.phase = Phase(r) /\ v.phase = Phase(conn[c])
      /\ w.target = r.target /\ v.target = conn[c].target
      /\ w.ways = r.reached /\ v.ways = conn[c].reached
      /\ w.told = r.answer /\ v.told = conn[c].answer
      /\ w.client = v.client /\ w.sent = v.sent /\ w.passed = v.passed
  BY ONLY PInv, PInv', c \in Conn, <1>2, <1>3, CallMoves
<1>6. w.phase = "connected" /\ w.target = v.target /\ w.ways = v.ways /\ w.told = "ok"
  BY <1>3, <1>4, <1>5
<1> HIDE DEF v, w
<1>7. w = [v EXCEPT !.phase = "connected", !.told = "ok"]
  BY ONLY <1>5, <1>6 DEF CallType
<1> QED
  BY <1>4, <1>5, <1>7 DEF v, Promise!Tell

(* Chunks are counted one by one, up to the end of the call.                *)
LEMMA CallSends ==
  ASSUME PInv, PInv', NEW c \in Conn, NEW d \in Dir, Sends(c, d)
  PROVE  Promise!Send(c, d)
<1> DEFINE r == [conn[c] EXCEPT !.sent[d] = @ + 1, !.unread[d] = @ + 1]
           v == Calls[c]
           w == View(r)
<1>1. conn[c] \in ConnType /\ Good(conn[c])
  BY DEF PInv, Good
<1>2. conn' = [conn EXCEPT ![c] = r]
  BY <1>1 DEF PInv, ConnType, Sends
<1>3. /\ r.sent = [conn[c].sent EXCEPT ![d] = @ + 1] /\ r.target = conn[c].target
      /\ r.reached = conn[c].reached /\ r.answer = conn[c].answer
      /\ r.client = conn[c].client /\ r.delivered = conn[c].delivered
      /\ r.stage = conn[c].stage /\ r.confirmed = conn[c].confirmed
  BY <1>1 DEF ConnType
<1>4. Phase(r) = Phase(conn[c])
  BY <1>1 DEF ConnType, Phase
<1> HIDE DEF r
<1>5. r \in ConnType /\ Promise!Becomes(c, w) /\ v = View(conn[c])
  BY ONLY PInv, PInv', c \in Conn, <1>2, OneCall
<1>6. /\ v \in CallType /\ v.phase = Phase(conn[c]) /\ v.target = conn[c].target
      /\ v.ways = conn[c].reached /\ v.told = conn[c].answer
      /\ v.client = conn[c].client /\ v.sent = conn[c].sent
      /\ v.passed = conn[c].delivered
  BY <1>1, <1>5, CallFields
<1>7. /\ w \in CallType /\ w.phase = Phase(r) /\ w.target = r.target
      /\ w.ways = r.reached /\ w.told = r.answer /\ w.client = r.client
      /\ w.sent = r.sent /\ w.passed = r.delivered
  BY <1>5, CallFields
<1>8. /\ v.phase # "over"
      /\ d = "down" => v.phase \in {"linked", "connected"}
  BY <1>1, <1>6 DEF Sends, Connected, Phase, ConnType, Stages, ReadsClient,
     Good, StageFacts
<1> HIDE DEF v, w
<1>9. w = [v EXCEPT !.sent[d] = @ + 1]
  BY ONLY <1>3, <1>4, <1>6, <1>7, d \in Dir DEF CallType
<1> QED
  BY <1>5, <1>8, <1>9 DEF v, Promise!Send

(* Only what was sent is passed on, and only once.                          *)
LEMMA CallPasses ==
  ASSUME PInv, PInv', NEW c \in Conn, NEW d \in Dir, Copy(c, d)
  PROVE  Promise!Pass(c, d)
<1> DEFINE r == [conn[c] EXCEPT !.unread[d] = @ - 1, !.delivered[d] = @ + 1]
           v == Calls[c]
           w == View(r)
<1>1. conn[c] \in ConnType /\ Good(conn[c])
  BY DEF PInv, Good
<1>2. conn' = [conn EXCEPT ![c] = r]
  BY <1>1 DEF PInv, ConnType, Copy
<1>3. /\ r.delivered = [conn[c].delivered EXCEPT ![d] = @ + 1]
      /\ r.target = conn[c].target /\ r.reached = conn[c].reached
      /\ r.answer = conn[c].answer /\ r.client = conn[c].client
      /\ r.sent = conn[c].sent /\ r.stage = conn[c].stage
      /\ r.confirmed = conn[c].confirmed
  BY <1>1 DEF ConnType
<1>4. Phase(r) = Phase(conn[c])
  BY <1>1 DEF ConnType, Phase
<1> HIDE DEF r
<1>5. r \in ConnType /\ Promise!Becomes(c, w) /\ v = View(conn[c])
  BY ONLY PInv, PInv', c \in Conn, <1>2, OneCall
<1>6. /\ v \in CallType /\ v.phase = Phase(conn[c]) /\ v.target = conn[c].target
      /\ v.ways = conn[c].reached /\ v.told = conn[c].answer
      /\ v.client = conn[c].client /\ v.sent = conn[c].sent
      /\ v.passed = conn[c].delivered
  BY <1>1, <1>5, CallFields
<1>7. /\ w \in CallType /\ w.phase = Phase(r) /\ w.target = r.target
      /\ w.ways = r.reached /\ w.told = r.answer /\ w.client = r.client
      /\ w.sent = r.sent /\ w.passed = r.delivered
  BY <1>5, CallFields
<1>8. v.phase = "connected" /\ v.passed[d] < v.sent[d]
  BY <1>1, <1>6 DEF Copy, Phase, ReadsClient, ConnType, Good, Counted
<1> HIDE DEF v, w
<1>9. w = [v EXCEPT !.passed[d] = @ + 1]
  BY ONLY <1>3, <1>4, <1>6, <1>7, d \in Dir DEF CallType
<1> QED
  BY <1>5, <1>8, <1>9 DEF v, Promise!Pass

(* A client may leave while the call lasts.                                 *)
LEMMA CallLeaves ==
  ASSUME PInv, PInv', NEW c \in Conn, NEW s \in {"halfclosed", "gone"},
         Connected(c), conn[c].client # "gone",
         conn' = [conn EXCEPT ![c].client = s]
  PROVE  Promise!Leave(c)
<1> DEFINE r == [conn[c] EXCEPT !.client = s]
           v == Calls[c]
           w == View(r)
<1>1. conn[c] \in ConnType /\ Good(conn[c])
  BY DEF PInv, Good
<1>2. conn' = [conn EXCEPT ![c] = r]
  BY <1>1 DEF PInv, ConnType
<1>3. /\ r.client = s /\ r.target = conn[c].target /\ r.reached = conn[c].reached
      /\ r.answer = conn[c].answer /\ r.sent = conn[c].sent
      /\ r.delivered = conn[c].delivered /\ r.stage = conn[c].stage
      /\ r.confirmed = conn[c].confirmed
  BY <1>1 DEF ConnType
<1>4. Phase(r) = Phase(conn[c])
  BY <1>1 DEF ConnType, Phase
<1> HIDE DEF r
<1>5. r \in ConnType /\ Promise!Becomes(c, w) /\ v = View(conn[c])
  BY ONLY PInv, PInv', c \in Conn, <1>2, OneCall
<1>6. /\ v \in CallType /\ v.phase = Phase(conn[c]) /\ v.target = conn[c].target
      /\ v.ways = conn[c].reached /\ v.told = conn[c].answer
      /\ v.client = conn[c].client /\ v.sent = conn[c].sent
      /\ v.passed = conn[c].delivered
  BY <1>1, <1>5, CallFields
<1>7. /\ w \in CallType /\ w.phase = Phase(r) /\ w.target = r.target
      /\ w.ways = r.reached /\ w.told = r.answer /\ w.client = r.client
      /\ w.sent = r.sent /\ w.passed = r.delivered
  BY <1>5, CallFields
<1>8. v.phase # "over" /\ v.client # "gone"
  BY <1>1, <1>6 DEF Connected, Phase, ConnType, Stages, ReadsClient
<1> HIDE DEF v, w
<1>9. w = [v EXCEPT !.client = s]
  BY ONLY <1>3, <1>4, <1>6, <1>7 DEF CallType
<1> QED
  BY <1>5, <1>8, <1>9 DEF v, Promise!Leave

(* The end of the tunnel is no call's end yet, however many it cuts.        *)
LEMMA CallsOutliveTunnel ==
  ASSUME PInv, TunnelEnds
  PROVE  UNCHANGED Calls
<1>1. ASSUME NEW c \in Conn
      PROVE  View(conn'[c]) = View(conn[c])
  <2> DEFINE r == [conn[c] EXCEPT !.peer = "gone"]
  <2>1. conn[c] \in ConnType
    BY DEF PInv, Good
  <2>2. conn'[c] = r \/ conn'[c] = conn[c]
    BY DEF TunnelEnds
  <2>3. /\ r.stage = conn[c].stage /\ r.target = conn[c].target
        /\ r.reached = conn[c].reached /\ r.answer = conn[c].answer
        /\ r.client = conn[c].client /\ r.sent = conn[c].sent
        /\ r.delivered = conn[c].delivered /\ r.confirmed = conn[c].confirmed
    BY <2>1 DEF ConnType
  <2> HIDE DEF r
  <2>4. Phase(r) = Phase(conn[c])
    BY <2>3 DEF Phase
  <2>5. View(r) = View(conn[c])
    BY <2>3, <2>4 DEF View
  <2> QED
    BY <2>2, <2>5
<1> QED
  BY <1>1 DEF Calls

(* What nobody accepted has asked for nothing.                              *)
LEMMA CallsTurnedAway ==
  ASSUME PInv, PInv', ListenerCloses
  PROVE  Promise!TurnAway
<1> DEFINE S == {c \in Conn : conn[c].stage = "backlog"}
<1>1. ASSUME NEW c \in S
      PROVE  /\ Calls[c].phase = "idle"
             /\ Calls'[c] = [Calls[c] EXCEPT !.phase = "over"]
  <2> DEFINE r == [conn[c] EXCEPT !.stage = "closed"]
             v == Calls[c]
             w == View(r)
  <2>1. conn[c] \in ConnType /\ conn'[c] = r /\ r \in ConnType
    BY DEF PInv, Good, ListenerCloses
  <2>2. /\ r.target = conn[c].target /\ r.reached = conn[c].reached
        /\ r.answer = conn[c].answer /\ r.client = conn[c].client
        /\ r.sent = conn[c].sent /\ r.delivered = conn[c].delivered
    BY <2>1 DEF ConnType
  <2>3. Phase(r) = "over" /\ Phase(conn[c]) = "idle"
    BY <2>1 DEF ConnType, Phase, ReadsClient
  <2>4. v = View(conn[c]) /\ Calls'[c] = w
    BY <2>1 DEF Calls
  <2> HIDE DEF r
  <2>5. /\ v \in CallType /\ v.phase = "idle" /\ v.target = conn[c].target
        /\ v.ways = conn[c].reached /\ v.told = conn[c].answer
        /\ v.client = conn[c].client /\ v.sent = conn[c].sent
        /\ v.passed = conn[c].delivered
    BY <2>1, <2>3, <2>4, CallFields
  <2>6. /\ w \in CallType /\ w.phase = "over" /\ w.target = r.target
        /\ w.ways = r.reached /\ w.told = r.answer /\ w.client = r.client
        /\ w.sent = r.sent /\ w.passed = r.delivered
    BY <2>1, <2>3, CallFields
  <2> HIDE DEF v, w
  <2>7. w = [v EXCEPT !.phase = "over"]
    BY ONLY <2>2, <2>5, <2>6 DEF CallType
  <2> QED
    BY <2>4, <2>5, <2>7 DEF v
<1>2. ASSUME NEW c \in Conn \ S
      PROVE  Calls'[c] = Calls[c]
  BY DEF ListenerCloses, Calls
<1>3. S \in SUBSET {c \in Conn : Calls[c].phase = "idle"}
  BY <1>1
<1>4. Calls' = [c \in Conn |-> Calls'[c]]
  BY DEF Calls
<1> HIDE DEF S
<1>5. Calls' = [c \in Conn |-> IF c \in S
                  THEN [Calls[c] EXCEPT !.phase = "over"] ELSE Calls[c]]
  BY <1>1, <1>2, <1>4
<1> QED
  BY <1>3, <1>5 DEF Promise!TurnAway

(* What one handler, or the two ends of its connection, do is one step of
   the call, or none.                                                       *)
LEMMA HandlerKeepsPromise ==
  ASSUME PInv, PInv', NEW c \in Conn,
         FromClient(c) \/ FromOcproxy(c) \/ Relay(c) \/ Handler(c)
  PROVE  Promise!Next \/ UNCHANGED Calls
<1>0. conn[c] \in ConnType /\ StageFacts(conn[c])
  BY DEF PInv, Good
<1>1. CASE /\ Drops(c)
           /\ \/ Asking(conn[c])
              \/ conn[c].stage = "relay"
              \/ conn[c].stage = "answer" /\ conn[c].client = "gone"
  BY <1>1, DropsCall DEF Promise!Next
<1>2. CASE Refuses(c) /\ conn[c].stage \in {"greeting", "request", "head", "dial",
                                            "upgreet", "upreply"}
  <2>1. Phase(conn[c]) \in {"idle", "asked", "reached"}
    BY <1>2 DEF Phase, ReadsClient
  <2> QED
    BY <1>2, <2>1, RefusesCall DEF Promise!Next
<1>3. CASE Peek(c) \/ Greeting(c)
  BY <1>1, <1>2, <1>3, CallWaits DEF Peek, Greeting, Asking
<1>4. CASE Request(c)
  <2>1. CASE \E t \in Target :
               conn' = [conn EXCEPT ![c].stage = "dial", ![c].target = t]
    BY <1>4, <2>1, CallAsks DEF Request, Promise!Next
  <2> QED
    BY <1>1, <1>2, <1>4, <2>1 DEF Request, Asking
<1>5. CASE RequestEnds(c)
  BY <1>1, <1>5 DEF RequestEnds, ReadsClient, Asking
<1>6. CASE DialDirect(c)
  BY <1>6, CallLinksDirect, CallFails DEF DialDirect, Promise!Next
<1>7. CASE DialTunnel(c)
  BY <1>2, <1>7, CallWaits DEF DialTunnel
<1>8. CASE UpstreamGreeting(c)
  BY <1>2, <1>8, CallReaches DEF UpstreamGreeting, Promise!Next
<1>9. CASE UpstreamReply(c)
  BY <1>2, <1>9, CallLinks DEF UpstreamReply, Promise!Next
<1>10. CASE UpstreamLost(c)
  BY <1>2, <1>10 DEF UpstreamLost
<1>11. CASE Answer(c)
  BY <1>1, <1>11, CallTold DEF Answer, Promise!Next
<1>12. CASE RelayEnds(c) \/ RelayBreaks(c)
  BY <1>1, <1>12 DEF RelayEnds, RelayBreaks
<1>13. ASSUME NEW d \in Dir, Copy(c, d)
       PROVE  Promise!Next
  BY <1>13, CallPasses DEF Promise!Next, Promise!Dir
<1> QED
  BY <1>3, <1>4, <1>5, <1>6, <1>7, <1>8, <1>9, <1>10, <1>11, <1>12, <1>13
  DEF FromClient, FromOcproxy, Handler, Relay

LEMMA OutsideKeepsPromise ==
  ASSUME PInv, PInv', NEW c \in Conn, Accept(c) \/ Outside(c)
  PROVE  Promise!Next \/ UNCHANGED Calls
<1>1. CASE Accept(c) \/ ClientConnects(c)
  BY <1>1, CallWaits DEF Accept, ClientConnects
<1>2. CASE ClientCloses(c)
  BY <1>2, CallLeaves DEF ClientCloses, Promise!Next
<1>3. CASE PeerCloses(c)
  BY <1>3, CallWaits DEF PeerCloses
<1>4. ASSUME NEW d \in Dir, Sends(c, d)
      PROVE  Promise!Next
  BY <1>4, CallSends DEF Promise!Next, Promise!Dir
<1> QED
  BY <1>1, <1>2, <1>3, <1>4 DEF Outside

LEMMA StepKeepsPromise ==
  ASSUME PInv, PInv', [Next]_vars
  PROVE  [Promise!Next]_Calls
<1>1. CASE Bind \/ TunnelStarts \/ StopRequested \/ UNCHANGED vars
  BY <1>1 DEF Bind, TunnelStarts, StopRequested, vars, Calls
<1>2. CASE ListenerCloses
  BY <1>2, CallsTurnedAway DEF Promise!Next
<1>3. CASE TunnelEnds
  BY <1>3, CallsOutliveTunnel
<1>4. ASSUME NEW c \in Conn, Accept(c) \/ Outside(c)
      PROVE  Promise!Next \/ UNCHANGED Calls
  BY <1>4, OutsideKeepsPromise
<1>5. ASSUME NEW c \in Conn,
             FromClient(c) \/ FromOcproxy(c) \/ Relay(c) \/ Handler(c)
      PROVE  Promise!Next \/ UNCHANGED Calls
  BY <1>5, HandlerKeepsPromise
<1> QED
  BY <1>1, <1>2, <1>3, <1>4, <1>5 DEF Next, Loop

(* The proxy serves every client as ProxyContract says, for any number of
   clients, though tunnel and listener change many connections in one step. *)
THEOREM ProxyKeepsContract == Spec => ImplementsProxyContract
<1>1. Init => Promise!Init
  <2>1. View(Fresh) = Promise!NewCall
    BY DEF View, Phase, Fresh, ReadsClient, Promise!NewCall, Promise!Dir
  <2> QED
    BY <2>1 DEF Init, Calls, Promise!Init
<1>2. PInv /\ PInv' /\ [Next]_vars => [Promise!Next]_Calls
  BY StepKeepsPromise
<1> QED
  BY <1>1, <1>2, ProxyStrengthened, PTL
  DEF Spec, ImplementsProxyContract, Promise!Spec
=============================================================================
