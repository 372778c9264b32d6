-------------------- MODULE ClientHandshake_refinement ---------------------
(***************************************************************************)
(* ClientHandshake implements HandshakeAbstract under the mapping          *)
(* phaseBar, keyBar, replyBar of ClientHandshake, for every value of the   *)
(* constants.                                                             *)
(*                                                                         *)
(* Every step of the handshake changes the record and the peer of one      *)
(* connection c.  Moves(w, x, r, s) says what such a change may do to c's  *)
(* image: nothing, or one step of SendKey, Answer, Open or Abandon.  Each  *)
(* handler is shown to make such a move; Lift turns a move into a step of  *)
(* the abstract specification.  The invariant ReqInv says how the request  *)
(* field relates to the mode and to the reply; it is what makes the key of *)
(* a waiting connection fixed, a reply come only after a request, and an   *)
(* established connection free of pending timeouts.                       *)
(***************************************************************************)
EXTENDS ClientHandshake_proofs

(* One connection's request state: no request before the handshake was   *)
(* sent (lines 91-236), a request once it waits or is established (lines  *)
(* 230-234), a generated key with every request, a reply only to a       *)
(* request, and no pending timeout on an established connection, which    *)
(* did get a reply (lines 606-608).                                       *)
ReqOK(w, r) ==
    /\ w.mode \in {"WaitingProxyReply", "IssueHandshake"} => w.req = "None"
    /\ w.mode \in {"WaitingServerReply", "WsClient"} => w.req # "None"
    /\ w.req # "None" => w.key \in Keys
    /\ r.resp # NoResp => w.req # "None"
    /\ w.mode = "WsClient" => w.timeout = "None" /\ r.resp # NoResp

ReqInv == \A c \in Conns : ReqOK(wsi[c], srv[c])

RInv == Inv /\ ReqInv

(* What a change of one connection's record from w to x and of its peer  *)
(* from r to s does to the connection's abstract image.                   *)
Moves(w, x, r, s) ==
    LET p == PhaseOf(w.mode)
        p2 == PhaseOf(x.mode)
        k == OfferedKey(w)
        k2 == OfferedKey(x)
    IN  \/ p2 = p /\ k2 = k /\ s.resp = r.resp
        \/ p = "Connecting" /\ p2 = p /\ k = NoKey /\ k2 \in Keys /\ s.resp = r.resp
        \/ /\ p = "Connecting" /\ p2 = p /\ k2 = k /\ k # NoKey
           /\ r.resp = NoResp /\ s.resp \in Responses
        \/ p = "Connecting" /\ p2 = "Open" /\ k2 = k /\ s.resp = r.resp
        \/ p = "Connecting" /\ p2 \in {"Closed", "Failed"} /\ k2 = k /\ s.resp = r.resp

(* A step that replaces the record and the peer of connection c by x and *)
(* s, with a legal move and the request state kept.                       *)
OneConn(c) ==
    \E x \in WsiType, s \in SrvType :
        /\ wsi' = [wsi EXCEPT ![c] = x]
        /\ srv' = [srv EXCEPT ![c] = s]
        /\ ReqOK(x, s)
        /\ Moves(wsi[c], x, srv[c], s)

-----------------------------------------------------------------------------
(* The image of one connection.                                            *)

(* The phase of each mode. *)
LEMMA PhaseOfModes ==
    /\ PhaseOf("WaitingProxyReply") = "Connecting"
    /\ PhaseOf("IssueHandshake") = "Connecting"
    /\ PhaseOf("WaitingServerReply") = "Connecting"
    /\ PhaseOf("WsClient") = "Open"
    /\ PhaseOf("Closed") = "Closed"
    /\ PhaseOf("Crashed") = "Failed"
BY DEF PhaseOf, Waiting

(* The key of a record is offered exactly when a request went out. *)
LEMMA OfferedKeyDef ==
    ASSUME NEW w
    PROVE  /\ w.req = "None" => OfferedKey(w) = NoKey
           /\ w.req # "None" => OfferedKey(w) = w.key
BY DEF OfferedKey

(* NoKey is no key. *)
LEMMA NoKeyFact == NoKey \notin Keys
BY Zenon, ConstAssumption

-----------------------------------------------------------------------------
(* The issue path: lines 54-236 before the request went out.              *)

(* A connection that has not sent its request and is moved to a typed     *)
(* record that waits only with a request keeps its request state and       *)
(* stutters, is abandoned, or offers its key.                              *)
LEMMA IssueMoves ==
    ASSUME NEW w \in WsiType, NEW x \in WsiType, NEW r, NEW s,
           w.mode \in {"WaitingProxyReply", "IssueHandshake"},
           w.req = "None", r.resp = NoResp, s.resp = r.resp,
           x.mode \in {"WaitingProxyReply", "IssueHandshake", "Closed",
                      "WaitingServerReply"},
           x.mode = "WaitingServerReply" => x.key \in Keys,
           x.mode = "WaitingServerReply" => x.req \in {"Full", "Partial"},
           x.mode # "WaitingServerReply" => x.req = w.req
    PROVE  ReqOK(x, s) /\ Moves(w, x, r, s)
<1>1. PhaseOf(w.mode) = "Connecting" /\ OfferedKey(w) = NoKey
  BY PhaseOfModes, OfferedKeyDef
<1>2. ReqOK(x, s)
  BY DEF ReqOK
<1>3. CASE x.mode \in {"WaitingProxyReply", "IssueHandshake"}
  <2>1. PhaseOf(x.mode) = "Connecting" /\ OfferedKey(x) = NoKey
    BY <1>3, PhaseOfModes, OfferedKeyDef
  <2>. QED  BY <1>1, <1>2, <2>1 DEF Moves
<1>4. CASE x.mode = "Closed"
  <2>1. PhaseOf(x.mode) = "Closed" /\ OfferedKey(x) = NoKey
    BY <1>4, PhaseOfModes, OfferedKeyDef
  <2>. QED  BY <1>1, <1>2, <2>1 DEF Moves
<1>5. CASE x.mode = "WaitingServerReply"
  <2>1. PhaseOf(x.mode) = "Connecting" /\ OfferedKey(x) = x.key /\ x.key \in Keys
    BY <1>5, PhaseOfModes, OfferedKeyDef
  <2>. QED  BY <1>1, <1>2, <2>1 DEF Moves
<1>. QED  BY <1>2, <1>3, <1>4, <1>5

(* Lines 54-89: reading the CONNECT reply. *)
LEMMA ProxyReplyConn ==
    ASSUME RInv, NEW c \in Conns, NEW ev, ServiceProxyReply(c, ev)
    PROVE  OneConn(c)
<1>1. TypeOK
  BY DEF RInv, Inv
<1>2. /\ wsi[c].mode = "WaitingProxyReply"
      /\ srv' = srv \/ srv' = [srv EXCEPT ![c].prx_read = TRUE]
      /\ \E x \in WsiType :
            /\ wsi' = [wsi EXCEPT ![c] = x]
            /\ x.mode \in {"WaitingProxyReply", "IssueHandshake", "Closed",
                          "WaitingServerReply"}
            /\ x.mode = "WaitingServerReply" => x.key \in Keys
            /\ x.mode = "WaitingServerReply" => x.req \in {"Full", "Partial"}
            /\ x.mode # "WaitingServerReply" => x.req = wsi[c].req
            /\ x.consumed = wsi[c].consumed
  BY <1>1, ServiceProxyReplyStep
<1>3. PICK x \in WsiType :
            /\ wsi' = [wsi EXCEPT ![c] = x]
            /\ x.mode \in {"WaitingProxyReply", "IssueHandshake", "Closed",
                          "WaitingServerReply"}
            /\ x.mode = "WaitingServerReply" => x.key \in Keys
            /\ x.mode = "WaitingServerReply" => x.req \in {"Full", "Partial"}
            /\ x.mode # "WaitingServerReply" => x.req = wsi[c].req
  BY <1>2
<1>4. wsi[c] \in WsiType /\ srv[c] \in SrvType
  BY <1>1 DEF TypeOK
<1>5. wsi[c].req = "None" /\ srv[c].resp = NoResp
  BY <1>2 DEF RInv, ReqInv, ReqOK
<1>6. PICK s \in SrvType : srv' = [srv EXCEPT ![c] = s] /\ s.resp = srv[c].resp
  <2>1. CASE srv' = srv
    <3>1. srv' = [srv EXCEPT ![c] = srv[c]]
      BY <1>1, <2>1 DEF TypeOK
    <3>. QED  BY <1>4, <3>1
  <2>2. CASE srv' = [srv EXCEPT ![c].prx_read = TRUE]
    <3>1. [srv[c] EXCEPT !.prx_read = TRUE] \in SrvType
      BY <1>4, SrvSetPrxRead
    <3>2. /\ srv' = [srv EXCEPT ![c] = [srv[c] EXCEPT !.prx_read = TRUE]]
          /\ [srv[c] EXCEPT !.prx_read = TRUE].resp = srv[c].resp
      BY <2>2
    <3>. QED  BY <3>1, <3>2
  <2>. QED  BY <1>2, <2>1, <2>2
<1>7. ReqOK(x, s) /\ Moves(wsi[c], x, srv[c], s)
  BY <1>2, <1>3, <1>4, <1>5, <1>6, IssueMoves
<1>. QED  BY <1>3, <1>6, <1>7 DEF OneConn

(* Lines 91-236 entered directly. *)
LEMMA IssueConn ==
    ASSUME RInv, NEW c \in Conns, ServiceIssueHandshake(c)
    PROVE  OneConn(c)
<1>1. TypeOK
  BY DEF RInv, Inv
<1>2. /\ wsi[c].mode = "IssueHandshake"
      /\ srv' = srv
      /\ \E x \in WsiType :
            /\ wsi' = [wsi EXCEPT ![c] = x]
            /\ x.mode \in {"WaitingProxyReply", "IssueHandshake", "Closed",
                          "WaitingServerReply"}
            /\ x.mode = "WaitingServerReply" => x.key \in Keys
            /\ x.mode = "WaitingServerReply" => x.req \in {"Full", "Partial"}
            /\ x.mode # "WaitingServerReply" => x.req = wsi[c].req
            /\ x.consumed = wsi[c].consumed
  BY <1>1, ServiceIssueHandshakeStep
<1>3. PICK x \in WsiType :
            /\ wsi' = [wsi EXCEPT ![c] = x]
            /\ x.mode \in {"WaitingProxyReply", "IssueHandshake", "Closed",
                          "WaitingServerReply"}
            /\ x.mode = "WaitingServerReply" => x.key \in Keys
            /\ x.mode = "WaitingServerReply" => x.req \in {"Full", "Partial"}
            /\ x.mode # "WaitingServerReply" => x.req = wsi[c].req
  BY <1>2
<1>4. /\ wsi[c] \in WsiType /\ srv[c] \in SrvType
      /\ srv' = [srv EXCEPT ![c] = srv[c]]
  BY <1>1, <1>2 DEF TypeOK
<1>5. wsi[c].req = "None" /\ srv[c].resp = NoResp
  BY <1>2 DEF RInv, ReqInv, ReqOK
<1>6. ReqOK(x, srv[c]) /\ Moves(wsi[c], x, srv[c], srv[c])
  BY <1>2, <1>3, <1>4, <1>5, IssueMoves
<1>. QED  BY <1>3, <1>4, <1>6 DEF OneConn

-----------------------------------------------------------------------------
(* Lines 238-320 and 384-689: the reply is read and interpreted.         *)

(* The key and the request stay; the connection keeps waiting, is        *)
(* established or is abandoned.                                           *)
LEMMA ServerReplyConn ==
    ASSUME RInv, NEW c \in Conns, NEW ev, ServiceServerReply(c, ev)
    PROVE  OneConn(c)
<1>1. TypeOK /\ wsi[c] \in WsiType /\ srv[c] \in SrvType
  BY DEF RInv, Inv, TypeOK
<1>2. /\ wsi[c].consumed <= srv[c].sent /\ wsi[c].consumed <= RespLen
      /\ srv[c].resp = NoResp => srv[c].sent = 0
  <2>1. wsi[c].mode = "WaitingServerReply"
    BY DEF ServiceServerReply
  <2>. QED  BY <2>1 DEF RInv, Inv, ConsumedInv, NoOverRead, Waiting
<1>3. /\ UNCHANGED <<srv, svcbuf>>
      /\ wsi[c].mode = "WaitingServerReply"
      /\ \E x : wsi' = [wsi EXCEPT ![c] = x] /\ ServedReply(c, wsi[c], x)
  BY <1>1, <1>2, ServiceServerReplyStep
<1>4. PICK x : wsi' = [wsi EXCEPT ![c] = x] /\ ServedReply(c, wsi[c], x)
  BY <1>3
<1>5. /\ x \in WsiType /\ x.key = wsi[c].key /\ x.req = wsi[c].req
      /\ x.mode \in {"Closed", "Crashed", "WsClient", "WaitingServerReply"}
      /\ x.mode = "WsClient" => x.timeout = "None" /\ srv[c].resp # NoResp
  BY <1>4 DEF ServedReply
<1>6. wsi[c].req # "None" /\ wsi[c].key \in Keys
  BY <1>3 DEF RInv, ReqInv, ReqOK
<1>7. srv' = [srv EXCEPT ![c] = srv[c]]
  BY <1>1, <1>3 DEF TypeOK
<1>8. ReqOK(x, srv[c])
  BY <1>5, <1>6 DEF ReqOK
<1>9. /\ PhaseOf(wsi[c].mode) = "Connecting"
      /\ OfferedKey(x) = OfferedKey(wsi[c])
  BY <1>3, <1>5, <1>6, PhaseOfModes, OfferedKeyDef
<1>10. Moves(wsi[c], x, srv[c], srv[c])
  <2>1. CASE x.mode = "WaitingServerReply"
    BY <1>9, <2>1, PhaseOfModes DEF Moves
  <2>2. CASE x.mode = "WsClient"
    BY <1>9, <2>2, PhaseOfModes DEF Moves
  <2>3. CASE x.mode \in {"Closed", "Crashed"}
    <3>1. PhaseOf(x.mode) \in {"Closed", "Failed"}
      BY <2>3, PhaseOfModes
    <3>. QED  BY <1>9, <3>1 DEF Moves
  <2>. QED  BY <1>5, <2>1, <2>2, <2>3
<1>. QED  BY <1>1, <1>4, <1>5, <1>7, <1>8, <1>10 DEF OneConn

(* libwebsocket_service_timeout_check: only a connection that still      *)
(* waits has a pending timeout, and closing it abandons it.               *)
LEMMA TimeoutConn ==
    ASSUME RInv, NEW c \in Conns, Timeout(c)
    PROVE  OneConn(c)
<1>1. TypeOK /\ wsi[c] \in WsiType /\ srv[c] \in SrvType
  BY DEF RInv, Inv, TypeOK
<1>2. /\ Close(wsi[c], "Timeout") \in WsiType
      /\ Close(wsi[c], "Timeout").mode = "Closed"
      /\ Close(wsi[c], "Timeout").key = wsi[c].key
      /\ Close(wsi[c], "Timeout").req = wsi[c].req
  BY <1>1, CloseType DEF Outcomes
<1>3. /\ wsi' = [wsi EXCEPT ![c] = Close(wsi[c], "Timeout")]
      /\ srv' = [srv EXCEPT ![c] = srv[c]]
  BY <1>1 DEF Timeout, SetWsi, TypeOK
<1>4. wsi[c].mode \in Waiting
  <2>1. wsi[c].mode \in Modes
    BY <1>1, FieldTypes
  <2>2. wsi[c].mode \notin {"Closed", "Crashed"} /\ wsi[c].timeout # "None"
    BY DEF Timeout
  <2>3. wsi[c].mode # "WsClient"
    BY <2>2 DEF RInv, ReqInv, ReqOK
  <2>. QED  BY <2>1, <2>2, <2>3 DEF Modes, Waiting
<1>5. /\ PhaseOf(wsi[c].mode) = "Connecting"
      /\ PhaseOf(Close(wsi[c], "Timeout").mode) = "Closed"
      /\ OfferedKey(Close(wsi[c], "Timeout")) = OfferedKey(wsi[c])
  BY <1>2, <1>4, PhaseOfModes, OfferedKeyDef DEF Waiting
<1>6. ReqOK(Close(wsi[c], "Timeout"), srv[c])
  BY <1>2 DEF RInv, ReqInv, ReqOK
<1>7. Moves(wsi[c], Close(wsi[c], "Timeout"), srv[c], srv[c])
  BY <1>5 DEF Moves
<1>. QED  BY <1>1, <1>2, <1>3, <1>6, <1>7 DEF OneConn

(* The peer's steps: only a reply to a full request changes the image,   *)
(* and it is the answer.                                                  *)
LEMMA PeerConn ==
    ASSUME RInv, NEW c \in Conns,
           ProxyRespond(c) \/ ServerRespond(c) \/ ServerSend(c) \/ PeerClose(c)
    PROVE  OneConn(c)
<1>1. TypeOK /\ wsi[c] \in WsiType /\ srv[c] \in SrvType
  BY DEF RInv, Inv, TypeOK
<1>2. /\ wsi' = [wsi EXCEPT ![c] = wsi[c]]
      /\ ReqOK(wsi[c], srv[c])
  BY <1>1 DEF ProxyRespond, ServerRespond, ServerSend, PeerClose, TypeOK,
              RInv, ReqInv
<1>3. ASSUME NEW s \in SrvType, srv' = [srv EXCEPT ![c] = s], s.resp = srv[c].resp
      PROVE  OneConn(c)
  <2>1. ReqOK(wsi[c], s)
    BY <1>2, <1>3 DEF ReqOK
  <2>2. Moves(wsi[c], wsi[c], srv[c], s)
    BY <1>3 DEF Moves
  <2>. QED  BY <1>1, <1>2, <1>3, <2>1, <2>2 DEF OneConn
<1>4. CASE ProxyRespond(c)
  <2>1. PICK p \in ProxyReplies : srv' = [srv EXCEPT ![c].prx = p]
    BY <1>4 DEF ProxyRespond
  <2>2. [srv[c] EXCEPT !.prx = p] \in SrvType
    BY <1>1, SrvSetPrx
  <2>3. /\ srv' = [srv EXCEPT ![c] = [srv[c] EXCEPT !.prx = p]]
        /\ [srv[c] EXCEPT !.prx = p].resp = srv[c].resp
    BY <2>1
  <2>. QED  BY <1>3, <2>2, <2>3
<1>5. CASE ServerSend(c)
  <2>1. PICK n \in (srv[c].sent + 1)..(RespLen + FrameLen) :
            srv' = [srv EXCEPT ![c].sent = n]
    BY <1>5 DEF ServerSend
  <2>2. n \in 0..(RespLen + FrameLen)
    <3>1. srv[c].sent \in Nat
      BY <1>1 DEF SrvType
    <3>. QED  BY <2>1, <3>1, Bounds
  <2>3. [srv[c] EXCEPT !.sent = n] \in SrvType
    BY <1>1, <2>2, SrvSetSent
  <2>4. /\ srv' = [srv EXCEPT ![c] = [srv[c] EXCEPT !.sent = n]]
        /\ [srv[c] EXCEPT !.sent = n].resp = srv[c].resp
    BY <2>1
  <2>. QED  BY <1>3, <2>3, <2>4
<1>6. CASE PeerClose(c)
  <2>1. [srv[c] EXCEPT !.eof = TRUE] \in SrvType
    BY <1>1, SrvSetEof
  <2>2. /\ srv' = [srv EXCEPT ![c] = [srv[c] EXCEPT !.eof = TRUE]]
        /\ [srv[c] EXCEPT !.eof = TRUE].resp = srv[c].resp
    BY <1>6 DEF PeerClose
  <2>. QED  BY <1>3, <2>1, <2>2
<1>7. CASE ServerRespond(c)
  <2>1. PICK r \in Responses, n \in 1..(RespLen + FrameLen) :
            srv' = [srv EXCEPT ![c].resp = r, ![c].sent = n]
    BY <1>7 DEF ServerRespond
  <2> DEFINE s == [[srv[c] EXCEPT !.resp = r] EXCEPT !.sent = n]
  <2>2. s \in SrvType /\ s.resp = r
    <3>1. n \in 0..(RespLen + FrameLen)
      BY Bounds
    <3>2. [srv[c] EXCEPT !.resp = r] \in SrvType
      BY <1>1, SrvSetResp
    <3>3. s \in SrvType
      BY <3>1, <3>2, Zenon, SrvSetSent
    <3>. QED  BY <3>3
  <2>3. srv' = [srv EXCEPT ![c] = s]
    BY <2>1
  <2>4. /\ wsi[c].mode = "WaitingServerReply" /\ wsi[c].req = "Full"
        /\ srv[c].resp = NoResp
    BY <1>7 DEF ServerRespond
  <2>5. /\ wsi[c].key \in Keys
        /\ PhaseOf(wsi[c].mode) = "Connecting"
        /\ OfferedKey(wsi[c]) = wsi[c].key
    BY <1>2, <2>4, PhaseOfModes, OfferedKeyDef DEF ReqOK
  <2>6. ReqOK(wsi[c], s)
    BY <1>2, <2>2, <2>4 DEF ReqOK
  <2>7. Moves(wsi[c], wsi[c], srv[c], s)
    BY <2>2, <2>4, <2>5, NoKeyFact DEF Moves
  <2>. QED  BY <1>1, <1>2, <2>2, <2>3, <2>6, <2>7 DEF OneConn
<1>. QED  BY <1>4, <1>5, <1>6, <1>7

-----------------------------------------------------------------------------
(* From one connection's move to the whole state.                         *)

(* Every step of the handshake or of its peers is a stutter or a move of *)
(* one connection.                                                         *)
LEMMA NextConn ==
    ASSUME RInv, [Next]_vars
    PROVE  UNCHANGED vars \/ \E c \in Conns : OneConn(c)
<1>1. CASE UNCHANGED vars
  BY <1>1
<1>2. CASE Next
  <2>1. PICK c \in Conns :
           \/ \E ev \in (SUBSET PollEvents(c)) \ {{}} : ClientSocketService(c, ev)
           \/ Timeout(c)
           \/ ProxyRespond(c) \/ ServerRespond(c) \/ ServerSend(c) \/ PeerClose(c)
    BY <1>2 DEF Next
  <2>2. CASE \E ev \in (SUBSET PollEvents(c)) \ {{}} : ClientSocketService(c, ev)
    <3>1. PICK ev : ClientSocketService(c, ev)
      BY <2>2
    <3>2. OneConn(c)
      BY <3>1, ProxyReplyConn, IssueConn, ServerReplyConn DEF ClientSocketService
    <3>. QED  BY <3>2
  <2>3. CASE Timeout(c)
    BY <2>3, TimeoutConn
  <2>4. CASE ProxyRespond(c) \/ ServerRespond(c) \/ ServerSend(c) \/ PeerClose(c)
    BY <2>4, PeerConn
  <2>. QED  BY <2>1, <2>2, <2>3, <2>4
<1>. QED  BY <1>1, <1>2

(* A move of one connection keeps the request state of all of them. *)
LEMMA ReqStep ==
    ASSUME TypeOK, ReqInv, NEW c \in Conns, OneConn(c)
    PROVE  ReqInv'
<1>1. PICK x \in WsiType, s \in SrvType :
          /\ wsi' = [wsi EXCEPT ![c] = x]
          /\ srv' = [srv EXCEPT ![c] = s]
          /\ ReqOK(x, s)
  BY DEF OneConn
<1>. QED  BY <1>1 DEF ReqInv, TypeOK

(* A move of one connection, in a state whose successor establishes only *)
(* verified connections, is a step of the abstract specification.         *)
LEMMA Lift ==
    ASSUME TypeOK, HandshakeVerified', ReqInv', NEW c \in Conns, OneConn(c)
    PROVE  [Abs!Next]_<<phaseBar, keyBar, replyBar>>
<1>1. PICK x \in WsiType, s \in SrvType :
          /\ wsi' = [wsi EXCEPT ![c] = x]
          /\ srv' = [srv EXCEPT ![c] = s]
          /\ Moves(wsi[c], x, srv[c], s)
  BY DEF OneConn
<1>2. /\ phaseBar' = [phaseBar EXCEPT ![c] = PhaseOf(x.mode)]
      /\ keyBar' = [keyBar EXCEPT ![c] = OfferedKey(x)]
      /\ replyBar' = [replyBar EXCEPT ![c] = s.resp]
  BY <1>1 DEF phaseBar, keyBar, replyBar, TypeOK
<1>3. /\ phaseBar[c] = PhaseOf(wsi[c].mode)
      /\ keyBar[c] = OfferedKey(wsi[c])
      /\ replyBar[c] = srv[c].resp
  BY DEF phaseBar, keyBar, replyBar
<1>4. /\ phaseBar = [d \in Conns |-> phaseBar[d]]
      /\ keyBar = [d \in Conns |-> keyBar[d]]
      /\ replyBar = [d \in Conns |-> replyBar[d]]
  BY DEF phaseBar, keyBar, replyBar
<1> DEFINE p == PhaseOf(wsi[c].mode)
           p2 == PhaseOf(x.mode)
           k == OfferedKey(wsi[c])
           k2 == OfferedKey(x)
<1>5. CASE p2 = p /\ k2 = k /\ s.resp = srv[c].resp
  <2>1. UNCHANGED <<phaseBar, keyBar, replyBar>>
    BY <1>2, <1>3, <1>4, <1>5
  <2>. QED  BY <2>1
<1>6. CASE p = "Connecting" /\ p2 = p /\ k = NoKey /\ k2 \in Keys /\ s.resp = srv[c].resp
  <2>1. /\ phaseBar' = phaseBar /\ replyBar' = replyBar
        /\ keyBar' = [keyBar EXCEPT ![c] = k2]
    BY <1>2, <1>3, <1>4, <1>6
  <2>2. Abs!SendKey(c)
    BY <1>3, <1>6, <2>1 DEF Abs!SendKey
  <2>. QED  BY <2>2 DEF Abs!Next
<1>7. CASE /\ p = "Connecting" /\ p2 = p /\ k2 = k /\ k # NoKey
           /\ srv[c].resp = NoResp /\ s.resp \in Responses
  <2>1. /\ phaseBar' = phaseBar /\ keyBar' = keyBar
        /\ replyBar' = [replyBar EXCEPT ![c] = s.resp]
    BY <1>2, <1>3, <1>4, <1>7
  <2>2. Abs!Answer(c)
    BY <1>3, <1>7, <2>1 DEF Abs!Answer
  <2>. QED  BY <2>2 DEF Abs!Next
<1>8. CASE p = "Connecting" /\ p2 = "Open" /\ k2 = k /\ s.resp = srv[c].resp
  <2>1. x.mode = "WsClient"
    <3>1. x.mode \in Modes
      BY FieldTypes
    <3>. QED  BY <1>8, <3>1, PhaseOfModes DEF Modes
  <2>2. wsi'[c] = x /\ srv'[c] = s
    BY <1>1 DEF TypeOK
  <2>3. /\ x.req # "None" /\ x.key \in Keys /\ s.resp # NoResp
        /\ s.resp.accept = AcceptOf[x.key]
        /\ LowerTable[s.resp.status] = "101"
        /\ LowerTable[s.resp.upgrade] = "websocket"
        /\ LowerTable[s.resp.connection] = "upgrade"
    BY <2>1, <2>2 DEF ReqInv, ReqOK, HandshakeVerified
  <2>4. k2 = x.key /\ Verifies(k2, s.resp) /\ k2 # NoKey
    BY <2>3, OfferedKeyDef, NoKeyFact DEF Verifies
  <2>5. /\ phaseBar' = [phaseBar EXCEPT ![c] = "Open"]
        /\ keyBar' = keyBar /\ replyBar' = replyBar
    BY <1>2, <1>3, <1>4, <1>8
  <2>6. Abs!Open(c)
    BY <1>3, <1>8, <2>3, <2>4, <2>5 DEF Abs!Open
  <2>. QED  BY <2>6 DEF Abs!Next
<1>9. CASE p = "Connecting" /\ p2 \in {"Closed", "Failed"} /\ k2 = k /\ s.resp = srv[c].resp
  <2>1. /\ phaseBar' = [phaseBar EXCEPT ![c] = p2]
        /\ keyBar' = keyBar /\ replyBar' = replyBar
    BY <1>2, <1>3, <1>4, <1>9
  <2>2. Abs!Abandon(c)
    BY <1>3, <1>9, <2>1 DEF Abs!Abandon
  <2>. QED  BY <2>2 DEF Abs!Next
<1>. QED  BY <1>1, <1>5, <1>6, <1>7, <1>8, <1>9 DEF Moves

-----------------------------------------------------------------------------
(* The refinement.                                                         *)

(* A fresh connection has sent nothing and received nothing. *)
LEMMA InitConn ==
    ASSUME Init, NEW c \in Conns
    PROVE  /\ wsi[c].mode \in {"WaitingProxyReply", "IssueHandshake"}
           /\ wsi[c].req = "None" /\ srv[c].resp = NoResp
<1>1. conf[c] \in Confs
  BY DEF Init
<1>2. InitWsi(conf[c]).mode \in {"WaitingProxyReply", "IssueHandshake"}
  BY <1>1, InitWsiType
<1>. QED  BY <1>2 DEF Init, InitWsi

(* The initial states satisfy the invariant and the request state. *)
LEMMA InitRInv == Init => RInv
<1> SUFFICES ASSUME Init PROVE RInv
  OBVIOUS
<1>1. Inv
  BY InitInv
<1>2. ASSUME NEW c \in Conns
      PROVE  /\ wsi[c].mode \in {"WaitingProxyReply", "IssueHandshake"}
             /\ wsi[c].req = "None" /\ srv[c].resp = NoResp
  BY InitConn
<1>3. ReqInv
  BY <1>2 DEF ReqInv, ReqOK
<1>. QED  BY <1>1, <1>3 DEF RInv

(* Every step keeps the invariant and the request state. *)
LEMMA RInvStep == RInv /\ [Next]_vars => RInv'
<1> SUFFICES ASSUME RInv, [Next]_vars PROVE RInv'
  OBVIOUS
<1>1. Inv'
  BY NextInv DEF RInv
<1>2. CASE UNCHANGED vars
  BY <1>1, <1>2 DEF RInv, ReqInv, vars
<1>3. ASSUME NEW c \in Conns, OneConn(c) PROVE RInv'
  BY <1>1, <1>3, ReqStep DEF RInv, Inv
<1>. QED  BY <1>2, <1>3, NextConn

(* The initial states map to the abstract initial state. *)
LEMMA InitAbs == Init => Abs!Init
<1> SUFFICES ASSUME Init PROVE Abs!Init
  OBVIOUS
<1>1. ASSUME NEW c \in Conns
      PROVE  /\ PhaseOf(wsi[c].mode) = "Connecting"
             /\ OfferedKey(wsi[c]) = NoKey
             /\ srv[c].resp = NoResp
  <2>1. /\ wsi[c].mode \in {"WaitingProxyReply", "IssueHandshake"}
        /\ wsi[c].req = "None" /\ srv[c].resp = NoResp
    BY InitConn
  <2>. QED  BY <2>1, PhaseOfModes, OfferedKeyDef
<1>. QED  BY <1>1 DEF Abs!Init, phaseBar, keyBar, replyBar

(* Every step of the handshake maps to a step of the abstract one or to  *)
(* a stutter.                                                             *)
LEMMA AbsStep ==
    RInv /\ RInv' /\ [Next]_vars => [Abs!Next]_<<phaseBar, keyBar, replyBar>>
<1> SUFFICES ASSUME RInv, RInv', [Next]_vars
             PROVE  [Abs!Next]_<<phaseBar, keyBar, replyBar>>
  OBVIOUS
<1>1. CASE UNCHANGED vars
  BY <1>1 DEF vars, phaseBar, keyBar, replyBar
<1>2. ASSUME NEW c \in Conns, OneConn(c)
      PROVE  [Abs!Next]_<<phaseBar, keyBar, replyBar>>
  BY <1>2, Lift DEF RInv, Inv
<1>. QED  BY <1>1, <1>2, NextConn

(* lib/client.c implements the abstract handshake, for any number of     *)
(* connections, any registry and any offers: each connection sends one    *)
(* key, gets at most one reply to it, is established only on a reply that *)
(* verifies that key (lines 384-410 and 583-592), and once established is *)
(* never closed by the handshake's own timeout, which the commit clears   *)
(* (line 608).                                                             *)
THEOREM Refinement == Spec => ImplementsAbstract
<1>1. Init => RInv
  BY InitRInv
<1>2. RInv /\ [Next]_vars => RInv'
  BY RInvStep
<1>3. Init => Abs!Init
  BY InitAbs
<1>4. RInv /\ RInv' /\ [Next]_vars => [Abs!Next]_<<phaseBar, keyBar, replyBar>>
  BY AbsStep
<1>. QED  BY <1>1, <1>2, <1>3, <1>4, PTL DEF Spec, ImplementsAbstract, Abs!Spec, Abs!avars

=============================================================================
