------------------------ MODULE ClientHandshake_cert ------------------------
(***************************************************************************)
(* The certificate policy of lines 187-198, proved for every value of the *)
(* constants.  The only place the certificate result is written is the    *)
(* successful SSL_connect branch of ISSUE_HANDSHAKE, and that branch      *)
(* sends the request only when CertRejected is false; every later step of *)
(* the connection (the reply loop, the interpreter and its bail paths,   *)
(* the commit) keeps the result it found.  So the policy is first shown   *)
(* for a connection waiting for the reply, and carried to WS_CLIENT.      *)
(***************************************************************************)
EXTENDS ClientHandshake_proofs, TLAPS

(* Lines 187-198 held since the request was sent: a TLS connection that  *)
(* waits for the reply, or is established, has a certificate that         *)
(* passed the check.                                                       *)
CertInv ==
    \A c \in Conns :
        wsi[c].mode \in {"WaitingServerReply", "WsClient"} /\ conf[c].ssl # 0 =>
            ~CertRejected(wsi[c].cert, conf[c].ssl)

(* A step that replaces the record of one connection c, and leaves the    *)
(* configuration alone, keeps CertInv if the new record satisfies it.     *)
LEMMA CertFrame ==
    ASSUME TypeOK, CertInv, NEW c \in Conns, NEW x,
           wsi' = [wsi EXCEPT ![c] = x], conf' = conf,
           x.mode \in {"WaitingServerReply", "WsClient"} /\ conf[c].ssl # 0 =>
               ~CertRejected(x.cert, conf[c].ssl)
    PROVE  CertInv'
BY DEF CertInv, TypeOK

(* connect_via_info: a fresh connection has sent nothing. *)
LEMMA InitCert == Init => CertInv
<1> SUFFICES ASSUME Init PROVE CertInv
  OBVIOUS
<1>1. \A c \in Conns :
         InitWsi(conf[c]).mode \in {"WaitingProxyReply", "IssueHandshake"}
  BY InitWsiType DEF Init
<1>. QED  BY <1>1 DEF Init, CertInv

(* Lines 54-89 and 91-236: the connection waits for the reply only after *)
(* the certificate check of lines 187-198 let the request go out.         *)
LEMMA IssueCert ==
    ASSUME TypeOK, CertInv, NEW c \in Conns, NEW ev, UNCHANGED conf,
           ServiceProxyReply(c, ev) \/ ServiceIssueHandshake(c)
    PROVE  CertInv'
<1>1. \E x \in WsiType :
         /\ wsi' = [wsi EXCEPT ![c] = x]
         /\ x.mode \in {"WaitingProxyReply", "IssueHandshake", "Closed",
                       "WaitingServerReply"}
         /\ x.mode = "WaitingServerReply" /\ conf[c].ssl # 0 =>
               ~CertRejected(x.cert, conf[c].ssl)
  BY ServiceProxyReplyStep, ServiceIssueHandshakeStep
<1>. QED  BY <1>1, CertFrame

(* Lines 238-320: the reply loop and the interpreter keep the result of  *)
(* the certificate check the connection was waiting with.                 *)
LEMMA ServerReplyCert ==
    ASSUME Inv, CertInv, NEW c \in Conns, NEW ev, UNCHANGED conf,
           ServiceServerReply(c, ev)
    PROVE  CertInv'
<1>1. TypeOK
  BY DEF Inv
<1>2. wsi[c].mode = "WaitingServerReply"
  BY DEF ServiceServerReply
<1>3. /\ wsi[c].consumed <= srv[c].sent /\ wsi[c].consumed <= RespLen
      /\ srv[c].resp = NoResp => srv[c].sent = 0
  BY <1>2 DEF Inv, ConsumedInv, NoOverRead, Waiting
<1>4. PICK x : wsi' = [wsi EXCEPT ![c] = x] /\ ServedReply(c, wsi[c], x)
  BY <1>1, <1>3, ServiceServerReplyStep
<1>5. conf[c].ssl # 0 => ~CertRejected(wsi[c].cert, conf[c].ssl)
  BY <1>2 DEF CertInv
<1>6. x.cert = wsi[c].cert
  BY <1>4 DEF ServedReply
<1>. QED  BY <1>1, <1>4, <1>5, <1>6, CertFrame

(* libwebsocket_service_timeout_check: a timed-out connection is closed. *)
LEMMA TimeoutCert ==
    ASSUME TypeOK, CertInv, NEW c \in Conns, Timeout(c)
    PROVE  CertInv'
<1>1. wsi[c] \in WsiType
  BY DEF TypeOK
<1>2. Close(wsi[c], "Timeout").mode = "Closed"
  BY <1>1, CloseType DEF Outcomes
<1>. QED  BY <1>2, CertFrame DEF Timeout, SetWsi

(* Every step keeps CertInv. *)
LEMMA NextCert == Inv /\ CertInv /\ [Next]_vars => CertInv'
<1> SUFFICES ASSUME Inv, CertInv, [Next]_vars PROVE CertInv'
  OBVIOUS
<1>0. TypeOK
  BY DEF Inv
<1>1. CASE UNCHANGED vars
  BY <1>1 DEF vars, CertInv
<1>2. ASSUME NEW c \in Conns, NEW ev, ClientSocketService(c, ev)
      PROVE  CertInv'
  <2>1. UNCHANGED conf
    BY <1>2 DEF ClientSocketService
  <2>. QED  BY <1>0, <1>2, <2>1, IssueCert, ServerReplyCert DEF ClientSocketService
<1>3. ASSUME NEW c \in Conns, Timeout(c) PROVE CertInv'
  BY <1>0, <1>3, TimeoutCert
<1>4. ASSUME NEW c \in Conns,
             ProxyRespond(c) \/ ServerRespond(c) \/ ServerSend(c) \/ PeerClose(c)
      PROVE  CertInv'
  <2>1. wsi' = wsi /\ conf' = conf
    BY <1>4 DEF ProxyRespond, ServerRespond, ServerSend, PeerClose
  <2>. QED  BY <2>1 DEF CertInv
<1>. QED  BY <1>1, <1>2, <1>3, <1>4 DEF Next

(* Lines 187-198 with the commit of lines 604-622: a TLS connection is   *)
(* established only with a certificate that verified, or a self-signed   *)
(* one when use_ssl is 2, for any number of connections and any peer.     *)
THEOREM CertPolicyThm == Spec => []CertPolicy
<1>1. Init => Inv /\ CertInv
  BY InitInv, InitCert
<1>2. Inv /\ CertInv /\ [Next]_vars => Inv' /\ CertInv'
  BY NextInv, NextCert
<1>3. CertInv => CertPolicy
  BY DEF CertInv, CertPolicy, CertRejected
<1>. QED  BY <1>1, <1>2, <1>3, PTL DEF Spec
=============================================================================
