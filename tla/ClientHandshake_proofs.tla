----------------------- MODULE ClientHandshake_proofs -----------------------
(***************************************************************************)
(* Proofs about ClientHandshake for every value of the constants.          *)
(*                                                                         *)
(* Each helper that rewrites a wsi record (free, close, the bail paths,   *)
(* the generator) keeps the record in WsiType and says what it does to    *)
(* the mode and the key; each handler is then shown to replace wsi[c] by  *)
(* one such record.  The inductive invariant Inv adds to TypeOK that a    *)
(* connection waiting for the server reply holds the key it generated,    *)
(* which is what the accept check of an established connection compares  *)
(* against.                                                                *)
(***************************************************************************)
EXTENDS ClientHandshake, SequenceTheorems, TLAPS

Bufs == {"Http200", "Other"}

(* A connection waiting for the server's reply has sent a generated key   *)
(* (lines 729-861 and 230-234).                                            *)
KeyInv ==
    \A c \in Conns : wsi[c].mode = "WaitingServerReply" => wsi[c].key \in Keys

(* While the handshake runs the client has taken no more bytes than the   *)
(* server sent, and nothing was sent before a reply (lines 273-295).      *)
ConsumedInv ==
    \A c \in Conns :
        /\ wsi[c].mode \in Waiting => wsi[c].consumed <= srv[c].sent
        /\ srv[c].resp = NoResp => srv[c].sent = 0

(* The inductive strengthening of HandshakeVerified. *)
Inv == TypeOK /\ KeyInv /\ ConsumedInv /\ NoOverRead /\ HandshakeVerified

(* Lines 384-408: the status, Upgrade and Connection headers, lowered. *)
HeadersOK(r) ==
    /\ LowerTable[r.status] = "101"
    /\ LowerTable[r.upgrade] = "websocket"
    /\ LowerTable[r.connection] = "upgrade"

(* What the interpreter leaves for a connection it entered with record w: *)
(* the session is closed, crashed, or established with the key of w and   *)
(* an accept value that matches it.                                       *)
Interpreted(c, w, x) ==
    /\ x \in WsiType
    /\ x.key = w.key /\ x.consumed = w.consumed /\ x.req = w.req /\ x.cert = w.cert
    /\ x.mode \in {"Closed", "Crashed", "WsClient"}
    /\ x.mode = "WsClient" => AcceptMatches(srv[c].resp, w.key)
    /\ x.mode = "WsClient" => x.timeout = "None"

(* What one call of the WAITING_SERVER_REPLY case leaves: a typed record *)
(* with the key of w that has read no more than the reply's length and,   *)
(* while it still waits, no more than the server sent; it is established  *)
(* only with the headers checked and the accept matched.                  *)
ServedReply(c, w, x) ==
    /\ x \in WsiType
    /\ x.key = w.key /\ x.req = w.req /\ x.cert = w.cert
    /\ x.mode \in {"Closed", "Crashed", "WsClient", "WaitingServerReply"}
    /\ x.consumed <= RespLen
    /\ x.mode = "WsClient" => AcceptMatches(srv[c].resp, w.key) /\ HeadersOK(srv[c].resp)
    /\ x.mode = "WsClient" => srv[c].resp # NoResp
    /\ x.mode = "WaitingServerReply" => x.consumed <= srv[c].sent
    /\ x.mode = "WsClient" => x.timeout = "None"

-----------------------------------------------------------------------------
(* An update of one field of a wsi record with a value of the field's    *)
(* type stays in WsiType.  Every helper below is a chain of them.         *)
LEMMA SetMode ==
    ASSUME NEW w \in WsiType, NEW v \in Modes
    PROVE  [w EXCEPT !.mode = v] \in WsiType
BY DEF WsiType
LEMMA SetTimeout ==
    ASSUME NEW w \in WsiType, NEW v \in Timeouts
    PROVE  [w EXCEPT !.timeout = v] \in WsiType
BY DEF WsiType
LEMMA SetPollout ==
    ASSUME NEW w \in WsiType, NEW v \in BOOLEAN
    PROVE  [w EXCEPT !.pollout = v] \in WsiType
BY DEF WsiType
LEMMA SetSsl ==
    ASSUME NEW w \in WsiType, NEW v \in BOOLEAN
    PROVE  [w EXCEPT !.ssl = v] \in WsiType
BY DEF WsiType
LEMMA SetTries ==
    ASSUME NEW w \in WsiType, NEW v \in 0..MaxTlsRetries
    PROVE  [w EXCEPT !.tries = v] \in WsiType
BY DEF WsiType
LEMMA SetCert ==
    ASSUME NEW w \in WsiType, NEW v \in CertResults \cup {"None"}
    PROVE  [w EXCEPT !.cert = v] \in WsiType
BY DEF WsiType
LEMMA SetPtr ==
    ASSUME NEW w \in WsiType, NEW v \in PtrMaps
    PROVE  [w EXCEPT !.ptr = v] \in WsiType
BY DEF WsiType
LEMMA SetFrees ==
    ASSUME NEW w \in WsiType, NEW v \in FreeCounts
    PROVE  [w EXCEPT !.frees = v] \in WsiType
BY DEF WsiType
LEMMA SetCloses ==
    ASSUME NEW w \in WsiType, NEW v \in Nat
    PROVE  [w EXCEPT !.closes = v] \in WsiType
BY DEF WsiType
LEMMA SetKey ==
    ASSUME NEW w \in WsiType, NEW v \in KeyValues
    PROVE  [w EXCEPT !.key = v] \in WsiType
BY DEF WsiType
LEMMA SetProposed ==
    ASSUME NEW w \in WsiType, NEW v \in ExtSets
    PROVE  [w EXCEPT !.proposed = v] \in WsiType
BY DEF WsiType
LEMMA SetReq ==
    ASSUME NEW w \in WsiType, NEW v \in {"None", "Full", "Partial"}
    PROVE  [w EXCEPT !.req = v] \in WsiType
BY DEF WsiType
LEMMA SetParser ==
    ASSUME NEW w \in WsiType, NEW v \in {"None", "NamePart", "Complete"}
    PROVE  [w EXCEPT !.parser = v] \in WsiType
BY DEF WsiType
LEMMA SetConsumed ==
    ASSUME NEW w \in WsiType, NEW v \in Nat
    PROVE  [w EXCEPT !.consumed = v] \in WsiType
BY DEF WsiType
LEMMA SetGarbage ==
    ASSUME NEW w \in WsiType, NEW v \in BOOLEAN
    PROVE  [w EXCEPT !.garbage = v] \in WsiType
BY DEF WsiType
LEMMA SetProtocol ==
    ASSUME NEW w \in WsiType, NEW v \in ProtocolIndices
    PROVE  [w EXCEPT !.protocol = v] \in WsiType
BY DEF WsiType
LEMMA SetActive ==
    ASSUME NEW w \in WsiType, NEW v \in ActiveLists
    PROVE  [w EXCEPT !.active = v] \in WsiType
BY DEF WsiType
LEMMA SetVetoed ==
    ASSUME NEW w \in WsiType, NEW v \in BOOLEAN
    PROVE  [w EXCEPT !.vetoed = v] \in WsiType
BY DEF WsiType
LEMMA SetProxyOk ==
    ASSUME NEW w \in WsiType, NEW v \in BOOLEAN
    PROVE  [w EXCEPT !.proxy_ok = v] \in WsiType
BY DEF WsiType
LEMMA SetOutcome ==
    ASSUME NEW w \in WsiType, NEW v \in Outcomes
    PROVE  [w EXCEPT !.outcome = v] \in WsiType
BY DEF WsiType

(* The fields of a typed wsi record have their types.                     *)
LEMMA FieldTypes ==
    ASSUME NEW w \in WsiType
    PROVE  /\ w.mode \in Modes /\ w.tries \in 0..MaxTlsRetries
           /\ w.ptr \in PtrMaps /\ w.frees \in FreeCounts /\ w.closes \in Nat
           /\ w.key \in KeyValues /\ w.consumed \in Nat /\ w.outcome \in Outcomes
           /\ w.protocol \in ProtocolIndices /\ w.active \in ActiveLists
           /\ w.ssl \in BOOLEAN /\ w.pollout \in BOOLEAN
BY DEF WsiType

(* free() keeps the record typed and leaves the mode and the key alone.    *)
LEMMA FreeType ==
    ASSUME NEW w \in WsiType, NEW b \in Buffers
    PROVE  /\ Free(w, b) \in WsiType
           /\ Free(w, b).mode = w.mode
           /\ Free(w, b).key = w.key
           /\ Free(w, b).consumed = w.consumed
           /\ Free(w, b).req = w.req /\ Free(w, b).cert = w.cert /\ Free(w, b).timeout = w.timeout
<1> DEFINE w1 == [w EXCEPT !.ptr = [w.ptr EXCEPT ![b] = "Dangling"]]
           w2 == [w1 EXCEPT !.frees = [w.frees EXCEPT ![b] = @ + 1]]
<1>1. [w.ptr EXCEPT ![b] = "Dangling"] \in PtrMaps
  BY FieldTypes DEF PtrMaps, PtrStates
<1>2. [w.frees EXCEPT ![b] = @ + 1] \in FreeCounts
  BY FieldTypes DEF FreeCounts
<1>3. w1 \in WsiType
  BY <1>1, SetPtr
<1>4. w2 \in WsiType
  BY <1>2, <1>3, SetFrees
<1>5. w.ptr[b] # "Null" => Free(w, b) = w2
  BY DEF Free
<1>. QED  BY <1>4, <1>5 DEF Free

(* close_and_free_session ends the session and leaves the key alone.       *)
LEMMA CloseType ==
    ASSUME NEW w \in WsiType, NEW why \in Outcomes
    PROVE  /\ Close(w, why) \in WsiType
           /\ Close(w, why).mode = "Closed"
           /\ Close(w, why).key = w.key
           /\ Close(w, why).consumed = w.consumed
           /\ Close(w, why).req = w.req /\ Close(w, why).cert = w.cert
<1> DEFINE w1 == [w EXCEPT !.mode = "Closed"]
           w2 == [w1 EXCEPT !.closes = w.closes + 1]
           w3 == [w2 EXCEPT !.outcome = IF w.outcome = "None" THEN why ELSE w.outcome]
<1>1. w1 \in WsiType
  BY Zenon, SetMode DEF Modes
<1>2. w.closes + 1 \in Nat
  BY FieldTypes
<1>3. (IF w.outcome = "None" THEN why ELSE w.outcome) \in Outcomes
  BY FieldTypes
<1>4. w2 \in WsiType
  BY Zenon, <1>1, <1>2, SetCloses
<1>5. w3 \in WsiType
  BY Zenon, <1>3, <1>4, SetOutcome
<1>6. Close(w, why) = w3
  BY DEF Close
<1>. QED  BY <1>5, <1>6

(* The bail paths of both functions and the generator's failure close the *)
(* session; the key is the one the record had.                             *)
LEMMA BailType ==
    ASSUME NEW w \in WsiType, NEW why \in Outcomes
    PROVE  /\ FreeHdrs(w) \in WsiType
           /\ FreeHdrs(w).mode = w.mode /\ FreeHdrs(w).key = w.key
           /\ FreeHdrs(w).consumed = w.consumed
           /\ FreeHdrs(w).req = w.req /\ FreeHdrs(w).cert = w.cert
           /\ InterpretBail2(w, why) \in WsiType
           /\ InterpretBail2(w, why).mode = "Closed"
           /\ InterpretBail2(w, why).key = w.key
           /\ InterpretBail2(w, why).consumed = w.consumed
           /\ InterpretBail2(w, why).req = w.req /\ InterpretBail2(w, why).cert = w.cert
           /\ InterpretBail3(w, why) \in WsiType
           /\ InterpretBail3(w, why).mode = "Closed"
           /\ InterpretBail3(w, why).key = w.key
           /\ InterpretBail3(w, why).consumed = w.consumed
           /\ InterpretBail3(w, why).req = w.req /\ InterpretBail3(w, why).cert = w.cert
           /\ ServiceBail3(w, why) \in WsiType
           /\ ServiceBail3(w, why).mode = "Closed"
           /\ ServiceBail3(w, why).key = w.key
           /\ ServiceBail3(w, why).consumed = w.consumed
           /\ ServiceBail3(w, why).req = w.req /\ ServiceBail3(w, why).cert = w.cert
<1>1. /\ FreeHdrs(w) \in WsiType
      /\ FreeHdrs(w).mode = w.mode /\ FreeHdrs(w).key = w.key
      /\ FreeHdrs(w).consumed = w.consumed
      /\ FreeHdrs(w).req = w.req /\ FreeHdrs(w).cert = w.cert
  BY FreeType DEF FreeHdrs, Buffers
<1>2. /\ Free(w, "c_protocol") \in WsiType
      /\ Free(w, "c_protocol").key = w.key
      /\ Free(w, "c_protocol").consumed = w.consumed
      /\ Free(w, "c_protocol").req = w.req /\ Free(w, "c_protocol").cert = w.cert
  BY FreeType DEF Buffers
<1>3. /\ InterpretBail2(w, why) \in WsiType
      /\ InterpretBail2(w, why).mode = "Closed"
      /\ InterpretBail2(w, why).key = w.key
      /\ InterpretBail2(w, why).consumed = w.consumed
      /\ InterpretBail2(w, why).req = w.req /\ InterpretBail2(w, why).cert = w.cert
  BY <1>1, CloseType DEF InterpretBail2
<1>6. /\ Free(Free(w, "c_protocol"), "hdrs") \in WsiType
      /\ Free(Free(w, "c_protocol"), "hdrs").key = w.key
      /\ Free(Free(w, "c_protocol"), "hdrs").consumed = w.consumed
      /\ Free(Free(w, "c_protocol"), "hdrs").req = w.req /\ Free(Free(w, "c_protocol"), "hdrs").cert = w.cert
  BY <1>2, FreeType DEF Buffers
<1>4. /\ InterpretBail2(Free(w, "c_protocol"), why) \in WsiType
      /\ InterpretBail2(Free(w, "c_protocol"), why).mode = "Closed"
      /\ InterpretBail2(Free(w, "c_protocol"), why).key = w.key
      /\ InterpretBail2(Free(w, "c_protocol"), why).consumed = w.consumed
      /\ InterpretBail2(Free(w, "c_protocol"), why).req = w.req /\ InterpretBail2(Free(w, "c_protocol"), why).cert = w.cert
  BY <1>6, CloseType DEF InterpretBail2, FreeHdrs
<1>5. /\ ServiceBail3(w, why) \in WsiType
      /\ ServiceBail3(w, why).mode = "Closed"
      /\ ServiceBail3(w, why).key = w.key
      /\ ServiceBail3(w, why).consumed = w.consumed
      /\ ServiceBail3(w, why).req = w.req /\ ServiceBail3(w, why).cert = w.cert
  BY <1>2, CloseType DEF ServiceBail3
<1>. QED  BY <1>1, <1>3, <1>4, <1>5 DEF InterpretBail3

(* Lines 714-727: the generator's failure path closes the session.       *)
LEMMA GenerateFailedType ==
    ASSUME NEW w \in WsiType
    PROVE  /\ GenerateFailed(w) \in WsiType /\ GenerateFailed(w).mode = "Closed"
           /\ GenerateFailed(w).consumed = w.consumed /\ GenerateFailed(w).req = w.req /\ GenerateFailed(w).cert = w.cert
<1> DEFINE f3 == Free(Free(Free(w, "c_path"), "c_host"), "c_origin")
<1>1. f3 \in WsiType /\ f3.consumed = w.consumed /\ f3.req = w.req /\ f3.cert = w.cert
  BY FreeType DEF Buffers
<1>2. /\ Free(f3, "c_protocol") \in WsiType /\ Free(f3, "c_protocol").consumed = w.consumed
      /\ Free(f3, "c_protocol").req = w.req /\ Free(f3, "c_protocol").cert = w.cert
  BY <1>1, FreeType DEF Buffers
<1>. QED  BY <1>2, CloseType DEF GenerateFailed, Outcomes

(* Lines 729-861: the generator keeps the mode and records key k.        *)
LEMMA GeneratedType ==
    ASSUME NEW w \in WsiType, NEW k \in Keys, NEW p \in SUBSET DOMAIN ExtRegistry
    PROVE  /\ Generated(w, k, p) \in WsiType
           /\ Generated(w, k, p).mode = w.mode
           /\ Generated(w, k, p).key = k
           /\ Generated(w, k, p).consumed = w.consumed
           /\ Generated(w, k, p).req = w.req /\ Generated(w, k, p).cert = w.cert
<1> DEFINE f3 == Free(Free(Free(w, "c_path"), "c_host"), "c_origin")
<1>1. f3 \in WsiType /\ f3.mode = w.mode /\ f3.consumed = w.consumed /\ f3.req = w.req /\ f3.cert = w.cert
  BY FreeType DEF Buffers
<1>2. [f3 EXCEPT !.key = k] \in WsiType
  BY Zenon, <1>1, SetKey DEF KeyValues
<1>3. [[f3 EXCEPT !.key = k] EXCEPT !.proposed = p] \in WsiType
  BY Zenon, <1>2, SetProposed DEF ExtSets
<1>4. Generated(w, k, p) = [[f3 EXCEPT !.key = k] EXCEPT !.proposed = p]
  BY DEF Generated
<1>. QED  BY <1>1, <1>3, <1>4

(* Lines 230-234: the connection waits for the reply with the key kept.  *)
LEMMA AwaitReplyType ==
    ASSUME NEW w \in WsiType, NEW s \in {"Full", "Partial"}
    PROVE  /\ AwaitReply(w, s) \in WsiType
           /\ AwaitReply(w, s).mode = "WaitingServerReply"
           /\ AwaitReply(w, s).key = w.key
           /\ AwaitReply(w, s).consumed = w.consumed
           /\ AwaitReply(w, s).req = s /\ AwaitReply(w, s).cert = w.cert
<1> DEFINE w1 == [w EXCEPT !.req = s]
           w2 == [w1 EXCEPT !.parser = "NamePart"]
           w3 == [w2 EXCEPT !.mode = "WaitingServerReply"]
           w4 == [w3 EXCEPT !.timeout = "AwaitingServerResponse"]
<1>1. w1 \in WsiType  BY Zenon, SetReq
<1>2. w2 \in WsiType  BY Zenon, <1>1, SetParser
<1>3. w3 \in WsiType  BY Zenon, <1>2, SetMode DEF Modes
<1>4. w4 \in WsiType  BY Zenon, <1>3, SetTimeout DEF Timeouts
<1>5. AwaitReply(w, s) = w4
  BY DEF AwaitReply
<1>. QED  BY <1>4, <1>5

-----------------------------------------------------------------------------
(* The handlers.  Each replaces wsi[c] by one typed record.              *)

(* Lines 204-236: the request is generated and sent; the connection is  *)
(* closed or waits for the reply with a generated key.                   *)
LEMMA SendHandshakeStep ==
    ASSUME TypeOK, NEW c \in Conns, NEW w \in WsiType, NEW buf \in Bufs,
           SendHandshake(c, w, buf)
    PROVE  /\ \E x \in WsiType :
                 /\ wsi' = [wsi EXCEPT ![c] = x]
                 /\ x.mode \in {"Closed", "WaitingServerReply"}
                 /\ x.mode = "WaitingServerReply" => x.key \in Keys
                 /\ x.mode = "WaitingServerReply" => x.req \in {"Full", "Partial"}
                 /\ x.mode # "WaitingServerReply" => x.req = w.req
                 /\ x.consumed = w.consumed /\ x.cert = w.cert
           /\ svcbuf' \in Bufs
<1>1. CASE /\ "Random" \in Faults
           /\ SetWsi(c, Close(GenerateFailed(w), "RandomExhausted"))
           /\ svcbuf' = buf
  <2>1. /\ GenerateFailed(w) \in WsiType /\ GenerateFailed(w).consumed = w.consumed
        /\ GenerateFailed(w).req = w.req /\ GenerateFailed(w).cert = w.cert
    BY GenerateFailedType
  <2>2. /\ Close(GenerateFailed(w), "RandomExhausted") \in WsiType
        /\ Close(GenerateFailed(w), "RandomExhausted").mode = "Closed"
        /\ Close(GenerateFailed(w), "RandomExhausted").consumed = w.consumed
        /\ Close(GenerateFailed(w), "RandomExhausted").req = w.req /\ Close(GenerateFailed(w), "RandomExhausted").cert = w.cert
    BY <2>1, CloseType DEF Outcomes
  <2>. QED  BY <1>1, <2>2 DEF SetWsi, Bufs
<1>2. CASE \E k \in Keys, p \in SUBSET DOMAIN ExtRegistry, s \in SendResults(c) :
              LET w1 == Generated(w, k, p) IN
              /\ svcbuf' = "Other"
              /\ IF s = "Fail"
                   THEN SetWsi(c, Close(w1, "TransportDead"))
                   ELSE SetWsi(c, AwaitReply(w1, s))
  <2>1. PICK k \in Keys, p \in SUBSET DOMAIN ExtRegistry, s \in SendResults(c) :
              /\ svcbuf' = "Other"
              /\ IF s = "Fail"
                   THEN SetWsi(c, Close(Generated(w, k, p), "TransportDead"))
                   ELSE SetWsi(c, AwaitReply(Generated(w, k, p), s))
    BY <1>2
  <2>2. /\ Generated(w, k, p) \in WsiType /\ Generated(w, k, p).key = k
        /\ Generated(w, k, p).consumed = w.consumed
        /\ Generated(w, k, p).req = w.req /\ Generated(w, k, p).cert = w.cert
    BY GeneratedType
  <2>3. CASE s = "Fail"
    <3>1. /\ Close(Generated(w, k, p), "TransportDead") \in WsiType
          /\ Close(Generated(w, k, p), "TransportDead").mode = "Closed"
          /\ Close(Generated(w, k, p), "TransportDead").consumed = w.consumed
          /\ Close(Generated(w, k, p), "TransportDead").req = w.req /\ Close(Generated(w, k, p), "TransportDead").cert = w.cert
      BY <2>2, CloseType DEF Outcomes
    <3>. QED  BY <2>1, <2>3, <3>1 DEF SetWsi, Bufs
  <2>4. CASE s # "Fail"
    <3>1. s \in {"Full", "Partial"}
      BY <2>4 DEF SendResults
    <3>2. /\ AwaitReply(Generated(w, k, p), s) \in WsiType
          /\ AwaitReply(Generated(w, k, p), s).mode = "WaitingServerReply"
          /\ AwaitReply(Generated(w, k, p), s).key = k
          /\ AwaitReply(Generated(w, k, p), s).consumed = w.consumed
          /\ AwaitReply(Generated(w, k, p), s).req \in {"Full", "Partial"}
          /\ AwaitReply(Generated(w, k, p), s).cert = w.cert
      BY <2>2, <3>1, AwaitReplyType
    <3>. QED  BY <2>1, <2>4, <3>2 DEF SetWsi, Bufs
  <2>. QED  BY <2>3, <2>4
<1>. QED  BY <1>1, <1>2 DEF SendHandshake

(* Lines 91-236: the TLS connect, the certificate check and the send.    *)
(* The connection stays in the mode it was in, is closed, or waits for    *)
(* the reply with a generated key.                                        *)
LEMMA IssueHandshakeStep ==
    ASSUME TypeOK, NEW c \in Conns, NEW w \in WsiType, NEW buf \in Bufs,
           w.mode \in {"WaitingProxyReply", "IssueHandshake"},
           IssueHandshake(c, w, buf)
    PROVE  /\ \E x \in WsiType :
                 /\ wsi' = [wsi EXCEPT ![c] = x]
                 /\ x.mode \in {"WaitingProxyReply", "IssueHandshake", "Closed",
                               "WaitingServerReply"}
                 /\ x.mode = "WaitingServerReply" => x.key \in Keys
                 /\ x.mode = "WaitingServerReply" => x.req \in {"Full", "Partial"}
                 /\ x.mode # "WaitingServerReply" => x.req = w.req
                 /\ x.mode = "WaitingServerReply" /\ conf[c].ssl # 0 =>
                       ~CertRejected(x.cert, conf[c].ssl)
                 /\ x.consumed = w.consumed
           /\ svcbuf' \in Bufs
<1> DEFINE w1 == [w EXCEPT !.pollout = FALSE, !.ssl = @ \/ conf[c].ssl # 0]
<1>1. w1 \in WsiType /\ w1.mode = w.mode /\ w1.consumed = w.consumed /\ w1.req = w.req /\ w1.cert = w.cert
  <2>1. [w EXCEPT !.pollout = FALSE] \in WsiType
    BY Zenon, SetPollout
  <2>2. [[w EXCEPT !.pollout = FALSE] EXCEPT !.ssl = w.ssl \/ conf[c].ssl # 0] \in WsiType
    BY Zenon, <2>1, SetSsl
  <2>. QED  BY <2>2
<1>2. CASE conf[c].ssl = 0
  <2>1. SendHandshake(c, w1, buf)
    BY <1>2 DEF IssueHandshake
  <2>2. /\ \E x \in WsiType :
             /\ wsi' = [wsi EXCEPT ![c] = x]
             /\ x.mode \in {"Closed", "WaitingServerReply"}
             /\ x.mode = "WaitingServerReply" => x.key \in Keys
             /\ x.mode = "WaitingServerReply" => x.req \in {"Full", "Partial"}
             /\ x.mode # "WaitingServerReply" => x.req = w1.req
             /\ x.consumed = w1.consumed /\ x.cert = w1.cert
        /\ svcbuf' \in Bufs
    BY <1>1, <2>1, SendHandshakeStep
  <2>. QED  BY <1>1, <1>2, <2>2
<1>3. CASE conf[c].ssl # 0
  <2>1. CASE /\ w1.tries < MaxTlsRetries
             /\ SetWsi(c, [w1 EXCEPT !.tries = @ + 1, !.pollout = TRUE])
             /\ svcbuf' = buf
    <3>0. w1.tries \in 0..MaxTlsRetries
      BY Zenon, <1>1, FieldTypes
    <3>a. w1.tries < MaxTlsRetries /\ MaxTlsRetries \in Nat
      BY <2>1, ConstAssumption
    <3>1. w1.tries + 1 \in 0..MaxTlsRetries
      BY <3>a, <3>0
    <3>2. [w1 EXCEPT !.tries = w1.tries + 1] \in WsiType
      BY Zenon, <1>1, <3>1, SetTries
    <3>3. [[w1 EXCEPT !.tries = w1.tries + 1] EXCEPT !.pollout = TRUE] \in WsiType
      BY Zenon, <3>2, SetPollout
    <3>4. [w1 EXCEPT !.tries = @ + 1, !.pollout = TRUE]
            = [[w1 EXCEPT !.tries = w1.tries + 1] EXCEPT !.pollout = TRUE]
      OBVIOUS
    <3>5. /\ [w1 EXCEPT !.tries = @ + 1, !.pollout = TRUE].mode = w.mode
          /\ [w1 EXCEPT !.tries = @ + 1, !.pollout = TRUE].consumed = w.consumed
          /\ [w1 EXCEPT !.tries = @ + 1, !.pollout = TRUE].req = w.req /\ [w1 EXCEPT !.tries = @ + 1, !.pollout = TRUE].cert = w.cert
      BY <1>1
    <3>. QED  BY <2>1, <3>3, <3>4, <3>5 DEF SetWsi
  <2>2. CASE SetWsi(c, w1) /\ svcbuf' = buf
    BY <1>1, <2>2 DEF SetWsi
  <2>3. CASE \E v \in CertResults :
               LET w2 == [w1 EXCEPT !.cert = v] IN
               IF CertRejected(v, conf[c].ssl)
               THEN SetWsi(c, Close(w2, "TlsFailed")) /\ svcbuf' = buf
               ELSE SendHandshake(c, w2, buf)
    <3>1. PICK v \in CertResults :
               IF CertRejected(v, conf[c].ssl)
               THEN SetWsi(c, Close([w1 EXCEPT !.cert = v], "TlsFailed")) /\ svcbuf' = buf
               ELSE SendHandshake(c, [w1 EXCEPT !.cert = v], buf)
      BY <2>3
    <3>6. [w1 EXCEPT !.cert = v] \in WsiType
      BY Zenon, <1>1, SetCert
    <3>2. [w1 EXCEPT !.cert = v] \in WsiType
          /\ [w1 EXCEPT !.cert = v].consumed = w.consumed
          /\ [w1 EXCEPT !.cert = v].req = w.req
          /\ [w1 EXCEPT !.cert = v].cert = v
      BY <1>1, <3>6
    <3>3. /\ Close([w1 EXCEPT !.cert = v], "TlsFailed") \in WsiType
          /\ Close([w1 EXCEPT !.cert = v], "TlsFailed").mode = "Closed"
          /\ Close([w1 EXCEPT !.cert = v], "TlsFailed").consumed = w.consumed
          /\ Close([w1 EXCEPT !.cert = v], "TlsFailed").req = w.req
      BY <3>2, CloseType DEF Outcomes
    <3>4. CASE CertRejected(v, conf[c].ssl)
      BY <3>1, <3>3, <3>4 DEF SetWsi
    <3>5. CASE ~CertRejected(v, conf[c].ssl)
      <4>1. SendHandshake(c, [w1 EXCEPT !.cert = v], buf)
        BY <3>1, <3>5
      <4>2. /\ \E x \in WsiType :
                 /\ wsi' = [wsi EXCEPT ![c] = x]
                 /\ x.mode \in {"Closed", "WaitingServerReply"}
                 /\ x.mode = "WaitingServerReply" => x.key \in Keys
                 /\ x.mode = "WaitingServerReply" => x.req \in {"Full", "Partial"}
                 /\ x.mode # "WaitingServerReply" => x.req = [w1 EXCEPT !.cert = v].req
                 /\ x.consumed = [w1 EXCEPT !.cert = v].consumed
                 /\ x.cert = [w1 EXCEPT !.cert = v].cert
            /\ svcbuf' \in Bufs
        BY <3>2, <4>1, SendHandshakeStep
      <4>. QED  BY <3>2, <3>5, <4>2
    <3>. QED  BY <3>4, <3>5
  <2>. QED  BY <1>3, <2>1, <2>2, <2>3 DEF IssueHandshake
<1>. QED  BY <1>2, <1>3

(* Lines 579-668: a connection is committed only after the accept check. *)
LEMMA CheckAcceptStep ==
    ASSUME NEW c \in Conns, NEW w \in WsiType, CheckAccept(c, w)
    PROVE  \E x : wsi' = [wsi EXCEPT ![c] = x] /\ Interpreted(c, w, x)
<1>1. CASE ~AcceptMatches(srv[c].resp, w.key)
  <2>1. /\ InterpretBail2(w, "BadAccept") \in WsiType
        /\ InterpretBail2(w, "BadAccept").mode = "Closed"
        /\ InterpretBail2(w, "BadAccept").key = w.key
        /\ InterpretBail2(w, "BadAccept").consumed = w.consumed
        /\ InterpretBail2(w, "BadAccept").req = w.req /\ InterpretBail2(w, "BadAccept").cert = w.cert
    BY BailType DEF Outcomes
  <2>. QED  BY <1>1, <2>1 DEF CheckAccept, SetWsi, Interpreted
<1>2. CASE AcceptMatches(srv[c].resp, w.key)
  <2>1. /\ InterpretBail2(w, "AllocFailed") \in WsiType
        /\ InterpretBail2(w, "AllocFailed").mode = "Closed"
        /\ InterpretBail2(w, "AllocFailed").key = w.key
        /\ InterpretBail2(w, "AllocFailed").consumed = w.consumed
        /\ InterpretBail2(w, "AllocFailed").req = w.req /\ InterpretBail2(w, "AllocFailed").cert = w.cert
    BY BailType DEF Outcomes
  <2>2. ASSUME NEW veto \in BOOLEAN
        PROVE  LET w1 == FreeHdrs([w EXCEPT !.vetoed = veto, !.timeout = "None"])
                   w2 == [w1 EXCEPT !.mode = "WsClient", !.ptr["hdrs"] = "Null"]
               IN  /\ Interpreted(c, w, InterpretBail3(w2, "AllocFailed"))
                   /\ Interpreted(c, w, [w2 EXCEPT !.outcome = "Established"])
    <3> DEFINE v1 == [w EXCEPT !.vetoed = veto]
               v2 == [v1 EXCEPT !.timeout = "None"]
               w1 == FreeHdrs(v2)
               m1 == [w1 EXCEPT !.mode = "WsClient"]
               w2 == [m1 EXCEPT !.ptr = [w1.ptr EXCEPT !["hdrs"] = "Null"]]
               w3 == [w2 EXCEPT !.outcome = "Established"]
    <3>1. v1 \in WsiType
      BY Zenon, SetVetoed
    <3>2. v2 \in WsiType
      BY Zenon, <3>1, SetTimeout DEF Timeouts
    <3>a. v2.key = w.key /\ v2.consumed = w.consumed /\ v2.req = w.req /\ v2.cert = w.cert /\ v2.timeout = "None"
      OBVIOUS
    <3>b. /\ w1 \in WsiType /\ w1.key = v2.key /\ w1.consumed = v2.consumed
          /\ w1.req = v2.req /\ w1.cert = v2.cert /\ w1.timeout = v2.timeout
      BY <3>2, FreeType DEF FreeHdrs, Buffers
    <3>3. /\ w1 \in WsiType /\ w1.key = w.key /\ w1.consumed = w.consumed
          /\ w1.req = w.req /\ w1.cert = w.cert /\ w1.timeout = "None"
      BY <3>a, <3>b
    <3>4. m1 \in WsiType
      BY Zenon, <3>3, SetMode DEF Modes
    <3>5. [w1.ptr EXCEPT !["hdrs"] = "Null"] \in PtrMaps
      BY Zenon, <3>3, FieldTypes DEF PtrMaps, PtrStates, Buffers
    <3>6. w2 \in WsiType
      BY Zenon, <3>4, <3>5, SetPtr
    <3>7. w3 \in WsiType
      BY Zenon, <3>6, SetOutcome DEF Outcomes
    <3>8. /\ w2.key = w.key /\ w3.key = w.key /\ w3.mode = "WsClient"
          /\ w2.consumed = w.consumed /\ w3.consumed = w.consumed
          /\ w2.req = w.req /\ w2.cert = w.cert /\ w3.req = w.req /\ w3.cert = w.cert /\ w3.timeout = "None"
      BY <3>3
    <3>9. /\ InterpretBail3(w2, "AllocFailed") \in WsiType
          /\ InterpretBail3(w2, "AllocFailed").mode = "Closed"
          /\ InterpretBail3(w2, "AllocFailed").key = w.key
          /\ InterpretBail3(w2, "AllocFailed").consumed = w.consumed
          /\ InterpretBail3(w2, "AllocFailed").req = w.req /\ InterpretBail3(w2, "AllocFailed").cert = w.cert
      <4>1. /\ InterpretBail3(w2, "AllocFailed") \in WsiType
            /\ InterpretBail3(w2, "AllocFailed").mode = "Closed"
            /\ InterpretBail3(w2, "AllocFailed").key = w2.key
            /\ InterpretBail3(w2, "AllocFailed").consumed = w2.consumed
            /\ InterpretBail3(w2, "AllocFailed").req = w2.req /\ InterpretBail3(w2, "AllocFailed").cert = w2.cert
        BY <3>6, BailType DEF Outcomes
      <4>. QED  BY <3>8, <4>1
    <3>10. [w1 EXCEPT !.mode = "WsClient", !.ptr["hdrs"] = "Null"] = w2
      OBVIOUS
    <3>11. FreeHdrs([w EXCEPT !.vetoed = veto, !.timeout = "None"]) = w1
      OBVIOUS
    <3>. QED  BY <1>2, <3>7, <3>8, <3>9, <3>10, <3>11 DEF Interpreted
  <2>. QED  BY <1>2, <2>1, <2>2 DEF CheckAccept, SetWsi, Interpreted
<1>. QED  BY <1>1, <1>2

(* Lines 524-565: the extension instances are indices of registered    *)
(* extensions, whole or cut short by a failed allocation.                *)
LEMMA InstancesType ==
    ASSUME NEW T, NEW n \in Nat, KnownPrefix(T, n)
    PROVE  /\ Instances(T, n) \in ActiveLists
           /\ \A j \in 1..n : SubSeq(Instances(T, n), 1, j - 1) \in ActiveLists
<1>1. \A i \in 1..n : ExtIndex(T[i]) \in DOMAIN ExtRegistry
  BY DEF KnownPrefix, ExtIndex, KnownExt
<1>2. Instances(T, n) \in [1..n -> DOMAIN ExtRegistry]
  BY <1>1 DEF Instances
<1>3. Instances(T, n) \in ActiveLists
  BY <1>2 DEF ActiveLists
<1>4. ASSUME NEW j \in 1..n
      PROVE  SubSeq(Instances(T, n), 1, j - 1) \in ActiveLists
  <2>1. \A i \in 1..(j - 1) : Instances(T, n)[i] \in DOMAIN ExtRegistry
    BY <1>2
  <2>. QED  BY <2>1, SubSeqProperties DEF ActiveLists
<1>. QED  BY <1>3, <1>4

(* Lines 487-574 and 579-668: whatever the extension loop meets, the     *)
(* connection is closed or committed through the accept check.           *)
LEMMA CheckExtensionsStep ==
    ASSUME NEW c \in Conns, NEW w \in WsiType, CheckExtensions(c, w)
    PROVE  \E x : wsi' = [wsi EXCEPT ![c] = x] /\ Interpreted(c, w, x)
<1> DEFINE e == srv[c].resp.exts
           T == IF e = <<>> THEN <<>> ELSE ExtTokens(e)
           I(n) == Instances(T, n)
<1>1. PICK n \in 0..Len(T) :
          /\ KnownPrefix(T, n)
          /\ \/ \E j \in 1..n :
                 /\ "ExtAlloc" \in Faults
                 /\ SetWsi(c, InterpretBail2([w EXCEPT !.active = SubSeq(I(n), 1, j - 1)],
                                             "AllocFailed"))
             \/ /\ n < Len(T)
                /\ SetWsi(c, InterpretBail2([w EXCEPT !.active = I(n)], "UnknownExtension"))
             \/ /\ n = Len(T)
                /\ CheckAccept(c, [w EXCEPT !.active = I(n)])
  BY DEF CheckExtensions
<1>2. n \in Nat
  BY <1>1
<1>3. /\ I(n) \in ActiveLists
      /\ \A j \in 1..n : SubSeq(I(n), 1, j - 1) \in ActiveLists
  BY <1>1, <1>2, InstancesType
<1>4. ASSUME NEW v \in ActiveLists, NEW why \in Outcomes
      PROVE  Interpreted(c, w, InterpretBail2([w EXCEPT !.active = v], why))
  <2>1. [w EXCEPT !.active = v] \in WsiType
    BY Zenon, SetActive
  <2>2. /\ [w EXCEPT !.active = v].key = w.key /\ [w EXCEPT !.active = v].consumed = w.consumed
        /\ [w EXCEPT !.active = v].req = w.req /\ [w EXCEPT !.active = v].cert = w.cert
    OBVIOUS
  <2>. QED  BY <2>1, <2>2, BailType DEF Interpreted
<1>5. CASE \E j \in 1..n :
             /\ "ExtAlloc" \in Faults
             /\ SetWsi(c, InterpretBail2([w EXCEPT !.active = SubSeq(I(n), 1, j - 1)],
                                         "AllocFailed"))
  <2>1. PICK j \in 1..n :
             SetWsi(c, InterpretBail2([w EXCEPT !.active = SubSeq(I(n), 1, j - 1)],
                                      "AllocFailed"))
    BY <1>5
  <2>2. Interpreted(c, w, InterpretBail2([w EXCEPT !.active = SubSeq(I(n), 1, j - 1)],
                                         "AllocFailed"))
    BY <1>3, <1>4 DEF Outcomes
  <2>. QED  BY <2>1, <2>2 DEF SetWsi
<1>6. CASE SetWsi(c, InterpretBail2([w EXCEPT !.active = I(n)], "UnknownExtension"))
  <2>1. Interpreted(c, w, InterpretBail2([w EXCEPT !.active = I(n)], "UnknownExtension"))
    BY <1>3, <1>4 DEF Outcomes
  <2>. QED  BY <1>6, <2>1 DEF SetWsi
<1>7. CASE CheckAccept(c, [w EXCEPT !.active = I(n)])
  <2>1. [w EXCEPT !.active = I(n)] \in WsiType
    BY <1>3, Zenon, SetActive
  <2>2. /\ [w EXCEPT !.active = I(n)].key = w.key
        /\ [w EXCEPT !.active = I(n)].consumed = w.consumed
        /\ [w EXCEPT !.active = I(n)].req = w.req /\ [w EXCEPT !.active = I(n)].cert = w.cert
    OBVIOUS
  <2>3. \E x : wsi' = [wsi EXCEPT ![c] = x]
                /\ Interpreted(c, [w EXCEPT !.active = I(n)], x)
    BY <1>7, <2>1, CheckAcceptStep
  <2>. QED  BY <2>2, <2>3 DEF Interpreted
<1>. QED  BY <1>1, <1>5, <1>6, <1>7

(* Lines 384-689: lws_client_interpret_server_handshake commits a       *)
(* connection only with the headers checked and the accept matched.      *)
LEMMA InterpretStep ==
    ASSUME NEW c \in Conns, NEW w \in WsiType, InterpretServerHandshake(c, w)
    PROVE  \E x : /\ wsi' = [wsi EXCEPT ![c] = x]
                  /\ Interpreted(c, w, x)
                  /\ x.mode = "WsClient" => HeadersOK(srv[c].resp)
<1> DEFINE r == srv[c].resp
           s == conf[c].offer
           w1 == Free(w, "c_protocol")
<1>1. w1 \in WsiType /\ w1.key = w.key /\ w1.consumed = w.consumed /\ w1.req = w.req /\ w1.cert = w.cert
  BY FreeType DEF Buffers
<1>2. ASSUME NEW why \in Outcomes
      PROVE  /\ Interpreted(c, w, InterpretBail3(w, why))
             /\ InterpretBail3(w, why).mode # "WsClient"
  BY BailType DEF Interpreted
<1>3. ASSUME NEW n \in ProtocolIndices
      PROVE  /\ [w1 EXCEPT !.protocol = n] \in WsiType
             /\ [w1 EXCEPT !.protocol = n].key = w.key
             /\ [w1 EXCEPT !.protocol = n].consumed = w.consumed
             /\ [w1 EXCEPT !.protocol = n].req = w.req /\ [w1 EXCEPT !.protocol = n].cert = w.cert
  <2>1. [w1 EXCEPT !.protocol = n] \in WsiType
    BY <1>1, Zenon, SetProtocol
  <2>. QED  BY <1>1, <2>1
<1>4. CASE ~HeadersOK(r)
  <2>1. CASE LowerTable[r.status] # "101"
    BY <2>1, <1>2 DEF InterpretServerHandshake, SetWsi, Outcomes
  <2>2. CASE LowerTable[r.status] = "101" /\ LowerTable[r.upgrade] # "websocket"
    BY <2>2, <1>2 DEF InterpretServerHandshake, SetWsi, Outcomes
  <2>3. CASE LowerTable[r.status] = "101" /\ LowerTable[r.upgrade] = "websocket"
             /\ LowerTable[r.connection] # "upgrade"
    BY <2>3, <1>2 DEF InterpretServerHandshake, SetWsi, Outcomes
  <2>. QED  BY <1>4, <2>1, <2>2, <2>3 DEF HeadersOK
<1>5. CASE HeadersOK(r) /\ r.proto = ""
  <2>0. Registry \in Seq(ProtoNames) /\ Len(Registry) >= 1
    BY Zenon, ConstAssumption
  <2>1. 1 \in ProtocolIndices
    BY <2>0 DEF ProtocolIndices
  <2>2. CheckExtensions(c, [w1 EXCEPT !.protocol = 1])
    BY <1>5 DEF InterpretServerHandshake, HeadersOK
  <2>3. \E x : wsi' = [wsi EXCEPT ![c] = x]
               /\ Interpreted(c, [w1 EXCEPT !.protocol = 1], x)
    BY <1>3, <2>1, <2>2, CheckExtensionsStep
  <2>. QED  BY <1>3, <1>5, <2>1, <2>3 DEF Interpreted
<1>6. CASE HeadersOK(r) /\ r.proto # "" /\ s = NULL
  <2> DEFINE x == [w EXCEPT !.mode = "Crashed", !.outcome = "NullProtocolList"]
  <2>1. SetWsi(c, x)
    BY <1>6 DEF InterpretServerHandshake, HeadersOK
  <2>2. [w EXCEPT !.mode = "Crashed"] \in WsiType
    BY Zenon, SetMode DEF Modes
  <2>3. x \in WsiType
    BY <2>2, Zenon, SetOutcome DEF Outcomes
  <2>4. x.key = w.key /\ x.consumed = w.consumed /\ x.req = w.req /\ x.cert = w.cert /\ x.mode = "Crashed"
    OBVIOUS
  <2>. QED  BY <2>1, <2>3, <2>4 DEF SetWsi, Interpreted
<1>7. CASE HeadersOK(r) /\ r.proto # "" /\ s # NULL
  <2>1. PICK n \in 0..Len(Registry) :
            IF ~ProtocolOffered(s, r.proto) \/ n = 0
              THEN SetWsi(c, InterpretBail2(w1, "UnknownProtocol"))
            ELSE CheckExtensions(c, [w1 EXCEPT !.protocol = n])
    BY <1>7 DEF InterpretServerHandshake, HeadersOK
  <2>2. CASE ~ProtocolOffered(s, r.proto) \/ n = 0
    <3>1. /\ InterpretBail2(w1, "UnknownProtocol") \in WsiType
          /\ InterpretBail2(w1, "UnknownProtocol").mode = "Closed"
          /\ InterpretBail2(w1, "UnknownProtocol").key = w.key
          /\ InterpretBail2(w1, "UnknownProtocol").consumed = w.consumed
          /\ InterpretBail2(w1, "UnknownProtocol").req = w.req /\ InterpretBail2(w1, "UnknownProtocol").cert = w.cert
      BY <1>1, BailType DEF Outcomes
    <3>. QED  BY <2>1, <2>2, <3>1 DEF SetWsi, Interpreted
  <2>3. CASE ~(~ProtocolOffered(s, r.proto) \/ n = 0)
    <3>1. n \in ProtocolIndices
      BY DEF ProtocolIndices
    <3>2. \E x : wsi' = [wsi EXCEPT ![c] = x]
                 /\ Interpreted(c, [w1 EXCEPT !.protocol = n], x)
      BY <2>1, <2>3, <1>3, <3>1, CheckExtensionsStep
    <3>. QED  BY <1>3, <1>7, <3>1, <3>2 DEF Interpreted
  <2>. QED  BY <2>2, <2>3
<1>. QED  BY <1>4, <1>5, <1>6, <1>7

(* Lines 238-320: one call of the WAITING_SERVER_REPLY case reads at    *)
(* most the bytes sent and at most the reply, and leaves the connection    *)
(* waiting, closed, or interpreted.                                        *)
LEMMA ServiceServerReplyStep ==
    ASSUME TypeOK, NEW c \in Conns, NEW ev,
           wsi[c].consumed <= srv[c].sent, wsi[c].consumed <= RespLen,
           srv[c].resp = NoResp => srv[c].sent = 0,
           ServiceServerReply(c, ev)
    PROVE  /\ UNCHANGED <<srv, svcbuf>>
           /\ wsi[c].mode = "WaitingServerReply"
           /\ \E x : wsi' = [wsi EXCEPT ![c] = x] /\ ServedReply(c, wsi[c], x)
<1> DEFINE w == wsi[c]
           avail == srv[c].sent - w.consumed
           need == RespLen - w.consumed
           k == ReadCount(avail, need)
           w1 == [w EXCEPT !.consumed = @ + k,
                           !.ptr["hdrs"] = IF k > 0 /\ @ = "Null" THEN "Live" ELSE @]
           hd == IF k > 0 /\ w.ptr["hdrs"] = "Null" THEN "Live" ELSE w.ptr["hdrs"]
           u1 == [w EXCEPT !.consumed = w.consumed + k]
           u2 == [u1 EXCEPT !.ptr = [w.ptr EXCEPT !["hdrs"] = hd]]
<1>1. w \in WsiType /\ srv[c] \in SrvType
  BY DEF TypeOK
<1>2. RespLen \in Nat /\ w.consumed \in Nat /\ srv[c].sent \in Nat
  <2>1. RespLen \in Nat \ {0}
    BY Zenon, ConstAssumption
  <2>2. w.consumed \in Nat
    BY <1>1, FieldTypes
  <2>3. srv[c].sent \in Nat
    BY <1>1, <2>1 DEF SrvType
  <2>. QED  BY <2>1, <2>2, <2>3
<1>3. k \in Nat /\ k <= avail /\ k <= need
  BY <1>2 DEF ReadCount
<1>4. u2 \in WsiType /\ u2.key = w.key /\ u2.consumed = w.consumed + k /\ u2.req = w.req /\ u2.cert = w.cert
  <2>0. w.consumed + k \in Nat
    BY <1>2, <1>3
  <2>1. u1 \in WsiType
    BY <1>1, <2>0, Zenon, SetConsumed
  <2>2. [w.ptr EXCEPT !["hdrs"] = hd] \in PtrMaps
    BY <1>1, FieldTypes DEF PtrMaps, PtrStates, Buffers
  <2>3. u2 \in WsiType
    BY <2>1, <2>2, Zenon, SetPtr
  <2>. QED  BY <2>3
<1>5. w1 = u2
  OBVIOUS
<1>6. w1 \in WsiType /\ w1.key = w.key /\ w1.consumed <= srv[c].sent
      /\ w1.consumed <= RespLen /\ w1.mode = w.mode /\ w1.req = w.req /\ w1.cert = w.cert
  <2>1. u2.mode = w.mode
    OBVIOUS
  <2>. QED  BY <1>2, <1>3, <1>4, <1>5, <2>1
<1>7. ASSUME NEW v \in WsiType, v.key = w.key, v.req = w.req, v.cert = w.cert, v.consumed <= RespLen,
             NEW why \in Outcomes
      PROVE  ServedReply(c, w, ServiceBail3(v, why))
  BY <1>7, BailType DEF ServedReply
<1>8. ASSUME NEW v \in WsiType, v.key = w.key, v.req = w.req, v.cert = w.cert, v.consumed <= RespLen,
             srv[c].resp # NoResp, InterpretServerHandshake(c, v)
      PROVE  \E x : wsi' = [wsi EXCEPT ![c] = x] /\ ServedReply(c, w, x)
  <2>1. PICK x : /\ wsi' = [wsi EXCEPT ![c] = x]
                 /\ Interpreted(c, v, x)
                 /\ x.mode = "WsClient" => HeadersOK(srv[c].resp)
    BY <1>8, InterpretStep
  <2>. QED  BY <1>8, <2>1 DEF Interpreted, ServedReply
<1>9. ASSUME NEW v \in WsiType, v.key = w.key, v.req = w.req, v.cert = w.cert, v.consumed <= srv[c].sent,
             v.consumed <= RespLen, v.mode = "WaitingServerReply"
      PROVE  ServedReply(c, w, v)
  BY <1>9 DEF ServedReply
<1>10. w.mode = "WaitingServerReply" /\ UNCHANGED <<srv, svcbuf>>
  BY DEF ServiceServerReply
<1>11. CASE "POLLHUP" \in ev \/ "POLLIN" \notin ev
  <2>1. wsi' = [wsi EXCEPT ![c] = ServiceBail3(w, "TransportDead")]
    BY <1>11 DEF ServiceServerReply, SetWsi
  <2>. QED  BY <1>1, <1>7, <1>10, <2>1 DEF Outcomes
<1>12. CASE ~("POLLHUP" \in ev \/ "POLLIN" \notin ev) /\ k > 0
            /\ ~srv[c].resp.wellformed
  <2> DEFINE v0 == [w EXCEPT !.consumed = w.consumed + 1]
             v == [v0 EXCEPT !.ptr = [w.ptr EXCEPT !["hdrs"] = "Live"]]
  <2>0. w.consumed + 1 \in Nat
    BY <1>2
  <2>1. v0 \in WsiType
    BY <1>1, <2>0, Zenon, SetConsumed
  <2>2. [w.ptr EXCEPT !["hdrs"] = "Live"] \in PtrMaps
    BY <1>1, FieldTypes DEF PtrMaps, PtrStates, Buffers
  <2>3. v \in WsiType
    BY <2>1, <2>2, Zenon, SetPtr
  <2>4. v.key = w.key /\ v.req = w.req /\ v.cert = w.cert /\ v.consumed <= RespLen
    BY <1>2, <1>3, <1>12
  <2>5. wsi' = [wsi EXCEPT ![c] = ServiceBail3(v, "ParseError")]
    BY <1>12 DEF ServiceServerReply, SetWsi
  <2>. QED  BY <1>7, <1>10, <2>3, <2>4, <2>5 DEF Outcomes
<1>13. CASE ~("POLLHUP" \in ev \/ "POLLIN" \notin ev)
            /\ ~(k > 0 /\ ~srv[c].resp.wellformed) /\ k = need
  <2>1. [w1 EXCEPT !.parser = "Complete"] \in WsiType
    BY <1>6, Zenon, SetParser
  <2>2. InterpretServerHandshake(c, [w1 EXCEPT !.parser = "Complete"])
    BY <1>13 DEF ServiceServerReply
  <2>4. srv[c].resp # NoResp
    <3>1. RespLen >= 2
      BY ReplyLenAssumption
    <3>. QED  BY <1>2, <1>13, <3>1 DEF ReadCount
  <2>3. /\ [w1 EXCEPT !.parser = "Complete"].key = w.key
        /\ [w1 EXCEPT !.parser = "Complete"].req = w.req /\ [w1 EXCEPT !.parser = "Complete"].cert = w.cert
        /\ [w1 EXCEPT !.parser = "Complete"].consumed <= RespLen
    BY <1>6
  <2>. QED  BY <1>8, <1>10, <2>1, <2>2, <2>3, <2>4
<1>14. CASE ~("POLLHUP" \in ev \/ "POLLIN" \notin ev)
            /\ ~(k > 0 /\ ~srv[c].resp.wellformed) /\ k # need /\ srv[c].eof
  <2>1. \/ SetWsi(c, ServiceBail3(w1, "ParseError"))
        \/ SetWsi(c, [w1 EXCEPT !.garbage = TRUE])
        \/ /\ k = 0 /\ w1.consumed = RespLen - 1
           /\ InterpretServerHandshake(c, [w1 EXCEPT !.garbage = TRUE,
                                                     !.parser = "Complete"])
    BY <1>14 DEF ServiceServerReply
  <2>2. [w1 EXCEPT !.garbage = TRUE] \in WsiType
    BY <1>6, Zenon, SetGarbage
  <2>3. [[w1 EXCEPT !.garbage = TRUE] EXCEPT !.parser = "Complete"] \in WsiType
    BY <2>2, Zenon, SetParser
  <2>7. /\ [w1 EXCEPT !.garbage = TRUE].key = w.key
        /\ [w1 EXCEPT !.garbage = TRUE].req = w.req /\ [w1 EXCEPT !.garbage = TRUE].cert = w.cert
        /\ [w1 EXCEPT !.garbage = TRUE, !.parser = "Complete"].req = w.req /\ [w1 EXCEPT !.garbage = TRUE, !.parser = "Complete"].cert = w.cert
        /\ [w1 EXCEPT !.garbage = TRUE].consumed <= srv[c].sent
        /\ [w1 EXCEPT !.garbage = TRUE].consumed <= RespLen
        /\ [w1 EXCEPT !.garbage = TRUE].mode = "WaitingServerReply"
        /\ [w1 EXCEPT !.garbage = TRUE, !.parser = "Complete"].key = w.key
        /\ [w1 EXCEPT !.garbage = TRUE, !.parser = "Complete"].consumed <= RespLen
        /\ [w1 EXCEPT !.garbage = TRUE, !.parser = "Complete"]
             = [[w1 EXCEPT !.garbage = TRUE] EXCEPT !.parser = "Complete"]
    BY <1>6, <1>10
  <2>4. CASE SetWsi(c, ServiceBail3(w1, "ParseError"))
    BY <1>6, <1>7, <1>10, <2>4 DEF SetWsi, Outcomes
  <2>5. CASE SetWsi(c, [w1 EXCEPT !.garbage = TRUE])
    BY <1>9, <1>10, <2>2, <2>5, <2>7 DEF SetWsi
  <2>6. CASE /\ k = 0 /\ w1.consumed = RespLen - 1
             /\ InterpretServerHandshake(c, [w1 EXCEPT !.garbage = TRUE,
                                                       !.parser = "Complete"])
    <3>1. k = 0 /\ w1.consumed = RespLen - 1
      BY <2>6
    <3>2. srv[c].resp # NoResp
      <4>1. RespLen >= 2
        BY ReplyLenAssumption
      <4>. QED  BY <1>2, <1>4, <1>5, <3>1, <4>1
    <3>. QED  BY <1>8, <1>10, <2>3, <2>6, <2>7, <3>2
  <2>. QED  BY <1>10, <2>1, <2>4, <2>5, <2>6
<1>15. CASE ~("POLLHUP" \in ev \/ "POLLIN" \notin ev)
            /\ ~(k > 0 /\ ~srv[c].resp.wellformed) /\ k # need /\ ~srv[c].eof
  <2>1. CASE conf[c].ssl # 0
    <3>1. SetWsi(c, w1)
      BY <1>15, <2>1 DEF ServiceServerReply
    <3>2. w1.mode = "WaitingServerReply"
      BY <1>6, <1>10
    <3>. QED  BY <1>6, <1>9, <1>10, <3>1, <3>2 DEF SetWsi
  <2>2. CASE conf[c].ssl = 0
    <3>1. SetWsi(c, ServiceBail3(w1, "WouldBlock"))
      BY <1>15, <2>2 DEF ServiceServerReply
    <3>. QED  BY <1>6, <1>7, <1>10, <3>1 DEF SetWsi, Outcomes
  <2>. QED  BY <2>1, <2>2
<1>. QED  BY <1>10, <1>11, <1>12, <1>13, <1>14, <1>15

(* Lines 54-89: the CONNECT reply is read at most once and the          *)
(* connection is closed or handed to ISSUE_HANDSHAKE with its timeout     *)
(* cleared.                                                               *)
LEMMA ServiceProxyReplyStep ==
    ASSUME TypeOK, NEW c \in Conns, NEW ev, ServiceProxyReply(c, ev)
    PROVE  /\ wsi[c].mode = "WaitingProxyReply"
           /\ srv' = srv \/ srv' = [srv EXCEPT ![c].prx_read = TRUE]
           /\ svcbuf' \in Bufs
           /\ \E x \in WsiType :
                 /\ wsi' = [wsi EXCEPT ![c] = x]
                 /\ x.mode \in {"WaitingProxyReply", "IssueHandshake", "Closed",
                               "WaitingServerReply"}
                 /\ x.mode = "WaitingServerReply" => x.key \in Keys
                 /\ x.mode = "WaitingServerReply" => x.req \in {"Full", "Partial"}
                 /\ x.mode # "WaitingServerReply" => x.req = wsi[c].req
                 /\ x.mode = "WaitingServerReply" /\ conf[c].ssl # 0 =>
                       ~CertRejected(x.cert, conf[c].ssl)
                 /\ x.consumed = wsi[c].consumed
<1> DEFINE w == wsi[c]
           got == srv[c].prx \in ProxyReplies /\ ~srv[c].prx_read
           ok == IF got THEN \/ srv[c].prx = "Full200"
                             \/ /\ srv[c].prx \in {"Short200", "ShortOther"}
                                /\ svcbuf = "Http200"
                 ELSE svcbuf = "Http200"
           buf == IF ok THEN "Http200" ELSE "Other"
           v1 == [w EXCEPT !.timeout = "None"]
           v2 == [v1 EXCEPT !.proxy_ok = TRUE]
<1>1. w \in WsiType /\ w.mode = "WaitingProxyReply"
  BY DEF TypeOK, ServiceProxyReply
<1>2. /\ Close(w, "TransportDead") \in WsiType
      /\ Close(w, "TransportDead").mode = "Closed"
      /\ Close(w, "TransportDead").consumed = w.consumed
      /\ Close(w, "TransportDead").req = w.req /\ Close(w, "TransportDead").cert = w.cert
      /\ Close(w, "ProxyRejected") \in WsiType
      /\ Close(w, "ProxyRejected").mode = "Closed"
      /\ Close(w, "ProxyRejected").consumed = w.consumed
      /\ Close(w, "ProxyRejected").req = w.req /\ Close(w, "ProxyRejected").cert = w.cert
  BY <1>1, CloseType DEF Outcomes
<1>3. CASE "POLLHUP" \in ev \/ (~got /\ ~srv[c].eof)
  <2>1. SetWsi(c, Close(w, "TransportDead")) /\ UNCHANGED <<srv, svcbuf>>
    BY <1>3 DEF ServiceProxyReply
  <2>2. svcbuf \in Bufs
    BY DEF TypeOK, Bufs
  <2>. QED  BY <1>1, <1>2, <2>1, <2>2 DEF SetWsi
<1>4. CASE ~("POLLHUP" \in ev \/ (~got /\ ~srv[c].eof))
  <2>1. /\ srv' = IF got THEN [srv EXCEPT ![c].prx_read = TRUE] ELSE srv
        /\ IF ok
           THEN IssueHandshake(c, [w EXCEPT !.timeout = "None", !.proxy_ok = TRUE], buf)
           ELSE SetWsi(c, Close(w, "ProxyRejected")) /\ svcbuf' = buf
    BY <1>4 DEF ServiceProxyReply
  <2>2. srv' = srv \/ srv' = [srv EXCEPT ![c].prx_read = TRUE]
    BY <2>1
  <2>3. buf \in Bufs
    BY DEF Bufs
  <2>4. CASE ok
    <3>1. v1 \in WsiType
      BY <1>1, Zenon, SetTimeout DEF Timeouts
    <3>2. v2 \in WsiType
      BY <3>1, Zenon, SetProxyOk
    <3>3. v2.mode = "WaitingProxyReply" /\ v2.consumed = w.consumed /\ v2.req = w.req /\ v2.cert = w.cert
      BY <1>1
    <3>4. IssueHandshake(c, v2, buf)
      BY <2>1, <2>4
    <3>5. /\ \E x \in WsiType :
                 /\ wsi' = [wsi EXCEPT ![c] = x]
                 /\ x.mode \in {"WaitingProxyReply", "IssueHandshake", "Closed",
                               "WaitingServerReply"}
                 /\ x.mode = "WaitingServerReply" => x.key \in Keys
                 /\ x.mode = "WaitingServerReply" => x.req \in {"Full", "Partial"}
                 /\ x.mode # "WaitingServerReply" => x.req = v2.req
                 /\ x.mode = "WaitingServerReply" /\ conf[c].ssl # 0 =>
                       ~CertRejected(x.cert, conf[c].ssl)
                 /\ x.consumed = v2.consumed
          /\ svcbuf' \in Bufs
      <4>1. v2.mode \in {"WaitingProxyReply", "IssueHandshake"}
        BY <3>3
      <4>. QED  BY <2>3, <3>2, <3>4, <4>1, IssueHandshakeStep
    <3>. QED  BY <1>1, <2>2, <3>3, <3>5
  <2>5. CASE ~ok
    BY <1>1, <1>2, <2>1, <2>2, <2>3, <2>5 DEF SetWsi
  <2>. QED  BY <2>4, <2>5
<1>. QED  BY <1>3, <1>4

(* Lines 91-236 entered directly: the request goes out or the connection *)
(* waits for TLS, and the CONNECT reply is not looked at.                 *)
LEMMA ServiceIssueHandshakeStep ==
    ASSUME TypeOK, NEW c \in Conns, ServiceIssueHandshake(c)
    PROVE  /\ wsi[c].mode = "IssueHandshake"
           /\ srv' = srv
           /\ svcbuf' \in Bufs
           /\ \E x \in WsiType :
                 /\ wsi' = [wsi EXCEPT ![c] = x]
                 /\ x.mode \in {"WaitingProxyReply", "IssueHandshake", "Closed",
                               "WaitingServerReply"}
                 /\ x.mode = "WaitingServerReply" => x.key \in Keys
                 /\ x.mode = "WaitingServerReply" => x.req \in {"Full", "Partial"}
                 /\ x.mode # "WaitingServerReply" => x.req = wsi[c].req
                 /\ x.mode = "WaitingServerReply" /\ conf[c].ssl # 0 =>
                       ~CertRejected(x.cert, conf[c].ssl)
                 /\ x.consumed = wsi[c].consumed
<1>1. wsi[c] \in WsiType /\ svcbuf \in Bufs
  BY DEF TypeOK, Bufs
<1>. QED  BY <1>1, IssueHandshakeStep DEF ServiceIssueHandshake

-----------------------------------------------------------------------------
(* The inductive invariant.                                               *)

(* The constants the record types are built from are natural numbers.   *)
LEMMA Bounds ==
    /\ MaxTlsRetries \in Nat /\ RespLen \in Nat \ {0} /\ FrameLen \in Nat
    /\ Len(Registry) \in Nat
<1>1. /\ MaxTlsRetries \in Nat /\ RespLen \in Nat \ {0} /\ FrameLen \in Nat
      /\ Registry \in Seq(ProtoNames)
  BY Zenon, ConstAssumption
<1>. QED  BY <1>1

(* connect_via_info and the event loop's first call: a fresh connection  *)
(* is typed and has read nothing.                                          *)
LEMMA InitWsiType ==
    ASSUME NEW cf \in Confs
    PROVE  /\ InitWsi(cf) \in WsiType
           /\ InitWsi(cf).mode \in {"WaitingProxyReply", "IssueHandshake"}
           /\ InitWsi(cf).consumed = 0
<1>1. [b \in Buffers |->
         CASE b = "c_origin" -> IF cf.origin THEN "Live" ELSE "Null"
           [] b = "c_protocol" -> IF cf.offer = NULL THEN "Null" ELSE "Live"
           [] b = "hdrs" -> "Null"
           [] OTHER -> "Live"] \in PtrMaps
  BY DEF PtrMaps, PtrStates
<1>2. /\ 0 \in 0..MaxTlsRetries /\ 0 \in ProtocolIndices /\ <<>> \in ActiveLists
      /\ NoKey \in KeyValues /\ {} \in ExtSets
      /\ [b \in Buffers |-> 0] \in FreeCounts
  BY Bounds DEF ProtocolIndices, ActiveLists, KeyValues, ExtSets, FreeCounts
<1>. QED  BY <1>1, <1>2 DEF InitWsi, WsiType, Modes, Timeouts, CertResults, Outcomes

(* The initial states satisfy the invariant. *)
LEMMA InitInv == Init => Inv
<1> SUFFICES ASSUME Init PROVE Inv
  OBVIOUS
<1>1. \A c \in Conns : /\ InitWsi(conf[c]) \in WsiType
                       /\ InitWsi(conf[c]).mode \in {"WaitingProxyReply", "IssueHandshake"}
                       /\ InitWsi(conf[c]).consumed = 0
  BY InitWsiType DEF Init
<1>2. [resp |-> NoResp, sent |-> 0, eof |-> FALSE, prx |-> "None", prx_read |-> FALSE]
        \in SrvType
  BY Bounds DEF SrvType
<1>3. TypeOK
  BY <1>1, <1>2 DEF Init, TypeOK
<1>4. KeyInv /\ ConsumedInv /\ NoOverRead /\ HandshakeVerified
  BY <1>1, Bounds DEF Init, KeyInv, ConsumedInv, NoOverRead, HandshakeVerified
<1>. QED  BY <1>3, <1>4 DEF Inv

(* A step that changes the record and the peer of one connection c keeps *)
(* the invariant if the new record and peer satisfy it for c.             *)
LEMMA FrameStep ==
    ASSUME Inv, NEW c \in Conns, NEW x \in WsiType, NEW s \in SrvType,
           wsi' = [wsi EXCEPT ![c] = x], srv' = [srv EXCEPT ![c] = s],
           conf' = conf, svcbuf' \in Bufs,
           x.mode = "WaitingServerReply" => x.key \in Keys,
           x.mode \in Waiting => x.consumed <= s.sent,
           s.resp = NoResp => s.sent = 0,
           x.consumed <= RespLen,
           x.mode = "WsClient" =>
              /\ x.key \in Keys /\ s.resp.accept = AcceptOf[x.key]
              /\ HeadersOK(s.resp)
    PROVE  Inv'
<1>1. TypeOK'
  BY DEF Inv, TypeOK, Bufs
<1>2. KeyInv'
  BY DEF Inv, KeyInv, TypeOK
<1>3. ConsumedInv'
  BY DEF Inv, ConsumedInv, TypeOK
<1>4. NoOverRead'
  BY DEF Inv, NoOverRead, TypeOK
<1>5. HandshakeVerified'
  BY DEF Inv, HandshakeVerified, HeadersOK, TypeOK
<1>. QED  BY <1>1, <1>2, <1>3, <1>4, <1>5 DEF Inv

(* Lines 54-89: reading the CONNECT reply keeps the invariant. *)
LEMMA ProxyReplyInv ==
    ASSUME Inv, NEW c \in Conns, NEW ev, ServiceProxyReply(c, ev), UNCHANGED conf
    PROVE  Inv'
<1>1. TypeOK
  BY DEF Inv
<1>2. /\ wsi[c].mode = "WaitingProxyReply"
      /\ srv' = srv \/ srv' = [srv EXCEPT ![c].prx_read = TRUE]
      /\ svcbuf' \in Bufs
      /\ \E x \in WsiType :
            /\ wsi' = [wsi EXCEPT ![c] = x]
            /\ x.mode \in {"WaitingProxyReply", "IssueHandshake", "Closed",
                          "WaitingServerReply"}
            /\ x.mode = "WaitingServerReply" => x.key \in Keys
            /\ x.mode = "WaitingServerReply" => x.req \in {"Full", "Partial"}
            /\ x.mode # "WaitingServerReply" => x.req = wsi[c].req
            /\ x.consumed = wsi[c].consumed
  BY <1>1, ServiceProxyReplyStep
<1>3. PICK x \in WsiType :
            /\ wsi' = [wsi EXCEPT ![c] = x]
            /\ x.mode \in {"WaitingProxyReply", "IssueHandshake", "Closed",
                          "WaitingServerReply"}
            /\ x.mode = "WaitingServerReply" => x.key \in Keys
            /\ x.mode = "WaitingServerReply" => x.req \in {"Full", "Partial"}
            /\ x.mode # "WaitingServerReply" => x.req = wsi[c].req
            /\ x.consumed = wsi[c].consumed
  BY <1>2
<1> DEFINE s == [srv[c] EXCEPT !.prx_read = TRUE]
<1>4. srv[c] \in SrvType /\ s \in SrvType
  BY <1>1 DEF TypeOK, SrvType
<1>5. /\ wsi[c].consumed <= srv[c].sent /\ wsi[c].consumed <= RespLen
      /\ srv[c].resp = NoResp => srv[c].sent = 0
  BY <1>2 DEF Inv, ConsumedInv, NoOverRead, Waiting
<1>8. /\ x.mode = "WaitingServerReply" => x.key \in Keys
      /\ x.consumed <= srv[c].sent /\ x.consumed <= RespLen
      /\ x.mode # "WsClient"
  BY <1>3, <1>5
<1>6. CASE srv' = srv
  <2>1. srv' = [srv EXCEPT ![c] = srv[c]]
    BY <1>1, <1>6 DEF TypeOK
  <2>. QED  BY <1>2, <1>3, <1>4, <1>5, <1>8, <2>1, FrameStep
<1>7. CASE srv' = [srv EXCEPT ![c].prx_read = TRUE]
  <2>1. srv' = [srv EXCEPT ![c] = s] /\ s.sent = srv[c].sent /\ s.resp = srv[c].resp
    BY <1>7
  <2>2. /\ x.consumed <= s.sent
        /\ s.resp = NoResp => s.sent = 0
    BY <1>5, <1>8, <2>1
  <2>. QED  BY <1>2, <1>3, <1>4, <1>8, <2>1, <2>2, FrameStep
<1>. QED  BY <1>2, <1>6, <1>7

(* Lines 91-236: issuing the request keeps the invariant. *)
LEMMA IssueInv ==
    ASSUME Inv, NEW c \in Conns, ServiceIssueHandshake(c), UNCHANGED conf
    PROVE  Inv'
<1>1. TypeOK
  BY DEF Inv
<1>2. /\ wsi[c].mode = "IssueHandshake"
      /\ srv' = srv
      /\ svcbuf' \in Bufs
      /\ \E x \in WsiType :
            /\ wsi' = [wsi EXCEPT ![c] = x]
            /\ x.mode \in {"WaitingProxyReply", "IssueHandshake", "Closed",
                          "WaitingServerReply"}
            /\ x.mode = "WaitingServerReply" => x.key \in Keys
            /\ x.mode = "WaitingServerReply" => x.req \in {"Full", "Partial"}
            /\ x.mode # "WaitingServerReply" => x.req = wsi[c].req
            /\ x.consumed = wsi[c].consumed
  BY <1>1, ServiceIssueHandshakeStep
<1>3. /\ srv[c] \in SrvType /\ srv' = [srv EXCEPT ![c] = srv[c]]
      /\ wsi[c].consumed <= srv[c].sent /\ wsi[c].consumed <= RespLen
      /\ srv[c].resp = NoResp => srv[c].sent = 0
  BY <1>1, <1>2 DEF Inv, TypeOK, ConsumedInv, NoOverRead, Waiting
<1>. QED  BY <1>2, <1>3, FrameStep

(* Lines 238-320: reading the server's reply keeps the invariant; the    *)
(* key a committed connection is checked against is the one it sent.    *)
LEMMA ServerReplyInv ==
    ASSUME Inv, NEW c \in Conns, NEW ev, ServiceServerReply(c, ev), UNCHANGED conf
    PROVE  Inv'
<1>1. TypeOK
  BY DEF Inv
<1>2. wsi[c].consumed <= srv[c].sent /\ wsi[c].consumed <= RespLen
  <2>1. wsi[c].mode = "WaitingServerReply"
    BY DEF ServiceServerReply
  <2>. QED  BY <2>1 DEF Inv, ConsumedInv, NoOverRead, Waiting
<1>a. srv[c].resp = NoResp => srv[c].sent = 0
  BY DEF Inv, ConsumedInv
<1>3. /\ UNCHANGED <<srv, svcbuf>>
      /\ wsi[c].mode = "WaitingServerReply"
      /\ \E x : wsi' = [wsi EXCEPT ![c] = x] /\ ServedReply(c, wsi[c], x)
  BY <1>1, <1>2, <1>a, ServiceServerReplyStep
<1>4. PICK x : wsi' = [wsi EXCEPT ![c] = x] /\ ServedReply(c, wsi[c], x)
  BY <1>3
<1>5. wsi[c].key \in Keys
  BY <1>3 DEF Inv, KeyInv
<1>6. /\ srv[c] \in SrvType /\ srv' = [srv EXCEPT ![c] = srv[c]] /\ svcbuf' \in Bufs
      /\ srv[c].resp = NoResp => srv[c].sent = 0
  BY <1>1, <1>3 DEF Inv, TypeOK, ConsumedInv, Bufs
<1>. QED  BY <1>4, <1>5, <1>6, FrameStep DEF ServedReply, AcceptMatches, Waiting

(* libwebsocket_service_timeout_check: closing on a timeout keeps the    *)
(* invariant.                                                              *)
LEMMA TimeoutInv ==
    ASSUME Inv, NEW c \in Conns, Timeout(c)
    PROVE  Inv'
<1>1. TypeOK /\ wsi[c] \in WsiType /\ srv[c] \in SrvType
  BY DEF Inv, TypeOK
<1>2. /\ Close(wsi[c], "Timeout") \in WsiType
      /\ Close(wsi[c], "Timeout").mode = "Closed"
      /\ Close(wsi[c], "Timeout").consumed = wsi[c].consumed
  BY <1>1, CloseType DEF Outcomes
<1>3. /\ srv' = [srv EXCEPT ![c] = srv[c]] /\ svcbuf' \in Bufs /\ conf' = conf
      /\ wsi' = [wsi EXCEPT ![c] = Close(wsi[c], "Timeout")]
      /\ srv[c].resp = NoResp => srv[c].sent = 0
      /\ wsi[c].consumed <= RespLen
  BY <1>1 DEF Timeout, SetWsi, Inv, TypeOK, ConsumedInv, NoOverRead, Bufs
<1>. QED  BY <1>1, <1>2, <1>3, FrameStep DEF Waiting

(* Updating one field of a peer record keeps it typed. *)
LEMMA SrvSetPrx ==
    ASSUME NEW v \in SrvType, NEW p \in ProxyReplies
    PROVE  [v EXCEPT !.prx = p] \in SrvType
BY DEF SrvType
LEMMA SrvSetPrxRead ==
    ASSUME NEW v \in SrvType
    PROVE  [v EXCEPT !.prx_read = TRUE] \in SrvType
BY DEF SrvType
LEMMA SrvSetEof ==
    ASSUME NEW v \in SrvType
    PROVE  [v EXCEPT !.eof = TRUE] \in SrvType
BY DEF SrvType
LEMMA SrvSetSent ==
    ASSUME NEW v \in SrvType, NEW n \in 0..(RespLen + FrameLen)
    PROVE  [v EXCEPT !.sent = n] \in SrvType
BY DEF SrvType
LEMMA SrvSetResp ==
    ASSUME NEW v \in SrvType, NEW r \in Responses
    PROVE  [v EXCEPT !.resp = r] \in SrvType
BY DEF SrvType

(* The peer's steps change srv[c] only while c waits, and never the       *)
(* bytes already read.                                                     *)
LEMMA PeerInv ==
    ASSUME Inv, NEW c \in Conns,
           ProxyRespond(c) \/ ServerRespond(c) \/ ServerSend(c) \/ PeerClose(c)
    PROVE  Inv'
<1>1. TypeOK /\ wsi[c] \in WsiType /\ srv[c] \in SrvType
  BY DEF Inv, TypeOK
<1>2. /\ wsi' = wsi /\ conf' = conf /\ svcbuf' \in Bufs
      /\ wsi[c].mode \in Waiting
  BY DEF ProxyRespond, ServerRespond, ServerSend, PeerClose, Inv, TypeOK, Bufs, Waiting
<1>0. wsi[c].consumed \in Nat
  BY <1>1, FieldTypes
<1>3. /\ wsi' = [wsi EXCEPT ![c] = wsi[c]]
      /\ wsi[c].mode = "WaitingServerReply" => wsi[c].key \in Keys
      /\ wsi[c].consumed <= srv[c].sent /\ wsi[c].consumed <= RespLen
      /\ srv[c].resp = NoResp => srv[c].sent = 0
  BY <1>1, <1>2 DEF Inv, TypeOK, KeyInv, ConsumedInv, NoOverRead
<1>4. CASE ProxyRespond(c)
  <2>1. PICK p \in ProxyReplies : srv' = [srv EXCEPT ![c].prx = p]
    BY <1>4 DEF ProxyRespond
  <2> DEFINE s == [srv[c] EXCEPT !.prx = p]
  <2>2. s \in SrvType
    BY <1>1, Zenon, SrvSetPrx
  <2>3. srv' = [srv EXCEPT ![c] = s] /\ s.sent = srv[c].sent /\ s.resp = srv[c].resp
    BY <2>1
  <2>4. wsi[c].mode # "WsClient"
    BY <1>2 DEF Waiting
  <2>. QED  BY <1>1, <1>2, <1>3, <2>2, <2>3, <2>4, FrameStep
<1>5. CASE ServerRespond(c)
  <2>1. PICK r \in Responses, n \in 1..(RespLen + FrameLen) :
            srv' = [srv EXCEPT ![c].resp = r, ![c].sent = n]
    BY <1>5 DEF ServerRespond
  <2> DEFINE s0 == [srv[c] EXCEPT !.resp = r]
             s == [s0 EXCEPT !.sent = n]
  <2>2. n \in 0..(RespLen + FrameLen) /\ n >= 1
    BY Bounds
  <2>3. s0 \in SrvType
    BY <1>1, Zenon, SrvSetResp
  <2>4. s \in SrvType
    BY <2>2, <2>3, Zenon, SrvSetSent
  <2>5. s.resp # NoResp
    <3>1. s.resp = r
      OBVIOUS
    <3>2. "none" \notin DOMAIN r
      BY DEF Responses
    <3>. QED  BY <3>1, <3>2 DEF NoResp
  <2>6. srv' = [srv EXCEPT ![c] = s] /\ s.sent = n
    <3>1. [srv EXCEPT ![c].resp = r, ![c].sent = n] = [srv EXCEPT ![c] = s]
      OBVIOUS
    <3>. QED  BY <2>1, <3>1
  <2>7. srv[c].resp = NoResp /\ wsi[c].mode = "WaitingServerReply"
    BY <1>5 DEF ServerRespond
  <2>8. wsi[c].consumed <= n
    <3>1. srv[c].sent = 0
      BY <1>3, <2>7
    <3>2. wsi[c].consumed <= 0
      BY <1>3, <3>1
    <3>. QED  BY <1>0, <2>2, <3>2
  <2>. QED  BY <1>1, <1>2, <1>3, <2>4, <2>5, <2>6, <2>7, <2>8, FrameStep
<1>6. CASE ServerSend(c)
  <2>1. PICK n \in (srv[c].sent + 1)..(RespLen + FrameLen) : srv' = [srv EXCEPT ![c].sent = n]
    BY <1>6 DEF ServerSend
  <2> DEFINE s == [srv[c] EXCEPT !.sent = n]
  <2>2. srv[c].sent \in Nat
    BY <1>1 DEF SrvType
  <2>3. n \in 0..(RespLen + FrameLen) /\ wsi[c].consumed <= n
    BY <1>0, <1>3, <2>1, <2>2, Bounds
  <2>4. s \in SrvType
    BY <1>1, <2>3, Zenon, SrvSetSent
  <2>5. srv[c].resp # NoResp /\ wsi[c].mode = "WaitingServerReply"
    BY <1>6 DEF ServerSend
  <2>6. srv' = [srv EXCEPT ![c] = s] /\ s.sent = n /\ s.resp = srv[c].resp
    BY <2>1
  <2>. QED  BY <1>1, <1>2, <1>3, <2>3, <2>4, <2>5, <2>6, FrameStep
<1>7. CASE PeerClose(c)
  <2> DEFINE s == [srv[c] EXCEPT !.eof = TRUE]
  <2>1. srv' = [srv EXCEPT ![c] = s] /\ s.sent = srv[c].sent /\ s.resp = srv[c].resp
    BY <1>7 DEF PeerClose
  <2>2. s \in SrvType
    BY <1>1, Zenon, SrvSetEof
  <2>3. wsi[c].mode # "WsClient"
    BY <1>2 DEF Waiting
  <2>. QED  BY <1>1, <1>2, <1>3, <2>1, <2>2, <2>3, FrameStep
<1>. QED  BY <1>4, <1>5, <1>6, <1>7

(* Every step of the client and of its peers keeps the invariant. *)
LEMMA NextInv == Inv /\ [Next]_vars => Inv'
<1> SUFFICES ASSUME Inv, [Next]_vars PROVE Inv'
  OBVIOUS
<1>1. CASE UNCHANGED vars
  BY <1>1 DEF vars, Inv, TypeOK, KeyInv, ConsumedInv, NoOverRead, HandshakeVerified
<1>2. ASSUME NEW c \in Conns, NEW ev, ClientSocketService(c, ev)
      PROVE  Inv'
  <2>1. UNCHANGED conf
    BY <1>2 DEF ClientSocketService
  <2>. QED  BY <1>2, <2>1, ProxyReplyInv, IssueInv, ServerReplyInv
            DEF ClientSocketService
<1>3. ASSUME NEW c \in Conns, Timeout(c) PROVE Inv'
  BY <1>3, TimeoutInv
<1>4. ASSUME NEW c \in Conns,
             ProxyRespond(c) \/ ServerRespond(c) \/ ServerSend(c) \/ PeerClose(c)
      PROVE  Inv'
  BY <1>4, PeerInv
<1>. QED  BY <1>1, <1>2, <1>3, <1>4 DEF Next

-----------------------------------------------------------------------------
(* Theorems                                                               *)

(* Every reachable state is typed: in particular no free count, no byte  *)
(* count and no TLS retry count leaves its range.                          *)
THEOREM TypeCorrect == Spec => []TypeOK
<1>1. Init => Inv
  BY InitInv
<1>2. Inv /\ [Next]_vars => Inv'
  BY NextInv
<1>3. Inv => TypeOK
  BY DEF Inv
<1>. QED  BY <1>1, <1>2, <1>3, PTL DEF Spec

(* Lines 384-408 and 583-590 with the generator 714-852: no connection   *)
(* reaches LWS_CONNMODE_WS_CLIENT without the 101/websocket/upgrade      *)
(* headers and the accept value of the key it sent, for any registry,    *)
(* any offers and any number of connections.                             *)
THEOREM HandshakeVerifiedThm == Spec => []HandshakeVerified
<1>1. Inv => HandshakeVerified
  BY DEF Inv
<1>. QED  BY InitInv, NextInv, <1>1, PTL DEF Spec

(* Lines 273-295: the handshake never takes bytes past the end of the    *)
(* server's reply, however the reply is split into packets.             *)
THEOREM NoOverReadThm == Spec => []NoOverRead
<1>1. Inv => NoOverRead
  BY DEF Inv
<1>. QED  BY InitInv, NextInv, <1>1, PTL DEF Spec

=============================================================================
