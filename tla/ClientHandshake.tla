-------------------------- MODULE ClientHandshake --------------------------
(***************************************************************************)
(* The client side of the libwebsockets handshake, lib/client.c.          *)
(*                                                                         *)
(* One record wsi[c] per connection holds the fields of struct            *)
(* libwebsocket that lws_client_socket_service,                           *)
(* lws_client_interpret_server_handshake and                              *)
(* libwebsockets_generate_client_handshake read and write.  conf[c] holds *)
(* what libwebsocket_client_connect fixed before the first service call   *)
(* (proxy, use_ssl, c_protocol, c_origin).  srv[c] is the peer: what the  *)
(* proxy and the server have put on the socket.  svcbuf is the first 13   *)
(* bytes of context->service_buffer, shared by every connection of the    *)
(* context.                                                               *)
(*                                                                         *)
(* A handler invocation is one step: the helpers below take a wsi record  *)
(* and return the record after one piece of the handler, so a handler is *)
(* their composition in the order of the code.                            *)
(***************************************************************************)
EXTENDS Naturals, Sequences, FiniteSets

CONSTANTS
    Conns,          \* the client connections of one context
    ProtoNames,     \* sub-protocol names that can occur on the wire
    Registry,       \* context->protocols[]: names, in registry order
    SessionSize,    \* per_session_data_size of each protocols[] entry
    ExtNames,       \* extension names that can occur on the wire
    ExtRegistry,    \* context->extensions[]: names, in registry order
    Offers,         \* the c_protocol strings a connection may carry
    ServerExts,     \* Sec-WebSocket-Extensions values a server may send
    Statuses,       \* status tokens a server may send
    Upgrades,       \* Upgrade header values a server may send
    Connections,    \* Connection header values a server may send
    Keys,           \* the 16-byte random nonces, abstracted
    Accepts,        \* base64 SHA-1 digests, abstracted
    AcceptOf,       \* base64(SHA1(base64(key) ++ GUID)) for each key
    ProxyUse,       \* the values of "connect through a proxy" to consider
    SslUse,         \* the values of wsi->use_ssl to consider
    Faults,         \* the failures of collaborators that may happen
    RespLen,        \* bytes of the server reply up to its final LF
    FrameLen,       \* bytes of WebSocket frames sent right after it
    MaxTlsRetries,  \* bound on SSL_ERROR_WANT_* results per connection
    NULL,           \* the NULL c_protocol
    NoKey           \* no key generated yet

(* The characters of a c_protocol string and of an extensions value: a    *)
(* name stands for all of its characters.  A protocol name is a token, so *)
(* it is never one of the separators the scan of c_protocol skips.        *)
Comma == ","
Space == " "
ExtSeps == {",", " "}

ASSUME ConstAssumption ==
    /\ Registry \in Seq(ProtoNames) /\ Len(Registry) >= 1
    /\ SessionSize \in [DOMAIN Registry -> Nat]
    /\ ExtRegistry \in Seq(ExtNames)
    /\ \A i, j \in DOMAIN ExtRegistry : ExtRegistry[i] = ExtRegistry[j] => i = j
    /\ Offers \subseteq Seq(ProtoNames \cup {Comma, Space}) \cup {NULL}
    /\ ServerExts \subseteq Seq(ExtNames \cup ExtSeps)
    /\ "" \notin ProtoNames /\ "" \notin ExtNames /\ "<initial>" \notin ExtNames
    /\ ProtoNames \cap {Comma, Space} = {}
    /\ AcceptOf \in [Keys -> Accepts]
    /\ NoKey \notin Keys
    /\ ProxyUse \subseteq BOOLEAN /\ SslUse \subseteq {0, 1, 2}
    /\ Faults \subseteq {"Random", "ExtAlloc", "UserAlloc", "RxAlloc", "ShortWrite"}
    /\ RespLen \in Nat \ {0} /\ FrameLen \in Nat /\ MaxTlsRetries \in Nat

(* A server reply ends with the LF of its status line and the LF of the  *)
(* blank line, so the parser never completes on fewer than two bytes.    *)
ASSUME ReplyLenAssumption == RespLen >= 2

Modes == {"WaitingProxyReply", "IssueHandshake", "WaitingServerReply",
          "WsClient", "Closed", "Crashed"}
Timeouts == {"None", "AwaitingProxyResponse", "SentClientHandshake",
             "AwaitingServerResponse"}
Buffers == {"c_path", "c_host", "c_origin", "c_protocol", "hdrs"}
PtrStates == {"Null", "Live", "Dangling"}
CertResults == {"X509_V_OK", "DepthZeroSelfSigned", "OtherError"}
(* What the first recv() of the CONNECT reply returns: all of a 200 or of *)
(* another reply, or fewer than 13 bytes of one: of a 200, of another     *)
(* reply cut before its status code (still a prefix of "HTTP/1.0 200 "),  *)
(* or of a reply that already differs.                                    *)
ProxyReplies == {"Full200", "FullOther", "Short200", "ShortOther", "ShortMismatch"}
Outcomes == {"None", "Established", "TransportDead", "ProxyRejected",
             "TlsFailed", "RandomExhausted", "ParseError", "WouldBlock",
             "BadStatus", "BadUpgrade", "BadConnection", "UnknownProtocol",
             "UnknownExtension", "BadAccept", "AllocFailed", "Timeout",
             "NullProtocolList"}

(* strtolower() on the header values a server may send. *)
LowerTable == [s \in {"101", "200", "WebSocket", "websocket", "WEBSOCKET",
                      "h2c", "Upgrade", "upgrade", "keep-alive"} |->
                 CASE s \in {"WebSocket", "websocket", "WEBSOCKET"} -> "websocket"
                   [] s \in {"Upgrade", "upgrade"} -> "upgrade"
                   [] OTHER -> s]
ASSUME LowerAssumption ==
    Statuses \cup Upgrades \cup Connections \subseteq DOMAIN LowerTable

Responses == [status : Statuses, upgrade : Upgrades, connection : Connections,
              proto : ProtoNames \cup {""}, exts : ServerExts,
              accept : Accepts, wellformed : BOOLEAN]
NoResp == [none |-> TRUE]

VARIABLES conf, wsi, srv, svcbuf
vars == <<conf, wsi, srv, svcbuf>>

Confs == [proxy : ProxyUse, ssl : SslUse, offer : Offers, origin : BOOLEAN]

-----------------------------------------------------------------------------
(* Pieces of the handlers, as functions of the wsi record.                *)

(* free(p) of one of the connection's heap buffers; free(NULL) is a no-op *)
(* and the pointer is never reset, so a second free is a double free.     *)
Free(w, b) ==
    IF w.ptr[b] = "Null" THEN w
    ELSE [w EXCEPT !.ptr[b] = "Dangling", !.frees[b] = @ + 1]

(* libwebsocket_close_and_free_session: the session ends. *)
Close(w, why) == [w EXCEPT !.mode = "Closed", !.closes = @ + 1,
                           !.outcome = IF @ = "None" THEN why ELSE @]

(* The free loop over wsi->u.hdr.hdrs[] (lines 612-614 and 682-684). *)
FreeHdrs(w) == Free(w, "hdrs")

SetWsi(c, w) == wsi' = [wsi EXCEPT ![c] = w]

InitWsi(cf) ==
    [mode |-> IF cf.proxy THEN "WaitingProxyReply" ELSE "IssueHandshake",
     timeout |-> IF cf.proxy THEN "AwaitingProxyResponse" ELSE "SentClientHandshake",
     pollout |-> ~cf.proxy,
     ssl |-> FALSE, tries |-> 0, cert |-> "None",
     ptr |-> [b \in Buffers |->
                CASE b = "c_origin" -> IF cf.origin THEN "Live" ELSE "Null"
                  [] b = "c_protocol" -> IF cf.offer = NULL THEN "Null" ELSE "Live"
                  [] b = "hdrs" -> "Null"
                  [] OTHER -> "Live"],
     frees |-> [b \in Buffers |-> 0], closes |-> 0,
     key |-> NoKey, proposed |-> {}, req |-> "None",
     parser |-> "None", consumed |-> 0, garbage |-> FALSE,
     protocol |-> 0, active |-> <<>>, vetoed |-> FALSE,
     proxy_ok |-> FALSE, outcome |-> "None"]

Init ==
    /\ conf \in [Conns -> Confs]
    /\ wsi = [c \in Conns |-> InitWsi(conf[c])]
    /\ srv = [c \in Conns |-> [resp |-> NoResp, sent |-> 0, eof |-> FALSE,
                               prx |-> "None", prx_read |-> FALSE]]
    /\ svcbuf = "Other"

-----------------------------------------------------------------------------
(* libwebsockets_generate_client_handshake                                *)

(* Lines 714-727: the random source gave fewer than 16 bytes.  The        *)
(* generator frees the connect strings and closes the session itself      *)
(* before it returns NULL.                                                *)
GenerateFailed(w) ==
    Close(Free(Free(Free(Free(w, "c_path"), "c_host"), "c_origin"),
               "c_protocol"), "RandomExhausted")

(* Lines 729-861: key k is the nonce, the extensions of context->         *)
(* extensions that no extension vetoed and the user confirmed are         *)
(* proposed (p, registry indices), the request is formatted into the      *)
(* service buffer and path, host and origin are freed.  The expected      *)
(* accept value is AcceptOf[k].                                           *)
Generated(w, k, p) ==
    [Free(Free(Free(w, "c_path"), "c_host"), "c_origin")
        EXCEPT !.key = k, !.proposed = p]

(* What send()/SSL_write() of the request can return (lines 214-228): a   *)
(* plain non-blocking send may take only part of it.                      *)
SendResults(c) ==
    (IF srv[c].eof THEN {"Fail"} ELSE {})
    \cup {"Full"}
    \cup (IF "ShortWrite" \in Faults /\ conf[c].ssl = 0 THEN {"Partial"} ELSE {})

(* Mutant: the libwebsocket_set_timeout call of line 233 is left out.   *)
AwaitReplyNoTimeout(w, s) ==
    [w EXCEPT !.req = s, !.parser = "NamePart", !.mode = "WaitingServerReply"]

(* Lines 230-234: the request went out; parse the reply, with a timeout.  *)
AwaitReply(w, s) ==
    [w EXCEPT !.req = s, !.parser = "NamePart", !.mode = "WaitingServerReply",
              !.timeout = "AwaitingServerResponse"]

(* Lines 204-236 of lws_client_socket_service: generate the request, send *)
(* it and wait for the reply.  buf is the service buffer on entry.        *)
SendHandshake(c, w, buf) ==
    \/ /\ "Random" \in Faults
       /\ SetWsi(c, Close(GenerateFailed(w), "RandomExhausted"))
       /\ svcbuf' = buf
    \/ \E k \in Keys, p \in SUBSET DOMAIN ExtRegistry, s \in SendResults(c) :
          LET w1 == Generated(w, k, p) IN
          /\ svcbuf' = "Other"
          /\ IF s = "Fail"
               THEN SetWsi(c, Close(w1, "TransportDead"))
               ELSE SetWsi(c, AwaitReply(w1, s))

(* Mutant: the use_ssl == 2 exception admits every certificate error.    *)
CertRejectedAnySelfSigned(v, use_ssl) ==
    v # "X509_V_OK" /\ use_ssl # 2

(* Lines 189-191: the certificate check after a successful SSL_connect.  *)
CertRejected(v, use_ssl) ==
    v # "X509_V_OK" /\ (v # "DepthZeroSelfSigned" \/ use_ssl # 2)

(* The LWS_CONNMODE_WS_CLIENT_ISSUE_HANDSHAKE case, lines 91-236, entered *)
(* with wsi record w and service buffer buf.  POLLOUT interest is dropped *)
(* (lines 105-110) and the SSL object made the first time (114-141).      *)
(* SSL_connect may ask to be retried (WANT_*: ask for writable, return),  *)
(* fail (return, no close: retried until the timeout) or succeed.         *)
IssueHandshake(c, w, buf) ==
    LET w1 == [w EXCEPT !.pollout = FALSE, !.ssl = @ \/ conf[c].ssl # 0]
    IN  IF conf[c].ssl = 0
        THEN SendHandshake(c, w1, buf)
        ELSE \/ /\ w1.tries < MaxTlsRetries
                /\ SetWsi(c, [w1 EXCEPT !.tries = @ + 1, !.pollout = TRUE])
                /\ svcbuf' = buf
             \/ /\ SetWsi(c, w1)
                /\ svcbuf' = buf
             \/ \E v \in CertResults :
                  LET w2 == [w1 EXCEPT !.cert = v] IN
                  IF CertRejected(v, conf[c].ssl)
                  THEN SetWsi(c, Close(w2, "TlsFailed")) /\ svcbuf' = buf
                  ELSE SendHandshake(c, w2, buf)

-----------------------------------------------------------------------------
(* The readiness the event loop can report for a connection: revents is  *)
(* a non-empty subset of these.                                           *)
Readable(c) ==
    \/ srv[c].eof
    \/ srv[c].prx \in ProxyReplies /\ ~srv[c].prx_read
    \/ srv[c].sent > wsi[c].consumed
PollEvents(c) ==
    (IF Readable(c) THEN {"POLLIN"} ELSE {})
    \cup (IF wsi[c].pollout THEN {"POLLOUT"} ELSE {})
    \cup (IF srv[c].eof THEN {"POLLHUP"} ELSE {})

(* The LWS_CONNMODE_WS_CLIENT_WAITING_PROXY_REPLY case, lines 54-89.  A   *)
(* recv() of a whole CONNECT reply leaves its first 13 bytes in the       *)
(* buffer; a short one (fewer than 13 bytes, a prefix of "HTTP/1.0 200 ") *)
(* or an empty one at end of file leaves the stale tail of whatever the   *)
(* buffer held; the strcmp then sees the mix.  On a match the timeout is  *)
(* cleared and the code falls through into ISSUE_HANDSHAKE.               *)
ServiceProxyReply(c, ev) ==
    LET w == wsi[c]
        got == srv[c].prx \in ProxyReplies /\ ~srv[c].prx_read
    IN
    /\ w.mode = "WaitingProxyReply"
    /\ IF "POLLHUP" \in ev
       THEN SetWsi(c, Close(w, "TransportDead")) /\ UNCHANGED <<srv, svcbuf>>
       ELSE IF ~got /\ ~srv[c].eof
       THEN SetWsi(c, Close(w, "TransportDead")) /\ UNCHANGED <<srv, svcbuf>>
       ELSE
         LET ok == IF got THEN \/ srv[c].prx = "Full200"
                               \/ /\ srv[c].prx \in {"Short200", "ShortOther"}
                                  /\ svcbuf = "Http200"
                   ELSE svcbuf = "Http200"
             buf == IF ok THEN "Http200" ELSE "Other"
         IN  /\ srv' = IF got THEN [srv EXCEPT ![c].prx_read = TRUE] ELSE srv
             /\ IF ok
                THEN IssueHandshake(c, [w EXCEPT !.timeout = "None",
                                                 !.proxy_ok = TRUE], buf)
                ELSE SetWsi(c, Close(w, "ProxyRejected")) /\ svcbuf' = buf

(* The LWS_CONNMODE_WS_CLIENT_ISSUE_HANDSHAKE case entered directly.      *)
ServiceIssueHandshake(c) ==
    /\ wsi[c].mode = "IssueHandshake"
    /\ IssueHandshake(c, wsi[c], svcbuf)
    /\ UNCHANGED srv


-----------------------------------------------------------------------------
(* lws_client_interpret_server_handshake                                  *)

(* The first position from i on that holds ch, or one past the end.      *)
FirstFrom(s, i, ch) ==
    IF \E j \in i..Len(s) : s[j] = ch
    THEN CHOOSE j \in i..Len(s) : s[j] = ch /\ \A m \in i..(j - 1) : s[m] # ch
    ELSE Len(s) + 1

(* Lines 438-450: pc walks the c_protocol string s.  At each stop the     *)
(* server's token t matches if it is the text at pc followed by ',' or    *)
(* the end; otherwise pc skips to the next ',' and from there to the next *)
(* ' '.                                                                   *)
ProtocolOffered(s, t) ==
    LET Scan[i \in 1..(Len(s) + 1)] ==
          IF i > Len(s) THEN FALSE
          ELSE IF s[i] = t /\ (i = Len(s) \/ s[i + 1] = Comma) THEN TRUE
          ELSE Scan[FirstFrom(s, FirstFrom(s, i, Comma), Space)]
    IN  Scan[1]

(* Mutant: n is one past the entry that matched (n++ before the test).    *)
IsRegistryIndexPastMatch(n, t) ==
    /\ \A m \in 1..(n - 2) : Registry[m] # t
    /\ IF n = 0 THEN \A m \in DOMAIN Registry : Registry[m] # t
                ELSE n - 1 \in DOMAIN Registry /\ Registry[n - 1] = t

(* Lines 467-476: n is the index of the first protocols[] entry named t, *)
(* 0 if there is none.                                                    *)
IsRegistryIndex(n, t) ==
    /\ \A m \in 1..(n - 1) : Registry[m] # t
    /\ IF n = 0 THEN \A m \in DOMAIN Registry : Registry[m] # t
                ELSE Registry[n] = t

(* What the lookup loop is given after a name matched: line 533 sets n, *)
(* the index into ext_name[], to 1, so the next name is written after the *)
(* first letter of the one that matched.  Registered names are words,    *)
(* never a letter or a letter glued to a word.                            *)
Glued == "<initial>"

(* Lines 500-516: the characters of the extensions value that are not  *)
(* ',', ' ' or TAB, in order: the sequence of s with the separators     *)
(* filtered out, written as a recursive function so the provers can      *)
(* unfold it.                                                            *)
NameSeq(s) ==
    LET Kept[i \in 0..Len(s)] ==
          IF i = 0 THEN <<>>
          ELSE IF s[i] \in ExtSeps THEN Kept[i - 1]
          ELSE Append(Kept[i - 1], s[i])
    IN  Kept[Len(s)]

(* Lines 501-533: the names the extensions value is split into at ',',   *)
(* ' ' and TAB, in the order they are looked up.  Separators before the  *)
(* first name are skipped; a value of separators only gives the empty    *)
(* name.  After the first name anything more gives a glued name.         *)
ExtTokens(s) ==
    LET names == NameSeq(s)
    IN  IF names = <<>> THEN <<"">>
        ELSE IF Len(names) = 1 /\ s[Len(s)] \notin ExtSeps THEN names
        ELSE <<names[1], Glued>>

KnownExt(t) == \E i \in DOMAIN ExtRegistry : ExtRegistry[i] = t
ExtIndex(t) ==
    IF KnownExt(t) THEN CHOOSE i \in DOMAIN ExtRegistry : ExtRegistry[i] = t ELSE 0

(* n names of T are known and, if T has more, the next one is not.       *)
KnownPrefix(T, n) ==
    /\ \A j \in 1..n : KnownExt(T[j])
    /\ n < Len(T) => ~KnownExt(T[n + 1])

(* Mutant: the last instance is not counted in count_active_extensions.  *)
InstancesLastLost(T, n) == [i \in 1..(n - 1) |-> ExtIndex(T[i])]

(* Lines 524-565: the extensions instantiated, in the server's order, up *)
(* to the first unknown name (the first n names).                         *)
Instances(T, n) == [i \in 1..n |-> ExtIndex(T[i])]

(* bail2 (lines 674-689): free the header tokens and close the session.  *)
(* bail3 (670-672) frees c_protocol first and falls into bail2.          *)
InterpretBail2(w, why) == Close(FreeHdrs(w), why)
InterpretBail3(w, why) == InterpretBail2(Free(w, "c_protocol"), why)

(* Mutant: the strcmp of line 585 is not looked at.                      *)
AcceptIgnored(r, k) == TRUE

(* Lines 583-590: the Sec-WebSocket-Accept value is the one expected for  *)
(* the key this connection sent.                                           *)
AcceptMatches(r, k) == r.accept = AcceptOf[k]

(* Mutant: the pending timeout is not cleared at the commit (line 608).  *)
CheckAcceptTimeoutKept(c, w) ==
    IF ~AcceptMatches(srv[c].resp, w.key)
    THEN SetWsi(c, InterpretBail2(w, "BadAccept"))
    ELSE \/ /\ SessionSize[w.protocol] # 0 /\ "UserAlloc" \in Faults
            /\ SetWsi(c, InterpretBail2(w, "AllocFailed"))
         \/ \E veto \in BOOLEAN, rxFail \in BOOLEAN :
              LET w1 == FreeHdrs([w EXCEPT !.vetoed = veto])
                  w2 == [w1 EXCEPT !.mode = "WsClient", !.ptr["hdrs"] = "Null"]
              IN  IF rxFail
                  THEN "RxAlloc" \in Faults /\ SetWsi(c, InterpretBail3(w2, "AllocFailed"))
                  ELSE SetWsi(c, [w2 EXCEPT !.outcome = "Established"])

(* Mutant: the union is not cleared (line 622), so the token pointers    *)
(* keep their freed values.                                               *)
CheckAcceptTokensKept(c, w) ==
    IF ~AcceptMatches(srv[c].resp, w.key)
    THEN SetWsi(c, InterpretBail2(w, "BadAccept"))
    ELSE \/ /\ SessionSize[w.protocol] # 0 /\ "UserAlloc" \in Faults
            /\ SetWsi(c, InterpretBail2(w, "AllocFailed"))
         \/ \E veto \in BOOLEAN, rxFail \in BOOLEAN :
              LET w1 == FreeHdrs([w EXCEPT !.vetoed = veto, !.timeout = "None"])
                  w2 == [w1 EXCEPT !.mode = "WsClient"]
              IN  IF rxFail
                  THEN "RxAlloc" \in Faults /\ SetWsi(c, InterpretBail3(w2, "AllocFailed"))
                  ELSE SetWsi(c, [w2 EXCEPT !.outcome = "Established"])

(* Lines 583-668: the accept check and the commit.  The return of the    *)
(* FILTER_PRE_ESTABLISH callback (veto) is not looked at.  The header    *)
(* tokens are freed, the mode set, and the union memset to 0, which      *)
(* NULLs the token pointers; then the rx buffer is allocated.            *)
CheckAccept(c, w) ==
    IF ~AcceptMatches(srv[c].resp, w.key)
    THEN SetWsi(c, InterpretBail2(w, "BadAccept"))
    ELSE \/ /\ SessionSize[w.protocol] # 0 /\ "UserAlloc" \in Faults
            /\ SetWsi(c, InterpretBail2(w, "AllocFailed"))
         \/ \E veto \in BOOLEAN, rxFail \in BOOLEAN :
              LET w1 == FreeHdrs([w EXCEPT !.vetoed = veto, !.timeout = "None"])
                  w2 == [w1 EXCEPT !.mode = "WsClient", !.ptr["hdrs"] = "Null"]
              IN  IF rxFail
                  THEN "RxAlloc" \in Faults /\ SetWsi(c, InterpretBail3(w2, "AllocFailed"))
                  ELSE SetWsi(c, [w2 EXCEPT !.outcome = "Established"])

(* Lines 487-574: instantiate each extension the server named; a malloc *)
(* of the per-connection state may fail at any of them.                  *)
CheckExtensions(c, w) ==
    LET e == srv[c].resp.exts
        T == IF e = <<>> THEN <<>> ELSE ExtTokens(e)
    IN  \E n \in 0..Len(T) :
          LET I == Instances(T, n) IN
          /\ KnownPrefix(T, n)
          /\ \/ \E j \in 1..n :
                 /\ "ExtAlloc" \in Faults
                 /\ SetWsi(c, InterpretBail2([w EXCEPT !.active = SubSeq(I, 1, j - 1)],
                                             "AllocFailed"))
             \/ /\ n < Len(T)
                /\ SetWsi(c, InterpretBail2([w EXCEPT !.active = I], "UnknownExtension"))
             \/ /\ n = Len(T)
                /\ CheckAccept(c, [w EXCEPT !.active = I])

(* Lines 384-485: status, Upgrade and Connection after strtolower, then  *)
(* the sub-protocol.  With no protocol header the first registered one is *)
(* taken; otherwise pc = c_protocol is dereferenced, NULL or not.         *)
InterpretServerHandshake(c, w) ==
    LET r == srv[c].resp
        s == conf[c].offer
        w1 == Free(w, "c_protocol")
    IN  IF LowerTable[r.status] # "101"
          THEN SetWsi(c, InterpretBail3(w, "BadStatus"))
        ELSE IF LowerTable[r.upgrade] # "websocket"
          THEN SetWsi(c, InterpretBail3(w, "BadUpgrade"))
        ELSE IF LowerTable[r.connection] # "upgrade"
          THEN SetWsi(c, InterpretBail3(w, "BadConnection"))
        ELSE IF r.proto = ""
          THEN CheckExtensions(c, [w1 EXCEPT !.protocol = 1])
        ELSE IF s = NULL
          THEN SetWsi(c, [w EXCEPT !.mode = "Crashed", !.outcome = "NullProtocolList"])
        ELSE \E n \in 0..Len(Registry) :
               /\ IsRegistryIndex(n, r.proto)
               /\ IF ~ProtocolOffered(s, r.proto) \/ n = 0
                    THEN SetWsi(c, InterpretBail2(w1, "UnknownProtocol"))
                  ELSE CheckExtensions(c, [w1 EXCEPT !.protocol = n])

-----------------------------------------------------------------------------
(* The LWS_CONNMODE_WS_CLIENT_WAITING_SERVER_REPLY case, lines 238-320.   *)

(* bail3 of lws_client_socket_service, lines 314-320. *)
ServiceBail3(w, why) == Close(Free(w, "c_protocol"), why)

(* Mutant: the loop does not stop at the end of the reply.               *)
ReadCountAll(avail, need) == avail

(* Lines 273-295: the bytewise loop stops when the parser completes, so  *)
(* it takes the bytes available up to the reply's end.                   *)
ReadCount(avail, need) == IF avail < need THEN avail ELSE need

(* The reply is read one byte at a time until the parser completes or a  *)
(* read returns <= 0: k bytes are taken, never more than the reply has.   *)
(* A read of 0 (end of file) still feeds the local c to the parser: the   *)
(* byte read before it in this call, or an uninitialized one.  A plain    *)
(* recv() with nothing to read returns -1 (EAGAIN) and bails; SSL_read    *)
(* returns WANT_READ and the handler returns with the parser where it is. *)
ServiceServerReply(c, ev) ==
    LET w == wsi[c]
        avail == srv[c].sent - w.consumed
        need == RespLen - w.consumed
        k == ReadCount(avail, need)
        w1 == [w EXCEPT !.consumed = @ + k,
                        !.ptr["hdrs"] = IF k > 0 /\ @ = "Null" THEN "Live" ELSE @]
    IN  /\ w.mode = "WaitingServerReply"
        /\ UNCHANGED <<srv, svcbuf>>
        /\ IF "POLLHUP" \in ev \/ "POLLIN" \notin ev
             THEN SetWsi(c, ServiceBail3(w, "TransportDead"))
           ELSE IF k > 0 /\ ~srv[c].resp.wellformed
             THEN SetWsi(c, ServiceBail3([w EXCEPT !.consumed = @ + 1,
                                                   !.ptr["hdrs"] = "Live"], "ParseError"))
           ELSE IF k = need
             THEN InterpretServerHandshake(c, [w1 EXCEPT !.parser = "Complete"])
           ELSE IF srv[c].eof
             THEN \/ SetWsi(c, ServiceBail3(w1, "ParseError"))
                  \/ SetWsi(c, [w1 EXCEPT !.garbage = TRUE])
                  \/ /\ k = 0 /\ w1.consumed = RespLen - 1
                     /\ InterpretServerHandshake(c, [w1 EXCEPT !.garbage = TRUE,
                                                               !.parser = "Complete"])
           ELSE IF conf[c].ssl # 0
             THEN SetWsi(c, w1)
           ELSE SetWsi(c, ServiceBail3(w1, "WouldBlock"))

(* lws_client_socket_service: one call for one poll() result revents.    *)
ClientSocketService(c, ev) ==
    /\ \/ ServiceProxyReply(c, ev)
       \/ ServiceIssueHandshake(c)
       \/ ServiceServerReply(c, ev)
    /\ UNCHANGED conf

-----------------------------------------------------------------------------
(* The rest of the library and the peer.                                  *)

Waiting == {"WaitingProxyReply", "IssueHandshake", "WaitingServerReply"}

(* libwebsocket_service_timeout_check: a pending timeout expires and the *)
(* session is closed, whatever its mode; a closed session is gone.       *)
Timeout(c) ==
    /\ wsi[c].mode \notin {"Closed", "Crashed"}
    /\ wsi[c].timeout # "None"
    /\ SetWsi(c, Close(wsi[c], "Timeout"))
    /\ UNCHANGED <<conf, srv, svcbuf>>

(* The proxy answers the CONNECT; the first recv() sees this much of it. *)
ProxyRespond(c) ==
    /\ conf[c].proxy /\ srv[c].prx = "None" /\ ~srv[c].eof
    /\ wsi[c].mode = "WaitingProxyReply"
    /\ \E p \in ProxyReplies : srv' = [srv EXCEPT ![c].prx = p]
    /\ UNCHANGED <<conf, wsi, svcbuf>>

(* The server answers a complete request with some reply, of which the   *)
(* first n bytes arrive; the rest arrives in later packets.              *)
ServerRespond(c) ==
    /\ wsi[c].req = "Full" /\ srv[c].resp = NoResp /\ ~srv[c].eof
    /\ wsi[c].mode = "WaitingServerReply"
    /\ \E r \in Responses, n \in 1..(RespLen + FrameLen) :
          srv' = [srv EXCEPT ![c].resp = r, ![c].sent = n]
    /\ UNCHANGED <<conf, wsi, svcbuf>>

ServerSend(c) ==
    /\ srv[c].resp # NoResp /\ ~srv[c].eof
    /\ srv[c].sent < RespLen + FrameLen
    /\ wsi[c].mode = "WaitingServerReply"
    /\ \E n \in (srv[c].sent + 1)..(RespLen + FrameLen) :
          srv' = [srv EXCEPT ![c].sent = n]
    /\ UNCHANGED <<conf, wsi, svcbuf>>

(* The peer closes (or resets) the socket during the handshake. *)
PeerClose(c) ==
    /\ ~srv[c].eof /\ wsi[c].mode \in Waiting
    /\ srv' = [srv EXCEPT ![c].eof = TRUE]
    /\ UNCHANGED <<conf, wsi, svcbuf>>

(* The event loop reports POLLOUT while writable interest is set. *)
Writable(c) ==
    \E ev \in SUBSET PollEvents(c) : "POLLOUT" \in ev /\ ClientSocketService(c, ev)

Next ==
    \E c \in Conns :
       \/ \E ev \in (SUBSET PollEvents(c)) \ {{}} : ClientSocketService(c, ev)
       \/ Timeout(c)
       \/ ProxyRespond(c)
       \/ ServerRespond(c)
       \/ ServerSend(c)
       \/ PeerClose(c)

(* The timeout check runs every second and the event loop serves every  *)
(* writable request: both are weakly fair.  The peer owes nothing.       *)
Fairness == \A c \in Conns : WF_vars(Timeout(c)) /\ WF_vars(Writable(c))

Spec == Init /\ [][Next]_vars /\ Fairness


-----------------------------------------------------------------------------
(* Properties                                                             *)

(* The values of the fields of a wsi record that are not plain strings.  *)
PtrMaps == [Buffers -> PtrStates]
FreeCounts == [Buffers -> Nat]
KeyValues == Keys \cup {NoKey}
ExtSets == SUBSET DOMAIN ExtRegistry
ProtocolIndices == 0..Len(Registry)
ActiveLists == Seq(DOMAIN ExtRegistry)
WsiType ==
    [mode : Modes, timeout : Timeouts, pollout : BOOLEAN, ssl : BOOLEAN,
     tries : 0..MaxTlsRetries, cert : CertResults \cup {"None"},
     ptr : PtrMaps, frees : FreeCounts, closes : Nat,
     key : KeyValues, proposed : ExtSets,
     req : {"None", "Full", "Partial"},
     parser : {"None", "NamePart", "Complete"}, consumed : Nat,
     garbage : BOOLEAN, protocol : ProtocolIndices,
     active : ActiveLists, vetoed : BOOLEAN,
     proxy_ok : BOOLEAN, outcome : Outcomes]
SrvType ==
    [resp : Responses \cup {NoResp}, sent : 0..(RespLen + FrameLen),
     eof : BOOLEAN, prx : ProxyReplies \cup {"None"}, prx_read : BOOLEAN]

(* Every variable holds a value of its type. *)
TypeOK ==
    /\ conf \in [Conns -> Confs]
    /\ wsi \in [Conns -> WsiType]
    /\ srv \in [Conns -> SrvType]
    /\ svcbuf \in {"Http200", "Other"}

OfferedNames(s) == IF s = NULL THEN {} ELSE {s[i] : i \in DOMAIN s} \ {Comma, Space}

(* A connection reaches LWS_CONNMODE_WS_CLIENT only if the server's reply *)
(* had status 101, Upgrade websocket and Connection upgrade in any case,  *)
(* and carried the accept value derived from the key this connection     *)
(* generated and sent (interpreter lines 384-408 and 583-590, generator  *)
(* 714-852).                                                               *)
HandshakeVerified ==
    \A c \in Conns : wsi[c].mode = "WsClient" =>
        LET r == srv[c].resp IN
        /\ wsi[c].key \in Keys
        /\ r.accept = AcceptOf[wsi[c].key]
        /\ LowerTable[r.status] = "101"
        /\ LowerTable[r.upgrade] = "websocket"
        /\ LowerTable[r.connection] = "upgrade"

(* An established connection is bound to the registry entry the server  *)
(* named, and that name was in the list the client offered; with no      *)
(* protocol header it is bound to protocols[0] (lines 423-485).           *)
ProtocolBound ==
    \A c \in Conns : wsi[c].mode = "WsClient" =>
        LET t == srv[c].resp.proto IN
        IF t = "" THEN wsi[c].protocol = 1
        ELSE /\ t \in OfferedNames(conf[c].offer)
             /\ wsi[c].protocol \in DOMAIN Registry
             /\ Registry[wsi[c].protocol] = t

(* An established connection has exactly the extensions the server      *)
(* listed active, one per name and in the server's order (lines          *)
(* 487-574).                                                              *)
ExtensionsAsListed ==
    \A c \in Conns : wsi[c].mode = "WsClient" =>
        [i \in DOMAIN wsi[c].active |-> ExtRegistry[wsi[c].active[i]]]
            = NameSeq(srv[c].resp.exts)

(* A TLS connection is established only with a certificate that         *)
(* verified, or a self-signed one when use_ssl is 2 (lines 187-198).     *)
CertPolicy ==
    \A c \in Conns : wsi[c].mode = "WsClient" /\ conf[c].ssl # 0 =>
        \/ wsi[c].cert = "X509_V_OK"
        \/ wsi[c].cert = "DepthZeroSelfSigned" /\ conf[c].ssl = 2

(* The handshake never takes bytes beyond the end of the server's reply  *)
(* from the socket: WebSocket frames coalesced with the reply stay there *)
(* for the framing layer (the bytewise loop, lines 273-295).              *)
NoOverRead ==
    \A c \in Conns : wsi[c].consumed <= RespLen

(* The connection's heap buffers other than c_protocol, the header      *)
(* tokens above all, are freed at most once: the tokens are freed at the  *)
(* commit (612-614) and again by bail2 (682-684) when the rx buffer       *)
(* malloc fails, and only the union memset between (622) makes the second *)
(* loop see NULL.                                                          *)
HeaderTokensFreedOnce ==
    \A c \in Conns : \A b \in Buffers \ {"c_protocol"} : wsi[c].frees[b] <= 1

(* Every handshake ends: established, closed or crashed (the per-mode   *)
(* timeouts, lines 85-87 and 233-234 and client-handshake.c).            *)
HandshakeTerminates ==
    \A c \in Conns : <>(wsi[c].mode \notin Waiting)

(* Each heap buffer of the connection is freed at most once and the      *)
(* session is closed at most once (spec: "released exactly once").       *)
ReleasedAtMostOnce ==
    \A c \in Conns :
        /\ wsi[c].closes <= 1
        /\ \A b \in Buffers : wsi[c].frees[b] <= 1

(* A server that names a protocol the client offered and has registered *)
(* is never refused with "unknown protocol" (spec section 8, round-trip  *)
(* offer/accept; lines 438-462).                                          *)
OfferedProtocolAccepted ==
    \A c \in Conns : wsi[c].outcome = "UnknownProtocol" =>
        \/ srv[c].resp.proto \notin OfferedNames(conf[c].offer)
        \/ \A n \in DOMAIN Registry : Registry[n] # srv[c].resp.proto

(* Whatever the server sends, the interpreter does not crash (line 438   *)
(* dereferences c_protocol).                                              *)
NoCrash == \A c \in Conns : wsi[c].mode # "Crashed"

(* A connection the FILTER_PRE_ESTABLISH callback vetoed is not           *)
(* established (spec 4.3; lines 602-604).                                 *)
PreEstablishVetoHonoured ==
    \A c \in Conns : wsi[c].mode = "WsClient" => ~wsi[c].vetoed

(* When the parser reports the reply complete, the bytes taken from the  *)
(* socket end exactly at the reply's final LF (spec 8, non-over-read;    *)
(* lines 273-295).                                                        *)
CompleteAtTerminator ==
    \A c \in Conns : wsi[c].parser = "Complete" => wsi[c].consumed = RespLen

(* A read that would block never ends the connection: a reply split over *)
(* packets is waited for (spec 5; lines 286-289 and the comment at       *)
(* 297-301).                                                              *)
NoCloseOnWouldBlock ==
    \A c \in Conns : wsi[c].outcome # "WouldBlock"

(* A server that accepts extensions which are all registered is not      *)
(* refused with "unknown extension" (spec section 8: the extensions the  *)
(* server accepts are instantiated; lines 501-570).                       *)
ExtensionListAccepted ==
    \A c \in Conns : wsi[c].outcome = "UnknownExtension" =>
        \E i \in DOMAIN srv[c].resp.exts :
            srv[c].resp.exts[i] \notin ExtSeps /\ ~KnownExt(srv[c].resp.exts[i])

(* The proxy path goes on only after the proxy said 200 (lines 68-83).   *)
ProxyAcceptedOnly200 ==
    \A c \in Conns : wsi[c].proxy_ok => srv[c].prx \in {"Full200", "Short200"}


-----------------------------------------------------------------------------
(* The refinement mapping onto HandshakeAbstract.  A connection is        *)
(* connecting while it waits, open once it is a WS_CLIENT, and failed     *)
(* when it crashed; its key counts as offered once the request went out   *)
(* (req # "None"), and its reply is what the server sent.                 *)
PhaseOf(m) ==
    CASE m \in Waiting -> "Connecting"
      [] m = "WsClient" -> "Open"
      [] m = "Closed" -> "Closed"
      [] m = "Crashed" -> "Failed"

OfferedKey(w) == IF w.req = "None" THEN NoKey ELSE w.key

(* RFC 6455 4.1: a reply accepts key k when it is a 101 upgrading to     *)
(* websocket and carries base64(SHA1(k ++ GUID)).                         *)
Verifies(k, r) ==
    /\ r.accept = AcceptOf[k]
    /\ LowerTable[r.status] = "101"
    /\ LowerTable[r.upgrade] = "websocket"
    /\ LowerTable[r.connection] = "upgrade"

phaseBar == [c \in Conns |-> PhaseOf(wsi[c].mode)]
keyBar == [c \in Conns |-> OfferedKey(wsi[c])]
replyBar == [c \in Conns |-> srv[c].resp]

Abs == INSTANCE HandshakeAbstract
         WITH phase <- phaseBar, key <- keyBar, reply <- replyBar,
              Replies <- Responses, NoReply <- NoResp

(* The handshake implements the abstract one: one key per connection,    *)
(* sent before any reply; one reply, never replaced; a connection opens   *)
(* only on a reply that verifies its key (lines 384-410 and 583-592);     *)
(* and once open it is never closed by the handshake's own timeout, which *)
(* the commit clears (line 608) before the mode becomes WS_CLIENT.        *)
ImplementsAbstract == Abs!Spec

=============================================================================
