----------------------- MODULE ClientHandshake_frees -----------------------
(***************************************************************************)
(* HeaderTokensFreedOnce for every value of the constants.                *)
(*                                                                         *)
(* free() never resets the pointer (Free), so a buffer is freed twice as  *)
(* soon as two paths free it.  The connect strings c_path, c_host and     *)
(* c_origin are freed once, by the generator (lines 724-727 or 852-861),  *)
(* which runs only in ISSUE_HANDSHAKE, before any of them was freed.      *)
(* The header tokens are freed by the commit (612-614) and by bail2       *)
(* (682-684); the interpreter runs at most once per connection, from      *)
(* WAITING_SERVER_REPLY, when no token was freed yet, and the commit's    *)
(* memset (622) leaves the token pointer NULL for the bail2 that may      *)
(* follow it.  FreeInv says this of every connection's record.            *)
(***************************************************************************)
EXTENDS ClientHandshake_proofs, TLAPS

(* The heap buffers HeaderTokensFreedOnce is about. *)
TokenBufs == Buffers \ {"c_protocol"}
ConnStrings == {"c_path", "c_host", "c_origin"}

(* Each of them was freed at most once. *)
FreedOnce(w) == \A b \in TokenBufs : w.frees[b] <= 1

(* The strengthening, per record: before the request is generated none of *)
(* the connect strings was freed, and while the handshake waits the       *)
(* header tokens were not freed.                                           *)
FreesRec(w) ==
    /\ FreedOnce(w)
    /\ w.mode \in {"WaitingProxyReply", "IssueHandshake"} =>
          \A b \in ConnStrings : w.frees[b] = 0
    /\ w.mode \in Waiting => w.frees["hdrs"] = 0

FreeInv == \A c \in Conns : FreesRec(wsi[c])

(* free() counts one more free of b only, and none of a NULL pointer. *)
LEMMA FreeSlots ==
    ASSUME NEW w \in WsiType, NEW b \in Buffers
    PROVE  /\ \A d \in Buffers \ {b} : /\ Free(w, b).frees[d] = w.frees[d]
                                      /\ Free(w, b).ptr[d] = w.ptr[d]
           /\ Free(w, b).frees[b] <= w.frees[b] + 1
           /\ w.ptr[b] = "Null" => Free(w, b).frees[b] = w.frees[b]
<1>1. w.ptr \in PtrMaps /\ w.frees \in FreeCounts
  BY FieldTypes
<1>. QED  BY <1>1 DEF Free, PtrMaps, FreeCounts

(* close_and_free_session frees none of the connection's own buffers. *)
LEMMA CloseFrees ==
    ASSUME NEW w \in WsiType, NEW why \in Outcomes
    PROVE  Close(w, why).frees = w.frees
BY DEF Close, WsiType

(* Freeing the header tokens that were not freed yet, or whose pointer   *)
(* the memset left NULL, keeps every count at most one.                   *)
LEMMA HdrsFreedOnce ==
    ASSUME NEW w \in WsiType, FreedOnce(w),
           w.frees["hdrs"] = 0 \/ w.ptr["hdrs"] = "Null"
    PROVE  FreedOnce(FreeHdrs(w))
<1>1. /\ \A d \in Buffers \ {"hdrs"} : Free(w, "hdrs").frees[d] = w.frees[d]
      /\ Free(w, "hdrs").frees["hdrs"] <= w.frees["hdrs"] + 1
      /\ w.ptr["hdrs"] = "Null" => Free(w, "hdrs").frees["hdrs"] = w.frees["hdrs"]
  BY FreeSlots DEF Buffers
<1>2. w.frees["hdrs"] \in Nat
  BY FieldTypes DEF FreeCounts, Buffers
<1>. QED  BY <1>1, <1>2 DEF FreedOnce, FreeHdrs, TokenBufs

(* bail3 of the service loop frees c_protocol only; bail2 and bail3 of   *)
(* the interpreter free the header tokens once more.                      *)
LEMMA BailFrees ==
    ASSUME NEW w \in WsiType, NEW why \in Outcomes, FreedOnce(w)
    PROVE  /\ FreedOnce(ServiceBail3(w, why))
           /\ w.frees["hdrs"] = 0 \/ w.ptr["hdrs"] = "Null" =>
                 /\ FreedOnce(InterpretBail2(w, why))
                 /\ FreedOnce(InterpretBail3(w, why))
<1> DEFINE p == Free(w, "c_protocol")
<1>1. /\ p \in WsiType
      /\ \A d \in TokenBufs : p.frees[d] = w.frees[d] /\ p.ptr[d] = w.ptr[d]
  BY FreeType, FreeSlots DEF Buffers, TokenBufs
<1>2. FreedOnce(p)
  BY <1>1 DEF FreedOnce
<1>3. FreedOnce(ServiceBail3(w, why))
  BY <1>1, <1>2, CloseFrees DEF ServiceBail3, FreedOnce
<1>4. ASSUME NEW v \in WsiType, FreedOnce(v),
             v.frees["hdrs"] = 0 \/ v.ptr["hdrs"] = "Null"
      PROVE  FreedOnce(InterpretBail2(v, why))
  <2>1. FreeHdrs(v) \in WsiType /\ FreedOnce(FreeHdrs(v))
    BY <1>4, BailType, HdrsFreedOnce
  <2>. QED  BY <2>1, CloseFrees DEF InterpretBail2, FreedOnce
<1>5. w.frees["hdrs"] = 0 \/ w.ptr["hdrs"] = "Null" => FreedOnce(InterpretBail2(w, why))
  BY <1>4
<1>6. w.frees["hdrs"] = 0 \/ w.ptr["hdrs"] = "Null" => FreedOnce(InterpretBail3(w, why))
  <2>1. p.frees["hdrs"] = w.frees["hdrs"] /\ p.ptr["hdrs"] = w.ptr["hdrs"]
    BY <1>1 DEF TokenBufs, Buffers
  <2>. QED  BY <1>1, <1>2, <1>4, <2>1 DEF InterpretBail3
<1>. QED  BY <1>3, <1>5, <1>6

(* Lines 579-668: the commit frees the header tokens and the memset of   *)
(* line 622 makes the bail3 after a failed rx malloc free nothing more.   *)
LEMMA AcceptFrees ==
    ASSUME NEW c \in Conns, NEW w \in WsiType, FreedOnce(w), w.frees["hdrs"] = 0,
           CheckAccept(c, w)
    PROVE  \E x : wsi' = [wsi EXCEPT ![c] = x] /\ FreedOnce(x)
<1>1. /\ FreedOnce(InterpretBail2(w, "BadAccept"))
      /\ FreedOnce(InterpretBail2(w, "AllocFailed"))
  BY BailFrees DEF Outcomes
<1>2. ASSUME NEW veto \in BOOLEAN
      PROVE  LET w1 == FreeHdrs([w EXCEPT !.vetoed = veto, !.timeout = "None"])
                 w2 == [w1 EXCEPT !.mode = "WsClient", !.ptr["hdrs"] = "Null"]
             IN  /\ FreedOnce(InterpretBail3(w2, "AllocFailed"))
                 /\ FreedOnce([w2 EXCEPT !.outcome = "Established"])
  <2> DEFINE v1 == [w EXCEPT !.vetoed = veto]
             v2 == [v1 EXCEPT !.timeout = "None"]
             w1 == FreeHdrs(v2)
             m1 == [w1 EXCEPT !.mode = "WsClient"]
             w2 == [m1 EXCEPT !.ptr = [w1.ptr EXCEPT !["hdrs"] = "Null"]]
  <2>1. v2 \in WsiType
    <3>1. v1 \in WsiType
      BY Zenon, SetVetoed
    <3>. QED  BY Zenon, <3>1, SetTimeout DEF Timeouts
  <2>2. v2.frees = w.frees
    OBVIOUS
  <2>3. FreedOnce(v2) /\ v2.frees["hdrs"] = 0
    BY <2>2 DEF FreedOnce
  <2>4. w1 \in WsiType /\ FreedOnce(w1)
    <3>1. FreeHdrs(v2) \in WsiType
      BY <2>1, BailType DEF Outcomes
    <3>2. FreedOnce(FreeHdrs(v2))
      BY <2>1, <2>3, HdrsFreedOnce
    <3>. QED  BY <3>1, <3>2
  <2>5. w2 \in WsiType
    <3>1. m1 \in WsiType
      BY Zenon, <2>4, SetMode DEF Modes
    <3>2. [w1.ptr EXCEPT !["hdrs"] = "Null"] \in PtrMaps
      BY Zenon, <2>4, FieldTypes DEF PtrMaps, PtrStates, Buffers
    <3>. QED  BY Zenon, <3>1, <3>2, SetPtr
  <2>6. w2.frees = w1.frees /\ w2.ptr["hdrs"] = "Null"
    <3>1. w1.ptr \in PtrMaps
      BY <2>4, FieldTypes
    <3>. QED  BY <3>1 DEF PtrMaps, Buffers
  <2>7. FreedOnce(w2)
    BY <2>4, <2>6 DEF FreedOnce
  <2>8. FreedOnce(InterpretBail3(w2, "AllocFailed"))
    BY <2>5, <2>6, <2>7, BailFrees DEF Outcomes
  <2>9. FreedOnce([w2 EXCEPT !.outcome = "Established"])
    BY <2>7 DEF FreedOnce
  <2>10. [w1 EXCEPT !.mode = "WsClient", !.ptr["hdrs"] = "Null"] = w2
    OBVIOUS
  <2>11. FreeHdrs([w EXCEPT !.vetoed = veto, !.timeout = "None"]) = w1
    OBVIOUS
  <2>. QED  BY <2>8, <2>9, <2>10, <2>11
<1>. QED  BY <1>1, <1>2 DEF CheckAccept, SetWsi

(* Lines 487-574: the extension loop bails through bail2 or commits. *)
LEMMA ExtFrees ==
    ASSUME NEW c \in Conns, NEW w \in WsiType, FreedOnce(w), w.frees["hdrs"] = 0,
           CheckExtensions(c, w)
    PROVE  \E x : wsi' = [wsi EXCEPT ![c] = x] /\ FreedOnce(x)
<1> DEFINE e == srv[c].resp.exts
           T == IF e = <<>> THEN <<>> ELSE ExtTokens(e)
           I(n) == Instances(T, n)
<1>1. PICK n \in 0..Len(T) :
          /\ KnownPrefix(T, n)
          /\ \/ \E j \in 1..n :
                 /\ "ExtAlloc" \in Faults
                 /\ SetWsi(c, InterpretBail2([w EXCEPT !.active = SubSeq(I(n), 1, j - 1)],
                                             "AllocFailed"))
             \/ /\ n < Len(T)
                /\ SetWsi(c, InterpretBail2([w EXCEPT !.active = I(n)], "UnknownExtension"))
             \/ /\ n = Len(T)
                /\ CheckAccept(c, [w EXCEPT !.active = I(n)])
  BY DEF CheckExtensions
<1>2. /\ I(n) \in ActiveLists
      /\ \A j \in 1..n : SubSeq(I(n), 1, j - 1) \in ActiveLists
  BY <1>1, InstancesType
<1>3. ASSUME NEW v \in ActiveLists
      PROVE  /\ [w EXCEPT !.active = v] \in WsiType
             /\ FreedOnce([w EXCEPT !.active = v])
             /\ [w EXCEPT !.active = v].frees["hdrs"] = 0
  <2>1. [w EXCEPT !.active = v] \in WsiType
    BY Zenon, SetActive
  <2>. QED  BY <2>1 DEF FreedOnce
<1>4. ASSUME NEW v \in ActiveLists, NEW why \in Outcomes
      PROVE  FreedOnce(InterpretBail2([w EXCEPT !.active = v], why))
  BY <1>3, BailFrees
<1>5. CASE \E j \in 1..n :
             /\ "ExtAlloc" \in Faults
             /\ SetWsi(c, InterpretBail2([w EXCEPT !.active = SubSeq(I(n), 1, j - 1)],
                                         "AllocFailed"))
  <2>1. PICK j \in 1..n :
             SetWsi(c, InterpretBail2([w EXCEPT !.active = SubSeq(I(n), 1, j - 1)],
                                      "AllocFailed"))
    BY <1>5
  <2>. QED  BY <1>2, <1>4, <2>1 DEF SetWsi, Outcomes
<1>6. CASE SetWsi(c, InterpretBail2([w EXCEPT !.active = I(n)], "UnknownExtension"))
  BY <1>2, <1>4, <1>6 DEF SetWsi, Outcomes
<1>7. CASE CheckAccept(c, [w EXCEPT !.active = I(n)])
  BY <1>2, <1>3, <1>7, AcceptFrees
<1>. QED  BY <1>1, <1>5, <1>6, <1>7

(* Lines 384-485: the interpreter frees c_protocol, which is not counted, *)
(* and reaches bail2/bail3, the crash or the extension loop.             *)
LEMMA InterpretFrees ==
    ASSUME NEW c \in Conns, NEW w \in WsiType, FreedOnce(w), w.frees["hdrs"] = 0,
           InterpretServerHandshake(c, w)
    PROVE  \E x : wsi' = [wsi EXCEPT ![c] = x] /\ FreedOnce(x)
<1> DEFINE r == srv[c].resp
           s == conf[c].offer
           w1 == Free(w, "c_protocol")
<1>1. /\ w1 \in WsiType
      /\ \A d \in TokenBufs : w1.frees[d] = w.frees[d]
  BY FreeType, FreeSlots DEF Buffers, TokenBufs
<1>2. FreedOnce(w1) /\ w1.frees["hdrs"] = 0
  BY <1>1 DEF FreedOnce, TokenBufs, Buffers
<1>3. ASSUME NEW n \in ProtocolIndices
      PROVE  /\ [w1 EXCEPT !.protocol = n] \in WsiType
             /\ FreedOnce([w1 EXCEPT !.protocol = n])
             /\ [w1 EXCEPT !.protocol = n].frees["hdrs"] = 0
  <2>1. [w1 EXCEPT !.protocol = n] \in WsiType
    BY <1>1, Zenon, SetProtocol
  <2>. QED  BY <1>2, <2>1 DEF FreedOnce
<1>4. ASSUME NEW why \in Outcomes PROVE FreedOnce(InterpretBail3(w, why))
  BY BailFrees
<1>5. CASE ~HeadersOK(r)
  BY <1>4, <1>5 DEF InterpretServerHandshake, HeadersOK, SetWsi, Outcomes
<1>6. CASE HeadersOK(r) /\ r.proto = ""
  <2>1. 1 \in ProtocolIndices
    <3>1. Registry \in Seq(ProtoNames) /\ Len(Registry) >= 1
      BY Zenon, ConstAssumption
    <3>. QED  BY <3>1 DEF ProtocolIndices
  <2>2. CheckExtensions(c, [w1 EXCEPT !.protocol = 1])
    BY <1>6 DEF InterpretServerHandshake, HeadersOK
  <2>. QED  BY <1>3, <2>1, <2>2, ExtFrees
<1>7. CASE HeadersOK(r) /\ r.proto # "" /\ s = NULL
  <2>1. SetWsi(c, [w EXCEPT !.mode = "Crashed", !.outcome = "NullProtocolList"])
    BY <1>7 DEF InterpretServerHandshake, HeadersOK
  <2>2. FreedOnce([w EXCEPT !.mode = "Crashed", !.outcome = "NullProtocolList"])
    BY DEF FreedOnce
  <2>. QED  BY <2>1, <2>2 DEF SetWsi
<1>8. CASE HeadersOK(r) /\ r.proto # "" /\ s # NULL
  <2>1. PICK n \in 0..Len(Registry) :
            IF ~ProtocolOffered(s, r.proto) \/ n = 0
              THEN SetWsi(c, InterpretBail2(w1, "UnknownProtocol"))
            ELSE CheckExtensions(c, [w1 EXCEPT !.protocol = n])
    BY <1>8 DEF InterpretServerHandshake, HeadersOK
  <2>2. CASE ~ProtocolOffered(s, r.proto) \/ n = 0
    <3>1. FreedOnce(InterpretBail2(w1, "UnknownProtocol"))
      BY <1>1, <1>2, BailFrees DEF Outcomes
    <3>. QED  BY <2>1, <2>2, <3>1 DEF SetWsi
  <2>3. CASE ~(~ProtocolOffered(s, r.proto) \/ n = 0)
    <3>1. n \in ProtocolIndices
      BY DEF ProtocolIndices
    <3>. QED  BY <1>3, <2>1, <2>3, <3>1, ExtFrees
  <2>. QED  BY <2>2, <2>3
<1>. QED  BY <1>5, <1>6, <1>7, <1>8
(* A record with the counts and the mode of one that satisfies FreesRec  *)
(* satisfies it; so does a closed record with every count at most one.   *)
LEMMA FreesRecKept ==
    ASSUME NEW w, NEW x, FreesRec(w), x.frees = w.frees, x.mode = w.mode
    PROVE  FreesRec(x)
BY DEF FreesRec, FreedOnce
LEMMA FreesRecEnded ==
    ASSUME NEW x, FreedOnce(x), x.mode \notin Waiting
    PROVE  FreesRec(x)
BY DEF FreesRec, Waiting

(* The interpreter ends the handshake: the connection leaves the waiting *)
(* modes with every count at most one.                                    *)
LEMMA InterpretEnds ==
    ASSUME TypeOK, NEW c \in Conns, NEW w \in WsiType, FreedOnce(w),
           w.frees["hdrs"] = 0, InterpretServerHandshake(c, w)
    PROVE  \E x : wsi' = [wsi EXCEPT ![c] = x] /\ FreesRec(x)
<1>1. PICK x : wsi' = [wsi EXCEPT ![c] = x] /\ Interpreted(c, w, x)
  BY InterpretStep
<1>2. PICK y : wsi' = [wsi EXCEPT ![c] = y] /\ FreedOnce(y)
  BY InterpretFrees
<1>3. x = y
  BY <1>1, <1>2 DEF TypeOK
<1>4. x.mode \notin Waiting
  BY <1>1 DEF Interpreted, Waiting
<1>. QED  BY <1>1, <1>2, <1>3, <1>4, FreesRecEnded

(* Lines 238-320: the reply loop frees only c_protocol on its own bails, *)
(* and the header tokens stay unfreed while the connection waits.        *)
LEMMA ServerReplyFrees ==
    ASSUME TypeOK, NEW c \in Conns, NEW ev,
           wsi[c].consumed <= srv[c].sent, wsi[c].consumed <= RespLen,
           FreesRec(wsi[c]), ServiceServerReply(c, ev)
    PROVE  \E x : wsi' = [wsi EXCEPT ![c] = x] /\ FreesRec(x)
<1> DEFINE w == wsi[c]
           avail == srv[c].sent - w.consumed
           need == RespLen - w.consumed
           k == ReadCount(avail, need)
           w1 == [w EXCEPT !.consumed = @ + k,
                           !.ptr["hdrs"] = IF k > 0 /\ @ = "Null" THEN "Live" ELSE @]
           hd == IF k > 0 /\ w.ptr["hdrs"] = "Null" THEN "Live" ELSE w.ptr["hdrs"]
           u1 == [w EXCEPT !.consumed = w.consumed + k]
           u2 == [u1 EXCEPT !.ptr = [w.ptr EXCEPT !["hdrs"] = hd]]
<1>1. w \in WsiType /\ srv[c] \in SrvType /\ w.mode = "WaitingServerReply"
  BY DEF TypeOK, ServiceServerReply
<1>2. FreedOnce(w) /\ w.frees["hdrs"] = 0
  BY <1>1 DEF FreesRec, Waiting
<1>3. k \in Nat
  <2>1. RespLen \in Nat /\ w.consumed \in Nat /\ srv[c].sent \in Nat
    <3>1. RespLen \in Nat \ {0}
      BY Zenon, ConstAssumption
    <3>. QED  BY <1>1, <3>1, FieldTypes DEF SrvType
  <2>. QED  BY <2>1 DEF ReadCount
<1>4. w1 \in WsiType /\ w1.frees = w.frees /\ w1.mode = w.mode
  <2>1. u1 \in WsiType
    <3>1. w.consumed + k \in Nat
      BY <1>1, <1>3, FieldTypes
    <3>. QED  BY <1>1, <3>1, Zenon, SetConsumed
  <2>2. [w.ptr EXCEPT !["hdrs"] = hd] \in PtrMaps
    BY <1>1, FieldTypes DEF PtrMaps, PtrStates, Buffers
  <2>3. u2 \in WsiType
    BY <2>1, <2>2, Zenon, SetPtr
  <2>. QED  BY <2>3
<1>5. ASSUME NEW v \in WsiType, FreedOnce(v), NEW why \in Outcomes
      PROVE  FreesRec(ServiceBail3(v, why))
  <2>1. FreedOnce(ServiceBail3(v, why))
    BY <1>5, BailFrees
  <2>2. ServiceBail3(v, why).mode = "Closed"
    BY BailType
  <2>. QED  BY <2>1, <2>2, FreesRecEnded DEF Waiting
<1>6. ASSUME NEW v \in WsiType, v.frees = w.frees, v.mode = w.mode
      PROVE  FreesRec(v)
  BY <1>6, FreesRecKept
<1>7. CASE "POLLHUP" \in ev \/ "POLLIN" \notin ev
  BY <1>1, <1>2, <1>5, <1>7 DEF ServiceServerReply, SetWsi, Outcomes
<1>8. CASE ~("POLLHUP" \in ev \/ "POLLIN" \notin ev) /\ k > 0
           /\ ~srv[c].resp.wellformed
  <2> DEFINE v0 == [w EXCEPT !.consumed = w.consumed + 1]
             v == [v0 EXCEPT !.ptr = [w.ptr EXCEPT !["hdrs"] = "Live"]]
  <2>1. v \in WsiType
    <3>0. w.consumed + 1 \in Nat
      BY <1>1, FieldTypes
    <3>1. v0 \in WsiType
      BY <1>1, <3>0, Zenon, SetConsumed
    <3>2. [w.ptr EXCEPT !["hdrs"] = "Live"] \in PtrMaps
      BY <1>1, FieldTypes DEF PtrMaps, PtrStates, Buffers
    <3>. QED  BY <3>1, <3>2, Zenon, SetPtr
  <2>2. FreedOnce(v)
    BY <1>2 DEF FreedOnce
  <2>3. wsi' = [wsi EXCEPT ![c] = ServiceBail3(v, "ParseError")]
    BY <1>8 DEF ServiceServerReply, SetWsi
  <2>. QED  BY <1>5, <2>1, <2>2, <2>3 DEF Outcomes
<1>9. ASSUME NEW v \in WsiType, v.frees = w.frees, InterpretServerHandshake(c, v)
      PROVE  \E x : wsi' = [wsi EXCEPT ![c] = x] /\ FreesRec(x)
  <2>1. FreedOnce(v) /\ v.frees["hdrs"] = 0
    BY <1>2, <1>9 DEF FreedOnce
  <2>. QED  BY <1>9, <2>1, InterpretEnds
<1>10. CASE ~("POLLHUP" \in ev \/ "POLLIN" \notin ev)
            /\ ~(k > 0 /\ ~srv[c].resp.wellformed) /\ k = need
  <2>1. [w1 EXCEPT !.parser = "Complete"] \in WsiType
    BY <1>4, Zenon, SetParser
  <2>2. InterpretServerHandshake(c, [w1 EXCEPT !.parser = "Complete"])
    BY <1>10 DEF ServiceServerReply
  <2>3. [w1 EXCEPT !.parser = "Complete"].frees = w.frees
    BY <1>4
  <2>. QED  BY <1>9, <2>1, <2>2, <2>3
<1>11. CASE ~("POLLHUP" \in ev \/ "POLLIN" \notin ev)
            /\ ~(k > 0 /\ ~srv[c].resp.wellformed) /\ k # need /\ srv[c].eof
  <2>1. \/ SetWsi(c, ServiceBail3(w1, "ParseError"))
        \/ SetWsi(c, [w1 EXCEPT !.garbage = TRUE])
        \/ InterpretServerHandshake(c, [w1 EXCEPT !.garbage = TRUE,
                                                  !.parser = "Complete"])
    BY <1>11 DEF ServiceServerReply
  <2>2. [w1 EXCEPT !.garbage = TRUE] \in WsiType
    BY <1>4, Zenon, SetGarbage
  <2>3. [[w1 EXCEPT !.garbage = TRUE] EXCEPT !.parser = "Complete"] \in WsiType
    BY <2>2, Zenon, SetParser
  <2>4. /\ [w1 EXCEPT !.garbage = TRUE].frees = w.frees
        /\ [w1 EXCEPT !.garbage = TRUE].mode = w.mode
        /\ [w1 EXCEPT !.garbage = TRUE, !.parser = "Complete"].frees = w.frees
        /\ [w1 EXCEPT !.garbage = TRUE, !.parser = "Complete"]
             = [[w1 EXCEPT !.garbage = TRUE] EXCEPT !.parser = "Complete"]
    BY <1>4
  <2>5. FreedOnce(w1)
    BY <1>2, <1>4 DEF FreedOnce
  <2>. QED  BY <1>5, <1>6, <1>9, <2>1, <2>2, <2>3, <2>4, <2>5, <1>4 DEF SetWsi, Outcomes
<1>12. CASE ~("POLLHUP" \in ev \/ "POLLIN" \notin ev)
            /\ ~(k > 0 /\ ~srv[c].resp.wellformed) /\ k # need /\ ~srv[c].eof
  <2>1. SetWsi(c, w1) \/ SetWsi(c, ServiceBail3(w1, "WouldBlock"))
    BY <1>12 DEF ServiceServerReply
  <2>2. FreedOnce(w1)
    BY <1>2, <1>4 DEF FreedOnce
  <2>. QED  BY <1>4, <1>5, <1>6, <2>1, <2>2 DEF SetWsi, Outcomes
<1>. QED  BY <1>7, <1>8, <1>10, <1>11, <1>12

(* Lines 724-727 and 852-861: the generator frees c_path, c_host and     *)
(* c_origin, none of which was freed before, and not the header tokens.  *)
LEMMA StringsFreed ==
    ASSUME NEW w \in WsiType, FreedOnce(w), w.frees["hdrs"] = 0,
           \A b \in ConnStrings : w.frees[b] = 0
    PROVE  LET f3 == Free(Free(Free(w, "c_path"), "c_host"), "c_origin")
           IN  f3 \in WsiType /\ FreedOnce(f3) /\ f3.frees["hdrs"] = 0
<1> DEFINE f1 == Free(w, "c_path")
           f2 == Free(f1, "c_host")
           f3 == Free(f2, "c_origin")
<1>1. f1 \in WsiType /\ f2 \in WsiType /\ f3 \in WsiType
  BY FreeType DEF Buffers
<1>2. /\ \A d \in Buffers \ {"c_path"} : f1.frees[d] = w.frees[d]
      /\ f1.frees["c_path"] <= w.frees["c_path"] + 1
  BY FreeSlots DEF Buffers
<1>3. /\ \A d \in Buffers \ {"c_host"} : f2.frees[d] = f1.frees[d]
      /\ f2.frees["c_host"] <= f1.frees["c_host"] + 1
  BY <1>1, FreeSlots DEF Buffers
<1>4. /\ \A d \in Buffers \ {"c_origin"} : f3.frees[d] = f2.frees[d]
      /\ f3.frees["c_origin"] <= f2.frees["c_origin"] + 1
  BY <1>1, FreeSlots DEF Buffers
<1>5. \A d \in Buffers : w.frees[d] \in Nat
  BY FieldTypes DEF FreeCounts
<1>. QED  BY <1>1, <1>2, <1>3, <1>4, <1>5 DEF FreedOnce, TokenBufs, ConnStrings, Buffers

(* Lines 204-236: the request is generated and sent, and the connection *)
(* is closed or waits for the reply with no header token freed.           *)
LEMMA SendFrees ==
    ASSUME NEW c \in Conns, NEW w \in WsiType, NEW buf,
           FreedOnce(w), w.frees["hdrs"] = 0,
           \A b \in ConnStrings : w.frees[b] = 0,
           SendHandshake(c, w, buf)
    PROVE  \E x : wsi' = [wsi EXCEPT ![c] = x] /\ FreesRec(x)
<1> DEFINE f3 == Free(Free(Free(w, "c_path"), "c_host"), "c_origin")
<1>1. f3 \in WsiType /\ FreedOnce(f3) /\ f3.frees["hdrs"] = 0
  BY StringsFreed
<1>2. CASE SetWsi(c, Close(GenerateFailed(w), "RandomExhausted"))
  <2> DEFINE g == Free(f3, "c_protocol")
  <2>1. g \in WsiType /\ \A d \in TokenBufs : g.frees[d] = f3.frees[d]
    BY <1>1, FreeType, FreeSlots DEF Buffers, TokenBufs
  <2>2. FreedOnce(g)
    BY <1>1, <2>1 DEF FreedOnce
  <2>3. /\ Close(g, "RandomExhausted") \in WsiType
        /\ Close(g, "RandomExhausted").frees = g.frees
    BY <2>1, CloseType, CloseFrees DEF Outcomes
  <2>4. /\ Close(Close(g, "RandomExhausted"), "RandomExhausted").frees = g.frees
        /\ Close(Close(g, "RandomExhausted"), "RandomExhausted").mode = "Closed"
    BY <2>3, CloseType, CloseFrees DEF Outcomes
  <2>5. FreesRec(Close(GenerateFailed(w), "RandomExhausted"))
    BY <2>2, <2>4, FreesRecEnded DEF GenerateFailed, FreedOnce, Waiting
  <2>. QED  BY <1>2, <2>5 DEF SetWsi
<1>3. ASSUME NEW k \in Keys, NEW p \in SUBSET DOMAIN ExtRegistry,
             NEW s \in SendResults(c),
             IF s = "Fail" THEN SetWsi(c, Close(Generated(w, k, p), "TransportDead"))
                           ELSE SetWsi(c, AwaitReply(Generated(w, k, p), s))
      PROVE  \E x : wsi' = [wsi EXCEPT ![c] = x] /\ FreesRec(x)
  <2>1. Generated(w, k, p) \in WsiType /\ Generated(w, k, p).frees = f3.frees
    <3>1. Generated(w, k, p) \in WsiType
      BY GeneratedType
    <3>. QED  BY <1>1, <3>1 DEF Generated, WsiType
  <2>2. FreedOnce(Generated(w, k, p)) /\ Generated(w, k, p).frees["hdrs"] = 0
    BY <1>1, <2>1 DEF FreedOnce
  <2>3. CASE s = "Fail"
    <3>1. /\ Close(Generated(w, k, p), "TransportDead").mode = "Closed"
          /\ Close(Generated(w, k, p), "TransportDead").frees = Generated(w, k, p).frees
      BY <2>1, CloseType, CloseFrees DEF Outcomes
    <3>2. FreesRec(Close(Generated(w, k, p), "TransportDead"))
      BY <2>2, <3>1, FreesRecEnded DEF FreedOnce, Waiting
    <3>. QED  BY <1>3, <2>3, <3>2 DEF SetWsi
  <2>4. CASE s # "Fail"
    <3>1. /\ AwaitReply(Generated(w, k, p), s).mode = "WaitingServerReply"
          /\ AwaitReply(Generated(w, k, p), s).frees = Generated(w, k, p).frees
      BY <2>1 DEF AwaitReply, WsiType
    <3>2. FreesRec(AwaitReply(Generated(w, k, p), s))
      BY <2>2, <3>1 DEF FreesRec, FreedOnce
    <3>. QED  BY <1>3, <2>4, <3>2 DEF SetWsi
  <2>. QED  BY <2>3, <2>4
<1>. QED  BY <1>2, <1>3 DEF SendHandshake

(* Lines 91-236: the TLS connect and its retries free nothing; the       *)
(* certificate check closes or lets SendHandshake run.                    *)
LEMMA IssueFrees ==
    ASSUME NEW c \in Conns, NEW w \in WsiType, NEW buf,
           w.mode \in {"WaitingProxyReply", "IssueHandshake"}, FreesRec(w),
           IssueHandshake(c, w, buf)
    PROVE  \E x : wsi' = [wsi EXCEPT ![c] = x] /\ FreesRec(x)
<1> DEFINE w1 == [w EXCEPT !.pollout = FALSE, !.ssl = @ \/ conf[c].ssl # 0]
<1>1. w1 \in WsiType /\ w1.frees = w.frees /\ w1.mode = w.mode
  <2>1. [w EXCEPT !.pollout = FALSE] \in WsiType
    BY Zenon, SetPollout
  <2>2. [[w EXCEPT !.pollout = FALSE] EXCEPT !.ssl = w.ssl \/ conf[c].ssl # 0] \in WsiType
    BY Zenon, <2>1, SetSsl
  <2>. QED  BY <2>2
<1>2. /\ FreedOnce(w) /\ w.frees["hdrs"] = 0
      /\ \A b \in ConnStrings : w.frees[b] = 0
  BY DEF FreesRec, Waiting
<1>3. ASSUME NEW v \in WsiType, v.frees = w.frees, SendHandshake(c, v, buf)
      PROVE  \E x : wsi' = [wsi EXCEPT ![c] = x] /\ FreesRec(x)
  <2>1. /\ FreedOnce(v) /\ v.frees["hdrs"] = 0
        /\ \A b \in ConnStrings : v.frees[b] = 0
    BY <1>2, <1>3 DEF FreedOnce
  <2>. QED  BY <1>3, <2>1, SendFrees
<1>4. ASSUME NEW v, v.frees = w.frees, v.mode = w.mode, SetWsi(c, v)
      PROVE  \E x : wsi' = [wsi EXCEPT ![c] = x] /\ FreesRec(x)
  BY <1>4, FreesRecKept DEF SetWsi
<1>5. CASE conf[c].ssl = 0
  BY <1>1, <1>3, <1>5 DEF IssueHandshake
<1>6. CASE conf[c].ssl # 0 /\ SetWsi(c, [w1 EXCEPT !.tries = @ + 1, !.pollout = TRUE])
  <2>1. /\ [w1 EXCEPT !.tries = @ + 1, !.pollout = TRUE].frees = w.frees
        /\ [w1 EXCEPT !.tries = @ + 1, !.pollout = TRUE].mode = w.mode
    BY <1>1
  <2>. QED  BY <1>4, <1>6, <2>1
<1>7. CASE conf[c].ssl # 0 /\ SetWsi(c, w1)
  BY <1>1, <1>4, <1>7
<1>8. ASSUME NEW v \in CertResults, conf[c].ssl # 0,
             IF CertRejected(v, conf[c].ssl)
             THEN SetWsi(c, Close([w1 EXCEPT !.cert = v], "TlsFailed")) /\ svcbuf' = buf
             ELSE SendHandshake(c, [w1 EXCEPT !.cert = v], buf)
      PROVE  \E x : wsi' = [wsi EXCEPT ![c] = x] /\ FreesRec(x)
  <2>1. [w1 EXCEPT !.cert = v] \in WsiType /\ [w1 EXCEPT !.cert = v].frees = w.frees
    <3>1. [w1 EXCEPT !.cert = v] \in WsiType
      BY Zenon, <1>1, SetCert
    <3>. QED  BY <1>1, <3>1
  <2>2. CASE CertRejected(v, conf[c].ssl)
    <3>1. /\ Close([w1 EXCEPT !.cert = v], "TlsFailed").mode = "Closed"
          /\ Close([w1 EXCEPT !.cert = v], "TlsFailed").frees = w.frees
      BY <2>1, CloseType, CloseFrees DEF Outcomes
    <3>2. FreesRec(Close([w1 EXCEPT !.cert = v], "TlsFailed"))
      BY <1>2, <3>1, FreesRecEnded DEF FreedOnce, Waiting
    <3>. QED  BY <1>8, <2>2, <3>2 DEF SetWsi
  <2>3. CASE ~CertRejected(v, conf[c].ssl)
    BY <1>3, <1>8, <2>1, <2>3
  <2>. QED  BY <2>2, <2>3
<1>. QED  BY <1>5, <1>6, <1>7, <1>8 DEF IssueHandshake

(* Lines 54-89: the CONNECT reply is read and the request issued, or the *)
(* connection is closed; nothing is freed before IssueHandshake.          *)
LEMMA ProxyFrees ==
    ASSUME TypeOK, NEW c \in Conns, NEW ev, FreesRec(wsi[c]),
           ServiceProxyReply(c, ev)
    PROVE  \E x : wsi' = [wsi EXCEPT ![c] = x] /\ FreesRec(x)
<1> DEFINE w == wsi[c]
           got == srv[c].prx \in ProxyReplies /\ ~srv[c].prx_read
           ok == IF got THEN \/ srv[c].prx = "Full200"
                             \/ /\ srv[c].prx \in {"Short200", "ShortOther"}
                                /\ svcbuf = "Http200"
                 ELSE svcbuf = "Http200"
           buf == IF ok THEN "Http200" ELSE "Other"
           v1 == [w EXCEPT !.timeout = "None"]
           v2 == [v1 EXCEPT !.proxy_ok = TRUE]
<1>1. w \in WsiType /\ w.mode = "WaitingProxyReply" /\ FreedOnce(w)
  BY DEF TypeOK, ServiceProxyReply, FreesRec
<1>2. /\ FreesRec(Close(w, "TransportDead"))
      /\ FreesRec(Close(w, "ProxyRejected"))
  <2>1. /\ Close(w, "TransportDead").mode = "Closed"
        /\ Close(w, "TransportDead").frees = w.frees
        /\ Close(w, "ProxyRejected").mode = "Closed"
        /\ Close(w, "ProxyRejected").frees = w.frees
    BY <1>1, CloseType, CloseFrees DEF Outcomes
  <2>. QED  BY <1>1, <2>1, FreesRecEnded DEF FreedOnce, Waiting
<1>3. CASE "POLLHUP" \in ev \/ (~got /\ ~srv[c].eof)
  BY <1>2, <1>3 DEF ServiceProxyReply, SetWsi
<1>4. CASE ~("POLLHUP" \in ev \/ (~got /\ ~srv[c].eof)) /\ ok
  <2>1. v2 \in WsiType
    <3>1. v1 \in WsiType
      BY <1>1, Zenon, SetTimeout DEF Timeouts
    <3>. QED  BY <3>1, Zenon, SetProxyOk
  <2>2. v2.mode = "WaitingProxyReply" /\ v2.frees = w.frees
    BY <1>1
  <2>3. FreesRec(v2)
    BY <1>1, <2>2, FreesRecKept
  <2>4. IssueHandshake(c, v2, buf)
    BY <1>4 DEF ServiceProxyReply
  <2>5. v2.mode \in {"WaitingProxyReply", "IssueHandshake"}
    BY <2>2
  <2> HIDE DEF v2, buf
  <2>. QED  BY <2>1, <2>3, <2>4, <2>5, IssueFrees
<1>5. CASE ~("POLLHUP" \in ev \/ (~got /\ ~srv[c].eof)) /\ ~ok
  BY <1>2, <1>5 DEF ServiceProxyReply, SetWsi
<1>. QED  BY <1>3, <1>4, <1>5

(* A step that replaces the record of one connection c keeps FreeInv if  *)
(* the new record satisfies FreesRec.                                      *)
LEMMA FreesFrame ==
    ASSUME TypeOK, FreeInv, NEW c \in Conns, NEW x,
           wsi' = [wsi EXCEPT ![c] = x], FreesRec(x)
    PROVE  FreeInv'
BY DEF FreeInv, TypeOK

(* connect_via_info: a fresh connection has freed nothing. *)
LEMMA InitFrees == Init => FreeInv
<1> SUFFICES ASSUME Init PROVE FreeInv
  OBVIOUS
<1>1. \A c \in Conns : InitWsi(conf[c]).frees = [b \in Buffers |-> 0]
  BY DEF InitWsi
<1>. QED  BY <1>1 DEF Init, FreeInv, FreesRec, FreedOnce, TokenBufs, ConnStrings, Buffers

(* libwebsocket_service_timeout_check: closing frees nothing. *)
LEMMA TimeoutFrees ==
    ASSUME TypeOK, FreeInv, NEW c \in Conns, Timeout(c)
    PROVE  FreeInv'
<1>1. wsi[c] \in WsiType /\ FreedOnce(wsi[c])
  BY DEF TypeOK, FreeInv, FreesRec
<1>2. /\ Close(wsi[c], "Timeout").mode = "Closed"
      /\ Close(wsi[c], "Timeout").frees = wsi[c].frees
  BY <1>1, CloseType, CloseFrees DEF Outcomes
<1>3. FreesRec(Close(wsi[c], "Timeout"))
  BY <1>1, <1>2, FreesRecEnded DEF FreedOnce, Waiting
<1>. QED  BY <1>3, FreesFrame DEF Timeout, SetWsi

(* Every step keeps FreeInv. *)
LEMMA NextFrees == Inv /\ FreeInv /\ [Next]_vars => FreeInv'
<1> SUFFICES ASSUME Inv, FreeInv, [Next]_vars PROVE FreeInv'
  OBVIOUS
<1>0. TypeOK
  BY DEF Inv
<1>1. CASE UNCHANGED vars
  BY <1>1 DEF vars, FreeInv
<1>2. ASSUME NEW c \in Conns, NEW ev, ServiceProxyReply(c, ev) PROVE FreeInv'
  <2>1. FreesRec(wsi[c])
    BY DEF FreeInv
  <2>. QED  BY <1>0, <1>2, <2>1, ProxyFrees, FreesFrame
<1>3. ASSUME NEW c \in Conns, ServiceIssueHandshake(c) PROVE FreeInv'
  <2>1. /\ wsi[c] \in WsiType /\ wsi[c].mode = "IssueHandshake"
        /\ FreesRec(wsi[c]) /\ IssueHandshake(c, wsi[c], svcbuf)
    BY <1>0, <1>3 DEF TypeOK, FreeInv, ServiceIssueHandshake
  <2>. QED  BY <1>0, <2>1, IssueFrees, FreesFrame
<1>4. ASSUME NEW c \in Conns, NEW ev, ServiceServerReply(c, ev) PROVE FreeInv'
  <2>1. wsi[c].mode = "WaitingServerReply"
    BY <1>4 DEF ServiceServerReply
  <2>2. /\ wsi[c].consumed <= srv[c].sent /\ wsi[c].consumed <= RespLen
        /\ FreesRec(wsi[c])
    BY <2>1 DEF Inv, ConsumedInv, NoOverRead, Waiting, FreeInv
  <2>. QED  BY <1>0, <1>4, <2>2, ServerReplyFrees, FreesFrame
<1>5. ASSUME NEW c \in Conns, Timeout(c) PROVE FreeInv'
  BY <1>0, <1>5, TimeoutFrees
<1>6. ASSUME NEW c \in Conns,
             ProxyRespond(c) \/ ServerRespond(c) \/ ServerSend(c) \/ PeerClose(c)
      PROVE  FreeInv'
  <2>1. wsi' = wsi
    BY <1>6 DEF ProxyRespond, ServerRespond, ServerSend, PeerClose
  <2>. QED  BY <2>1 DEF FreeInv
<1>. QED  BY <1>1, <1>2, <1>3, <1>4, <1>5, <1>6 DEF Next, ClientSocketService

(* Lines 612-614 and 682-684 with the memset of 622, and the generator's *)
(* frees of 724-727 and 852-861: no heap buffer of the connection other   *)
(* than c_protocol is freed twice, for any number of connections, any     *)
(* reply and any allocation failure.                                       *)
THEOREM HeaderTokensFreedOnceThm == Spec => []HeaderTokensFreedOnce
<1>1. Init => Inv /\ FreeInv
  BY InitInv, InitFrees
<1>2. Inv /\ FreeInv /\ [Next]_vars => Inv' /\ FreeInv'
  BY NextInv, NextFrees
<1>3. FreeInv => HeaderTokensFreedOnce
  BY DEF FreeInv, FreesRec, FreedOnce, TokenBufs, HeaderTokensFreedOnce
<1>. QED  BY <1>1, <1>2, <1>3, PTL DEF Spec

=============================================================================
