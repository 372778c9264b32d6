------------------------- MODULE MC_ClientHandshake -------------------------
(* Small instances of ClientHandshake for TLC.                            *)
EXTENDS ClientHandshake

MCProtoNames == {"chat", "superchat"}
MCRegistry == <<"chat", "superchat">>
MCSessionSize == <<0, 16>>
MCExtNames == {"deflate", "mux", "bogus"}
MCExtRegistry == <<"deflate", "mux">>

(* c_protocol: none, one name, two names in the ", " style of the       *)
(* library's test client.                                                *)
MCOffers == {NULL, <<"chat">>, <<"chat", ",", " ", "superchat">>}
MCOneOffer == {<<"chat">>}

(* Extensions values: none, one known name after a leading separator,   *)
(* two known names in reverse registry order, one unknown name.          *)
MCServerExts == {<<>>, <<" ", "mux">>, <<"mux", ",", " ", "deflate">>, <<"bogus">>}
MCFewServerExts == {<<>>, <<"mux", ",", " ", "deflate">>}
MCNoServerExts == {<<>>}
MCStatuses == {"101", "200"}
MCUpgrades == {"WebSocket", "h2c"}
MCConnections == {"Upgrade", "keep-alive"}
MCKeys == {"k1"}
MCAccepts == {"a1", "a2"}
MCAcceptOf == [k \in MCKeys |-> "a1"]
MCAllFaults == {"Random", "ExtAlloc", "UserAlloc", "RxAlloc", "ShortWrite"}

=============================================================================
