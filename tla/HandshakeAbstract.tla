------------------------- MODULE HandshakeAbstract -------------------------
(***************************************************************************)
(* What the client handshake of lib/client.c promises, with the wire,    *)
(* the proxy, TLS and the parser left out.  A connection offers one key, *)
(* may get one reply to it, and opens only if that reply verifies the    *)
(* key; otherwise it is abandoned, by a close or by a crash.  Once open,  *)
(* the handshake layer never closes it again.                             *)
(***************************************************************************)
CONSTANTS
    Conns,          \* the client connections
    Keys,           \* the nonces a client may offer
    Replies,        \* the replies a server may give
    NoKey,          \* no key offered yet
    NoReply,        \* no reply received yet
    Verifies(_, _)  \* Verifies(k, r): reply r accepts key k

VARIABLES phase, key, reply
avars == <<phase, key, reply>>

Phases == {"Connecting", "Open", "Closed", "Failed"}

TypeOK ==
    /\ phase \in [Conns -> Phases]
    /\ key \in [Conns -> Keys \cup {NoKey}]
    /\ reply \in [Conns -> Replies \cup {NoReply}]

Init ==
    /\ phase = [c \in Conns |-> "Connecting"]
    /\ key = [c \in Conns |-> NoKey]
    /\ reply = [c \in Conns |-> NoReply]

(* The client sends its request, carrying a fresh key, once. *)
SendKey(c) ==
    /\ phase[c] = "Connecting" /\ key[c] = NoKey
    /\ \E k \in Keys : key' = [key EXCEPT ![c] = k]
    /\ UNCHANGED <<phase, reply>>

(* The server answers a request that was sent, once. *)
Answer(c) ==
    /\ phase[c] = "Connecting" /\ key[c] # NoKey /\ reply[c] = NoReply
    /\ \E r \in Replies : reply' = [reply EXCEPT ![c] = r]
    /\ UNCHANGED <<phase, key>>

(* The connection opens on a reply that verifies the key it sent. *)
Open(c) ==
    /\ phase[c] = "Connecting"
    /\ key[c] # NoKey /\ reply[c] # NoReply
    /\ Verifies(key[c], reply[c])
    /\ phase' = [phase EXCEPT ![c] = "Open"]
    /\ UNCHANGED <<key, reply>>

(* A connection that has not opened is given up, cleanly or not. *)
Abandon(c) ==
    /\ phase[c] = "Connecting"
    /\ \E p \in {"Closed", "Failed"} : phase' = [phase EXCEPT ![c] = p]
    /\ UNCHANGED <<key, reply>>

Next == \E c \in Conns : SendKey(c) \/ Answer(c) \/ Open(c) \/ Abandon(c)

Spec == Init /\ [][Next]_avars
=============================================================================
