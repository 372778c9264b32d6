---------------------- MODULE ClientHandshake_protocol ----------------------
(***************************************************************************)
(* The sub-protocol and extension binding of lines 423-533, proved for    *)
(* every value of the constants.  BindingChecked is the inductive          *)
(* invariant: an established connection carries the registry entry of the *)
(* name the scan of c_protocol (438-450) found in the server's reply, and  *)
(* an active list whose names are the non-separator characters of the      *)
(* server's extensions value, in order.  It is kept by each handler (one   *)
(* lemma each).  Two facts about the recursive functions of the model are  *)
(* proved by hand from the well-founded order of Nat (WFMin), as the       *)
(* library's induction rules take an operator parameter: that the scan     *)
(* finds only names of the list (ScanSound), and that the names the        *)
(* extension loop (500-533) instantiates are NameSeq of the value          *)
(* (ExtListed).  ProtocolBoundThm and ExtensionsAsListedThm follow.        *)
(***************************************************************************)
EXTENDS ClientHandshake_proofs, WellFoundedInduction, TLAPS

(* The binding a reply r and a configuration cf allow: index 1 with no   *)
(* protocol header, else the first registry entry named r.proto, for a    *)
(* name the scan of cf.offer matched.                                      *)
ProtoOK(cf, r, p) ==
    IF r.proto = "" THEN p = 1
    ELSE /\ cf.offer # NULL
         /\ ProtocolOffered(cf.offer, r.proto)
         /\ p \in DOMAIN Registry
         /\ Registry[p] = r.proto

(* The extensions a list a of active_extensions[] indices stands for are *)
(* the names of the extensions value e, in order.                         *)
ExtOK(e, a) == [i \in DOMAIN a |-> ExtRegistry[a[i]]] = NameSeq(e)

(* The binding of an established record w: its protocol and its active  *)
(* extensions.                                                            *)
BindOK(cf, r, w) == ProtoOK(cf, r, w.protocol) /\ ExtOK(r.exts, w.active)

(* Lines 423-574: a connection reaches WS_CLIENT bound to protocols[0]   *)
(* when the server named no protocol, and otherwise only after the scan   *)
(* of the offered list matched the server's name and the lookup loop set  *)
(* wsi->protocol to the entry of that name; and with one active extension *)
(* for each name of the server's extensions header, in order.             *)
BindingChecked ==
    \A c \in Conns : wsi[c].mode = "WsClient" =>
        BindOK(conf[c], srv[c].resp, wsi[c])

-----------------------------------------------------------------------------
(* The scan of c_protocol (lines 438-450) is the recursive function Scan  *)
(* of ProtocolOffered.  Its value is a CHOOSE of a function that solves   *)
(* Scan's equation, so the proof first builds a solution, from the end    *)
(* of the string back to the front, and then argues about the chosen one *)
(* by a greatest counterexample.  Both arguments use the well-foundedness *)
(* of < on Nat (WFMin) and need no induction rule with an operator        *)
(* parameter.                                                              *)

(* Every non-empty set of naturals has a least element. *)
LEMMA NatMin ==
    ASSUME NEW T \in SUBSET Nat, T # {}
    PROVE  \E x \in T : \A y \in T : x <= y
<1>1. PICK x \in T : \A y \in T : ~(<<y, x>> \in OpToRel(<, Nat))
  BY NatLessThanWellFounded, WFMin
<1>2. ASSUME NEW y \in T PROVE x <= y
  <2>1. ~(<<y, x>> \in OpToRel(<, Nat))  BY <1>1
  <2>2. ~(y < x)  BY <2>1 DEF OpToRel
  <2>. QED  BY <2>2
<1>. QED  BY <1>2

(* Every non-empty set of integers of an interval has a greatest element. *)
LEMMA IntervalMax ==
    ASSUME NEW lo \in Int, NEW hi \in Int, NEW T \in SUBSET (lo..hi), T # {}
    PROVE  \E x \in T : \A y \in T : y <= x
<1> DEFINE U == {hi - z : z \in T}
<1>1. U \in SUBSET Nat /\ U # {}  OBVIOUS
<1>2. PICK u \in U : \A v \in U : u <= v  BY <1>1, NatMin
<1>3. PICK x \in T : u = hi - x  OBVIOUS
<1>4. ASSUME NEW y \in T PROVE y <= x
  <2>1. hi - y \in U  OBVIOUS
  <2>2. u <= hi - y  BY <2>1, <1>2
  <2>. QED  BY <2>2, <1>3
<1>. QED  BY <1>4

(* FirstFrom(s, i, ch), the strchr of lines 443 and 446, stops at i or   *)
(* later, at the end or on a ch.                                          *)
LEMMA FirstFromRange ==
    ASSUME NEW X, NEW s \in Seq(X), NEW i \in 1..(Len(s) + 1), NEW ch
    PROVE  /\ FirstFrom(s, i, ch) \in i..(Len(s) + 1)
           /\ FirstFrom(s, i, ch) <= Len(s) => s[FirstFrom(s, i, ch)] = ch
<1>1. CASE \E j \in i..Len(s) : s[j] = ch
  <2>1. \E j \in i..Len(s) : s[j] = ch /\ \A m \in i..(j - 1) : s[m] # ch
    <3>1. PICK j0 \in i..Len(s) : s[j0] = ch  BY <1>1
    <3> DEFINE Hits == {j \in i..Len(s) : s[j] = ch}
    <3>2. Hits \in SUBSET Nat /\ Hits # {}  BY <3>1
    <3>3. PICK j \in Hits : \A k \in Hits : j <= k  BY <3>2, NatMin
    <3>. QED  BY <3>3
  <2>. QED  BY <1>1, <2>1 DEF FirstFrom
<1>2. CASE ~\E j \in i..Len(s) : s[j] = ch
  BY <1>2 DEF FirstFrom
<1>. QED  BY <1>1, <1>2

(* Where the scan goes on from i when s[i] is not the token: past the    *)
(* next ',' and then to the next ' '.                                     *)
ScanNext(s, i) == FirstFrom(s, FirstFrom(s, i, Comma), Space)

(* The right-hand side of Scan's equation, for a function f. *)
ScanBody(s, t, f, i) ==
    IF i > Len(s) THEN FALSE
    ELSE IF s[i] = t /\ (i = Len(s) \/ s[i + 1] = Comma) THEN TRUE
    ELSE f[ScanNext(s, i)]

(* The function ProtocolOffered's LET chooses. *)
ScanFn(s, t) == CHOOSE f : f = [i \in 1..(Len(s) + 1) |-> ScanBody(s, t, f, i)]

LEMMA ScanUnfold ==
    ASSUME NEW s, NEW t
    PROVE  ProtocolOffered(s, t) = ScanFn(s, t)[1]
BY DEF ProtocolOffered, ScanFn, ScanBody, ScanNext

(* Lines 443-447: pc moves strictly forward, and never past the NUL. *)
LEMMA ScanNextAfter ==
    ASSUME NEW X, NEW s \in Seq(X), NEW i \in 1..Len(s)
    PROVE  ScanNext(s, i) \in (i + 1)..(Len(s) + 1)
<1> DEFINE k == FirstFrom(s, i, Comma)
<1>1. k \in i..(Len(s) + 1) /\ (k <= Len(s) => s[k] = Comma)
  BY FirstFromRange
<1>2. /\ FirstFrom(s, k, Space) \in k..(Len(s) + 1)
      /\ FirstFrom(s, k, Space) <= Len(s) => s[FirstFrom(s, k, Space)] = Space
  BY <1>1, FirstFromRange
<1>3. ScanNext(s, i) = FirstFrom(s, k, Space)  BY DEF ScanNext
<1>4. CASE k > i  BY <1>1, <1>2, <1>3, <1>4
<1>5. CASE k = i
  <2>1. s[i] = Comma  BY <1>1, <1>5
  <2>2. FirstFrom(s, k, Space) # i
    <3> SUFFICES ASSUME FirstFrom(s, k, Space) = i PROVE FALSE  OBVIOUS
    <3>1. s[i] = Space  BY <1>2, <1>5
    <3>. QED  BY <2>1, <3>1 DEF Comma, Space
  <2>. QED  BY <1>1, <1>2, <1>3, <1>5, <2>2
<1>. QED  BY <1>1, <1>4, <1>5

(* Two functions that agree past i give the same right-hand side at i. *)
LEMMA ScanBodyLocal ==
    ASSUME NEW X, NEW s \in Seq(X), NEW t, NEW f, NEW g,
           NEW i \in 1..(Len(s) + 1),
           \A j \in (i + 1)..(Len(s) + 1) : f[j] = g[j]
    PROVE  ScanBody(s, t, f, i) = ScanBody(s, t, g, i)
<1>1. CASE i > Len(s)  BY <1>1 DEF ScanBody
<1>2. CASE i <= Len(s)
  <2>1. ScanNext(s, i) \in (i + 1)..(Len(s) + 1)  BY <1>2, ScanNextAfter
  <2>. QED  BY <2>1 DEF ScanBody
<1>. QED  BY <1>1, <1>2

(* Scan's equation has a solution: one is built from the end of s back  *)
(* to position 1, each value from values further on.                      *)
LEMMA ScanExists ==
    ASSUME NEW X, NEW s \in Seq(X), NEW t
    PROVE  \E f : f = [i \in 1..(Len(s) + 1) |-> ScanBody(s, t, f, i)]
<1> DEFINE n == Len(s)
           Q(lo) == \E g \in [lo..(n + 1) -> BOOLEAN] :
                       \A i \in lo..(n + 1) : g[i] = ScanBody(s, t, g, i)
<1>1. Q(1)
  <2> DEFINE Bad == {lo \in 1..(n + 1) : ~Q(lo)}
  <2> SUFFICES ASSUME Bad # {} PROVE FALSE  OBVIOUS
  <2>0. Bad \in SUBSET (1..(n + 1)) /\ n + 1 \in Int /\ 1 \in Int  OBVIOUS
  <2>1. PICK b \in Bad : \A y \in Bad : y <= b
    <3> HIDE DEF Bad
    <3>. QED  BY <2>0, IntervalMax, Zenon
  <2>2. CASE b = n + 1
    <3> DEFINE g == [i \in (n + 1)..(n + 1) |-> FALSE]
    <3>1. ScanBody(s, t, g, n + 1) = FALSE  BY DEF ScanBody
    <3>2. /\ g \in [(n + 1)..(n + 1) -> BOOLEAN]
          /\ \A i \in (n + 1)..(n + 1) : g[i] = ScanBody(s, t, g, i)
      <4>1. g \in [(n + 1)..(n + 1) -> BOOLEAN]  OBVIOUS
      <4>2. \A i \in (n + 1)..(n + 1) : i = n + 1  OBVIOUS
      <4>. QED  BY <4>1, <4>2, <3>1
    <3>3. Q(n + 1)  BY <3>2
    <3>. QED  BY <2>1, <2>2, <3>3
  <2>3. CASE b <= n
    <3>1. Q(b + 1)
      <4>1. b \in 1..(n + 1) /\ b + 1 \in 1..(n + 1) /\ ~(b + 1 <= b)
        BY <2>1, <2>3
      <4>2. b + 1 \notin Bad
        <5> HIDE DEF Bad
        <5>. QED  BY <2>1, <4>1
      <4> HIDE DEF Q
      <4>. QED  BY <4>1, <4>2
    <3>2. PICK g \in [(b + 1)..(n + 1) -> BOOLEAN] :
              \A i \in (b + 1)..(n + 1) : g[i] = ScanBody(s, t, g, i)
      BY <3>1
    <3> DEFINE g2 == [i \in b..(n + 1) |-> IF i = b THEN ScanBody(s, t, g, b) ELSE g[i]]
    <3>3. \A i \in b..(n + 1) : ScanBody(s, t, g2, i) = ScanBody(s, t, g, i)
      <4> TAKE i \in b..(n + 1)
      <4>1. \A j \in (i + 1)..(n + 1) : g2[j] = g[j]  BY <2>1
      <4>. QED  BY <4>1, <2>1, ScanBodyLocal
    <3>4. ScanBody(s, t, g, b) \in BOOLEAN
      <4>1. ScanNext(s, b) \in (b + 1)..(n + 1)  BY <2>1, <2>3, ScanNextAfter
      <4>. QED  BY <4>1, <3>2 DEF ScanBody
    <3>5. g2 \in [b..(n + 1) -> BOOLEAN]  BY <3>2, <3>4
    <3>6. \A i \in b..(n + 1) : g2[i] = ScanBody(s, t, g2, i)  BY <3>2, <3>3
    <3>7. Q(b)  BY <3>5, <3>6
    <3>. QED  BY <2>1, <3>7
  <2>. QED  BY <2>1, <2>2, <2>3
<1>2. PICK g \in [1..(n + 1) -> BOOLEAN] :
          \A i \in 1..(n + 1) : g[i] = ScanBody(s, t, g, i)
  BY <1>1
<1>. QED  BY <1>2

(* Lines 438-450 match only a token of the list: if the scan returns     *)
(* true, t is one of the entries of s.  The greatest start position from *)
(* which the scan would wrongly succeed cannot exist: at the end the scan *)
(* fails, and elsewhere it either matched there or goes on from further   *)
(* along.                                                                  *)
LEMMA ScanSound ==
    ASSUME NEW X, NEW s \in Seq(X), NEW t, ProtocolOffered(s, t)
    PROVE  \E j \in 1..Len(s) : s[j] = t
<1> DEFINE n == Len(s)
           F == ScanFn(s, t)
<1>1. F = [i \in 1..(n + 1) |-> ScanBody(s, t, F, i)]
  BY ScanExists DEF ScanFn
<1>2. \A i \in 1..(n + 1) : F[i] => \E j \in i..n : s[j] = t
  <2> DEFINE Bad == {i \in 1..(n + 1) : F[i] /\ ~\E j \in i..n : s[j] = t}
  <2> SUFFICES ASSUME Bad # {} PROVE FALSE  OBVIOUS
  <2>0. Bad \in SUBSET (1..(n + 1)) /\ n + 1 \in Int /\ 1 \in Int  OBVIOUS
  <2>1. PICK b \in Bad : \A y \in Bad : y <= b
    <3> HIDE DEF Bad
    <3>. QED  BY <2>0, IntervalMax, Zenon
  <2>2. F[b] = ScanBody(s, t, F, b)  BY <1>1, <2>1
  <2>3. CASE b = n + 1
    <3>1. ScanBody(s, t, F, n + 1) = FALSE  BY DEF ScanBody
    <3>. QED  BY <2>1, <2>2, <2>3, <3>1
  <2>4. CASE b <= n
    <3>1. ScanNext(s, b) \in (b + 1)..(n + 1)  BY <2>1, <2>4, ScanNextAfter
    <3>2. CASE s[b] = t  BY <2>1, <2>4, <3>2
    <3>3. CASE s[b] # t
      <4>1. F[b] = F[ScanNext(s, b)]  BY <2>1, <2>2, <2>4, <3>3 DEF ScanBody
      <4>2. ScanNext(s, b) \notin Bad  BY <2>1, <3>1
      <4>. QED  BY <2>1, <3>1, <4>1, <4>2
    <3>. QED  BY <3>2, <3>3
  <2>. QED  BY <2>1, <2>3, <2>4
<1>3. F[1]  BY ScanUnfold
<1>. QED  BY <1>2, <1>3

(* NameSeq, the character loop of lines 500-516, is a recursive function *)
(* too; the same two arguments, run from the front of the value, show    *)
(* that it is a sequence of characters of the value.                      *)

(* The right-hand side of Kept's equation, for a function f. *)
NameBody(s, f, i) ==
    IF i = 0 THEN <<>>
    ELSE IF s[i] \in ExtSeps THEN f[i - 1]
    ELSE Append(f[i - 1], s[i])

(* The function NameSeq's LET chooses. *)
NameFn(s) == CHOOSE f : f = [i \in 0..Len(s) |-> NameBody(s, f, i)]

LEMMA NameUnfold ==
    ASSUME NEW s
    PROVE  NameSeq(s) = NameFn(s)[Len(s)]
BY DEF NameSeq, NameFn, NameBody

(* Kept's equation has a solution, built from position 0 up. *)
LEMMA NameExists ==
    ASSUME NEW X, NEW s \in Seq(X)
    PROVE  \E f : f = [i \in 0..Len(s) |-> NameBody(s, f, i)]
<1> DEFINE n == Len(s)
           Q(hi) == \E g \in [0..hi -> Seq(X)] :
                       \A i \in 0..hi : g[i] = NameBody(s, g, i)
<1>1. Q(n)
  <2> DEFINE Bad == {hi \in 0..n : ~Q(hi)}
  <2> HIDE DEF Q
  <2>a. n \in Nat  OBVIOUS
  <2> SUFFICES ASSUME Bad # {} PROVE FALSE  BY <2>a
  <2>0. Bad \in SUBSET Nat  OBVIOUS
  <2>1. PICK b \in Bad : \A y \in Bad : b <= y
    <3> HIDE DEF Bad
    <3>. QED  BY <2>0, NatMin, Zenon
  <2> USE DEF Q
  <2>2. CASE b = 0
    <3> DEFINE g == [i \in 0..0 |-> <<>>]
    <3>1. NameBody(s, g, 0) = <<>>  BY DEF NameBody
    <3>2. /\ g \in [0..0 -> Seq(X)]
          /\ \A i \in 0..0 : g[i] = NameBody(s, g, i)
      <4>1. g \in [0..0 -> Seq(X)]  OBVIOUS
      <4>2. \A i \in 0..0 : i = 0  OBVIOUS
      <4>. QED  BY <4>1, <4>2, <3>1
    <3>3. Q(0)  BY <3>2
    <3>. QED  BY <2>1, <2>2, <3>3
  <2>3. CASE b > 0
    <3>1. Q(b - 1)
      <4> HIDE DEF Q
      <4>1. b - 1 \in 0..n /\ b - 1 \notin Bad  BY <2>1, <2>3
      <4>. QED  BY <4>1
    <3>2. PICK g \in [0..(b - 1) -> Seq(X)] :
              \A i \in 0..(b - 1) : g[i] = NameBody(s, g, i)
      BY <3>1
    <3> DEFINE g2 == [i \in 0..b |-> IF i = b THEN NameBody(s, g, b) ELSE g[i]]
    <3>3. \A i \in 0..b : NameBody(s, g2, i) = NameBody(s, g, i)
      BY <2>1, <2>3 DEF NameBody
    <3>4. NameBody(s, g, b) \in Seq(X)
      BY <2>1, <2>3, <3>2 DEF NameBody
    <3>5. g2 \in [0..b -> Seq(X)]  BY <3>2, <3>4
    <3>6. \A i \in 0..b : g2[i] = NameBody(s, g2, i)  BY <3>2, <3>3
    <3>7. Q(b)  BY <3>5, <3>6
    <3>. QED  BY <2>1, <3>7
  <2>. QED  BY <2>1, <2>2, <2>3
<1>2. PICK g \in [0..n -> Seq(X)] : \A i \in 0..n : g[i] = NameBody(s, g, i)
  BY <1>1
<1>. QED  BY <1>2

(* The names of a value of characters of X are a sequence over X: the   *)
(* least position where Kept would not be one cannot exist.               *)
LEMMA NameSeqType ==
    ASSUME NEW X, NEW s \in Seq(X)
    PROVE  NameSeq(s) \in Seq(X)
<1> DEFINE n == Len(s)
           F == NameFn(s)
<1>1. F = [i \in 0..n |-> NameBody(s, F, i)]
  BY NameExists DEF NameFn
<1>2. \A i \in 0..n : F[i] \in Seq(X)
  <2> DEFINE Bad == {i \in 0..n : F[i] \notin Seq(X)}
  <2> SUFFICES ASSUME Bad # {} PROVE FALSE  OBVIOUS
  <2>0. Bad \in SUBSET Nat  OBVIOUS
  <2>1. PICK b \in Bad : \A y \in Bad : b <= y
    <3> HIDE DEF Bad
    <3>. QED  BY <2>0, NatMin, Zenon
  <2>2. F[b] = NameBody(s, F, b)  BY <1>1, <2>1
  <2>3. CASE b = 0
    <3>1. NameBody(s, F, 0) = <<>>  BY DEF NameBody
    <3>2. F[b] = <<>>  BY <2>2, <2>3, <3>1
    <3>3. <<>> \in Seq(X)  OBVIOUS
    <3>. QED  BY <2>1, <3>2, <3>3
  <2>4. CASE b > 0
    <3>1. F[b - 1] \in Seq(X)  BY <2>1, <2>4
    <3>2. NameBody(s, F, b) \in Seq(X)  BY <2>1, <2>4, <3>1 DEF NameBody
    <3>. QED  BY <2>1, <2>2, <3>2
  <2>. QED  BY <2>1, <2>3, <2>4
<1>. QED  BY <1>2, NameUnfold

(* An empty value has no names. *)
LEMMA NameSeqEmpty == NameSeq(<<>>) = <<>>
<1>1. NameFn(<<>>) = [i \in 0..0 |-> NameBody(<<>>, NameFn(<<>>), i)]
  <2>1. <<>> \in Seq({})  OBVIOUS
  <2>. QED  BY <2>1, NameExists DEF NameFn
<1>2. NameBody(<<>>, NameFn(<<>>), 0) = <<>>  BY DEF NameBody
<1>. QED  BY <1>1, <1>2, NameUnfold

(* The names the extension loop looks up (T of CheckExtensions). *)
ServerTokens(e) == IF e = <<>> THEN <<>> ELSE ExtTokens(e)

(* Lines 497-574: when every name the loop looked up is registered, the *)
(* extensions it instantiated are the names of the header, in order.  A  *)
(* header of separators only gives the empty name, and one with more     *)
(* than one name gives a glued one; neither is registered.               *)
LEMMA ExtListed ==
    ASSUME NEW e \in ServerExts,
           KnownPrefix(ServerTokens(e), Len(ServerTokens(e)))
    PROVE  ExtOK(e, Instances(ServerTokens(e), Len(ServerTokens(e))))
<1> DEFINE T == ServerTokens(e)
           names == NameSeq(e)
<1>0. e \in Seq(ExtNames \cup ExtSeps) /\ ExtRegistry \in Seq(ExtNames)
  BY ConstAssumption
<1>1. ~KnownExt("") /\ ~KnownExt(Glued)
  <2>1. \A x : x \notin ExtNames => ~KnownExt(x)
    BY <1>0 DEF KnownExt
  <2>2. "" \notin ExtNames /\ Glued \notin ExtNames
    BY Zenon, ConstAssumption DEF Glued
  <2>. QED  BY <2>1, <2>2
<1>2. ASSUME NEW t, KnownExt(t)
      PROVE  ExtIndex(t) \in DOMAIN ExtRegistry /\ ExtRegistry[ExtIndex(t)] = t
  BY <1>2 DEF KnownExt, ExtIndex
<1>3. CASE e = <<>>
  <2>1. T = <<>>  BY <1>3 DEF ServerTokens
  <2>2. DOMAIN Instances(T, Len(T)) = {}  BY <2>1 DEF Instances
  <2>3. names = <<>>  BY <1>3, NameSeqEmpty
  <2>. QED  BY <2>2, <2>3 DEF ExtOK
<1>4. CASE e # <<>>
  <2>1. names \in Seq(ExtNames \cup ExtSeps)  BY <1>0, NameSeqType
  <2>2. T = IF names = <<>> THEN <<"">>
            ELSE IF Len(names) = 1 /\ e[Len(e)] \notin ExtSeps THEN names
            ELSE <<names[1], Glued>>
    BY <1>4 DEF ServerTokens, ExtTokens
  <2>a. \A u : T = <<u>> => KnownExt(u)
    BY DEF KnownPrefix
  <2>b. \A u, v : T = <<u, v>> => KnownExt(v)
    BY DEF KnownPrefix
  <2>3. CASE names = <<>>
    <3>1. T = <<"">>  BY Zenon, <2>2, <2>3
    <3>. QED  BY Zenon, <1>1, <2>a, <3>1
  <2>4. CASE names # <<>> /\ ~(Len(names) = 1 /\ e[Len(e)] \notin ExtSeps)
    <3>1. T = <<names[1], Glued>>  BY <2>2, <2>4
    <3>. QED  BY Zenon, <1>1, <2>b, <3>1
  <2>5. CASE names # <<>> /\ Len(names) = 1 /\ e[Len(e)] \notin ExtSeps
    <3>1. T = names  BY <2>2, <2>5
    <3>2. \A j \in 1..Len(names) : KnownExt(names[j])  BY <3>1 DEF KnownPrefix
    <3>3. \A j \in 1..Len(names) : ExtRegistry[ExtIndex(names[j])] = names[j]
      BY <1>2, <3>2
    <3>4. [i \in DOMAIN Instances(T, Len(T)) |-> ExtRegistry[Instances(T, Len(T))[i]]]
            = [i \in 1..Len(names) |-> names[i]]
      BY <3>1, <3>3 DEF Instances
    <3>. QED  BY <2>1, <3>4 DEF ExtOK
  <2>. QED  BY <2>3, <2>4, <2>5
<1>. QED  BY <1>3, <1>4

-----------------------------------------------------------------------------
(* The handlers, one lemma each.                                          *)

(* free() leaves the protocol binding and the active extensions alone. *)
LEMMA FreeBinding ==
    ASSUME NEW w \in WsiType, NEW b \in Buffers
    PROVE  Free(w, b).protocol = w.protocol /\ Free(w, b).active = w.active
BY DEF Free, WsiType

(* Lines 583-668: the commit keeps the binding it was given; the bail    *)
(* paths close.                                                           *)
LEMMA AcceptBind ==
    ASSUME NEW c \in Conns, NEW w \in WsiType, CheckAccept(c, w)
    PROVE  \E x : /\ wsi' = [wsi EXCEPT ![c] = x]
                  /\ x.mode = "WsClient" => x.protocol = w.protocol /\ x.active = w.active
<1>1. ASSUME NEW v \in WsiType, NEW why \in Outcomes
      PROVE  /\ InterpretBail2(v, why).mode = "Closed"
             /\ InterpretBail3(v, why).mode = "Closed"
  BY BailType
<1>2. CASE ~AcceptMatches(srv[c].resp, w.key)
  BY <1>1, <1>2 DEF CheckAccept, SetWsi, Outcomes
<1>3. ASSUME NEW veto \in BOOLEAN, NEW rxFail \in BOOLEAN,
             AcceptMatches(srv[c].resp, w.key),
             LET w1 == FreeHdrs([w EXCEPT !.vetoed = veto, !.timeout = "None"])
                 w2 == [w1 EXCEPT !.mode = "WsClient", !.ptr["hdrs"] = "Null"]
             IN  IF rxFail
                 THEN "RxAlloc" \in Faults /\ SetWsi(c, InterpretBail3(w2, "AllocFailed"))
                 ELSE SetWsi(c, [w2 EXCEPT !.outcome = "Established"])
      PROVE  \E x : /\ wsi' = [wsi EXCEPT ![c] = x]
                    /\ x.mode = "WsClient" => x.protocol = w.protocol /\ x.active = w.active
  <2> DEFINE v1 == [w EXCEPT !.vetoed = veto]
             v2 == [v1 EXCEPT !.timeout = "None"]
             w1 == FreeHdrs(v2)
             m1 == [w1 EXCEPT !.mode = "WsClient"]
             w2 == [m1 EXCEPT !.ptr = [w1.ptr EXCEPT !["hdrs"] = "Null"]]
  <2>1. v2 \in WsiType
    <3>1. v1 \in WsiType
      BY Zenon, SetVetoed
    <3>. QED  BY Zenon, <3>1, SetTimeout DEF Timeouts
  <2>2. w1 \in WsiType /\ w1.protocol = w.protocol /\ w1.active = w.active
    <3>1. Free(v2, "hdrs") \in WsiType
      BY <2>1, FreeType DEF Buffers
    <3>2. Free(v2, "hdrs").protocol = v2.protocol /\ Free(v2, "hdrs").active = v2.active
      BY <2>1, FreeBinding DEF Buffers
    <3>3. v2.protocol = w.protocol /\ v2.active = w.active
      OBVIOUS
    <3>. QED  BY <3>1, <3>2, <3>3 DEF FreeHdrs
  <2>3. w2 \in WsiType
    <3>1. m1 \in WsiType
      BY Zenon, <2>2, SetMode DEF Modes
    <3>2. [w1.ptr EXCEPT !["hdrs"] = "Null"] \in PtrMaps
      BY Zenon, <2>2, FieldTypes DEF PtrMaps, PtrStates, Buffers
    <3>. QED  BY Zenon, <3>1, <3>2, SetPtr
  <2>4. /\ [w2 EXCEPT !.outcome = "Established"].protocol = w.protocol
        /\ [w2 EXCEPT !.outcome = "Established"].active = w.active
    BY <2>2
  <2>5. /\ FreeHdrs([w EXCEPT !.vetoed = veto, !.timeout = "None"]) = w1
        /\ [w1 EXCEPT !.mode = "WsClient", !.ptr["hdrs"] = "Null"] = w2
    OBVIOUS
  <2>6. InterpretBail3(w2, "AllocFailed").mode = "Closed"
    BY <1>1, <2>3 DEF Outcomes
  <2>. QED  BY <1>3, <2>4, <2>5, <2>6 DEF SetWsi
<1>. QED  BY <1>1, <1>2, <1>3 DEF CheckAccept, SetWsi, Outcomes

(* Lines 487-574: the extension loop keeps the protocol binding it was  *)
(* given, and reaches the accept check only with every name it looked up *)
(* instantiated.                                                           *)
LEMMA ExtBind ==
    ASSUME NEW c \in Conns, NEW w \in WsiType, srv[c].resp \in Responses,
           CheckExtensions(c, w)
    PROVE  \E x : /\ wsi' = [wsi EXCEPT ![c] = x]
                  /\ x.mode = "WsClient" =>
                        x.protocol = w.protocol /\ ExtOK(srv[c].resp.exts, x.active)
<1> DEFINE e == srv[c].resp.exts
           T == ServerTokens(e)
           I(n) == Instances(T, n)
<1>1. PICK n \in 0..Len(T) :
          /\ KnownPrefix(T, n)
          /\ \/ \E j \in 1..n :
                 /\ "ExtAlloc" \in Faults
                 /\ SetWsi(c, InterpretBail2([w EXCEPT !.active = SubSeq(I(n), 1, j - 1)],
                                             "AllocFailed"))
             \/ /\ n < Len(T)
                /\ SetWsi(c, InterpretBail2([w EXCEPT !.active = I(n)], "UnknownExtension"))
             \/ /\ n = Len(T)
                /\ CheckAccept(c, [w EXCEPT !.active = I(n)])
  BY DEF CheckExtensions, ServerTokens
<1>2. /\ I(n) \in ActiveLists
      /\ \A j \in 1..n : SubSeq(I(n), 1, j - 1) \in ActiveLists
  BY <1>1, InstancesType
<1>3. ASSUME NEW v \in ActiveLists, NEW why \in Outcomes
      PROVE  InterpretBail2([w EXCEPT !.active = v], why).mode = "Closed"
  <2>1. [w EXCEPT !.active = v] \in WsiType
    BY Zenon, SetActive
  <2>. QED  BY <2>1, BailType
<1>4. CASE \E j \in 1..n :
             /\ "ExtAlloc" \in Faults
             /\ SetWsi(c, InterpretBail2([w EXCEPT !.active = SubSeq(I(n), 1, j - 1)],
                                         "AllocFailed"))
  <2>1. PICK j \in 1..n :
             SetWsi(c, InterpretBail2([w EXCEPT !.active = SubSeq(I(n), 1, j - 1)],
                                      "AllocFailed"))
    BY <1>4
  <2>2. InterpretBail2([w EXCEPT !.active = SubSeq(I(n), 1, j - 1)], "AllocFailed").mode
          = "Closed"
    BY <1>2, <1>3 DEF Outcomes
  <2>. QED  BY <2>1, <2>2 DEF SetWsi
<1>5. CASE SetWsi(c, InterpretBail2([w EXCEPT !.active = I(n)], "UnknownExtension"))
  BY <1>2, <1>3, <1>5 DEF SetWsi, Outcomes
<1>6. CASE n = Len(T) /\ CheckAccept(c, [w EXCEPT !.active = I(n)])
  <2>1. [w EXCEPT !.active = I(n)] \in WsiType
    BY <1>2, Zenon, SetActive
  <2>2. /\ [w EXCEPT !.active = I(n)].protocol = w.protocol
        /\ [w EXCEPT !.active = I(n)].active = I(n)
    OBVIOUS
  <2>3. PICK x : /\ wsi' = [wsi EXCEPT ![c] = x]
                 /\ x.mode = "WsClient" =>
                       /\ x.protocol = [w EXCEPT !.active = I(n)].protocol
                       /\ x.active = [w EXCEPT !.active = I(n)].active
    BY <1>6, <2>1, AcceptBind
  <2>4. e \in ServerExts
    BY DEF Responses
  <2>5. ExtOK(e, I(n))
    BY <1>1, <1>6, <2>4, ExtListed
  <2>. QED  BY <2>2, <2>3, <2>5
<1>. QED  BY <1>1, <1>4, <1>5, <1>6

(* Lines 384-574: the interpreter binds the connection to protocols[0]  *)
(* with no protocol header, and otherwise to the entry the lookup loop   *)
(* found for a name the scan matched, with the extensions the server     *)
(* listed; every other path closes or crashes.                            *)
LEMMA InterpretBind ==
    ASSUME NEW c \in Conns, NEW w \in WsiType, srv[c].resp \in Responses,
           InterpretServerHandshake(c, w)
    PROVE  \E x : /\ wsi' = [wsi EXCEPT ![c] = x]
                  /\ x.mode = "WsClient" => BindOK(conf[c], srv[c].resp, x)
<1> DEFINE r == srv[c].resp
           s == conf[c].offer
           w1 == Free(w, "c_protocol")
<1>0. Registry \in Seq(ProtoNames) /\ Len(Registry) >= 1
  BY Zenon, ConstAssumption
<1>1. w1 \in WsiType
  BY FreeType DEF Buffers
<1>2. ASSUME NEW v \in WsiType, NEW why \in Outcomes
      PROVE  /\ InterpretBail2(v, why).mode = "Closed"
             /\ InterpretBail3(v, why).mode = "Closed"
  BY BailType
<1>3. ASSUME NEW n \in ProtocolIndices, CheckExtensions(c, [w1 EXCEPT !.protocol = n])
      PROVE  \E x : /\ wsi' = [wsi EXCEPT ![c] = x]
                    /\ x.mode = "WsClient" => x.protocol = n /\ ExtOK(r.exts, x.active)
  <2>1. [w1 EXCEPT !.protocol = n] \in WsiType
    BY <1>1, Zenon, SetProtocol
  <2>2. [w1 EXCEPT !.protocol = n].protocol = n
    BY <1>1
  <2>3. \E x : /\ wsi' = [wsi EXCEPT ![c] = x]
               /\ x.mode = "WsClient" =>
                     /\ x.protocol = [w1 EXCEPT !.protocol = n].protocol
                     /\ ExtOK(r.exts, x.active)
    BY <1>3, <2>1, ExtBind
  <2>. QED  BY <2>2, <2>3
<1>4. CASE ~HeadersOK(r)
  BY <1>2, <1>4 DEF InterpretServerHandshake, HeadersOK, SetWsi, Outcomes
<1>5. CASE HeadersOK(r) /\ r.proto = ""
  <2>1. 1 \in ProtocolIndices
    BY <1>0 DEF ProtocolIndices
  <2>2. CheckExtensions(c, [w1 EXCEPT !.protocol = 1])
    BY <1>5 DEF InterpretServerHandshake, HeadersOK
  <2>. QED  BY <1>3, <1>5, <2>1, <2>2 DEF BindOK, ProtoOK
<1>6. CASE HeadersOK(r) /\ r.proto # "" /\ s = NULL
  <2>1. SetWsi(c, [w EXCEPT !.mode = "Crashed", !.outcome = "NullProtocolList"])
    BY <1>6 DEF InterpretServerHandshake, HeadersOK
  <2>2. [w EXCEPT !.mode = "Crashed", !.outcome = "NullProtocolList"].mode = "Crashed"
    BY DEF WsiType
  <2>. QED  BY <2>1, <2>2 DEF SetWsi
<1>7. CASE HeadersOK(r) /\ r.proto # "" /\ s # NULL
  <2>1. PICK n \in 0..Len(Registry) :
            /\ IsRegistryIndex(n, r.proto)
            /\ IF ~ProtocolOffered(s, r.proto) \/ n = 0
                 THEN SetWsi(c, InterpretBail2(w1, "UnknownProtocol"))
               ELSE CheckExtensions(c, [w1 EXCEPT !.protocol = n])
    BY <1>7 DEF InterpretServerHandshake, HeadersOK
  <2>2. CASE ~ProtocolOffered(s, r.proto) \/ n = 0
    BY <1>1, <1>2, <2>1, <2>2 DEF SetWsi, Outcomes
  <2>3. CASE ProtocolOffered(s, r.proto) /\ n # 0
    <3>1. n \in ProtocolIndices /\ n \in DOMAIN Registry /\ Registry[n] = r.proto
      BY <1>0, <2>1, <2>3 DEF ProtocolIndices, IsRegistryIndex
    <3>2. \E x : /\ wsi' = [wsi EXCEPT ![c] = x]
                 /\ x.mode = "WsClient" => x.protocol = n /\ ExtOK(r.exts, x.active)
      BY <1>3, <2>1, <2>3, <3>1
    <3>. QED  BY <1>7, <2>3, <3>1, <3>2 DEF BindOK, ProtoOK
  <2>. QED  BY <2>2, <2>3
<1>. QED  BY <1>4, <1>5, <1>6, <1>7

(* Lines 238-320: the reply loop establishes a connection only through  *)
(* the interpreter; its own exits keep the connection waiting or close.  *)
LEMMA ServerReplyBind ==
    ASSUME TypeOK, NEW c \in Conns, NEW ev,
           wsi[c].consumed <= srv[c].sent, wsi[c].consumed <= RespLen,
           srv[c].resp = NoResp => srv[c].sent = 0,
           ServiceServerReply(c, ev)
    PROVE  \E x : /\ wsi' = [wsi EXCEPT ![c] = x]
                  /\ x.mode = "WsClient" => BindOK(conf[c], srv[c].resp, x)
<1> DEFINE w == wsi[c]
           avail == srv[c].sent - w.consumed
           need == RespLen - w.consumed
           k == ReadCount(avail, need)
           w1 == [w EXCEPT !.consumed = @ + k,
                           !.ptr["hdrs"] = IF k > 0 /\ @ = "Null" THEN "Live" ELSE @]
           hd == IF k > 0 /\ w.ptr["hdrs"] = "Null" THEN "Live" ELSE w.ptr["hdrs"]
           u1 == [w EXCEPT !.consumed = w.consumed + k]
           u2 == [u1 EXCEPT !.ptr = [w.ptr EXCEPT !["hdrs"] = hd]]
<1>1. w \in WsiType /\ srv[c] \in SrvType /\ w.mode = "WaitingServerReply"
  BY DEF TypeOK, ServiceServerReply
<1>2. k \in Nat
  <2>1. RespLen \in Nat /\ w.consumed \in Nat /\ srv[c].sent \in Nat
    <3>1. RespLen \in Nat \ {0}
      BY Zenon, ConstAssumption
    <3>. QED  BY <1>1, <3>1, FieldTypes DEF SrvType
  <2>. QED  BY <2>1 DEF ReadCount
<1>3. w1 \in WsiType /\ w1.mode = "WaitingServerReply"
  <2>1. u1 \in WsiType
    <3>1. w.consumed + k \in Nat
      BY <1>1, <1>2, FieldTypes
    <3>. QED  BY <1>1, <3>1, Zenon, SetConsumed
  <2>2. [w.ptr EXCEPT !["hdrs"] = hd] \in PtrMaps
    BY <1>1, FieldTypes DEF PtrMaps, PtrStates, Buffers
  <2>3. u2 \in WsiType
    BY <2>1, <2>2, Zenon, SetPtr
  <2>. QED  BY <1>1, <2>3
<1>4. ASSUME NEW v \in WsiType, NEW why \in Outcomes
      PROVE  ServiceBail3(v, why).mode = "Closed"
  BY BailType
<1>r. ASSUME k = need \/ (k = 0 /\ w.consumed = RespLen - 1)
      PROVE  srv[c].resp \in Responses
  <2>0. RespLen \in Nat \ {0}
    BY Zenon, ConstAssumption
  <2>1. RespLen >= 2 /\ RespLen \in Nat
    BY <2>0, ReplyLenAssumption
  <2>2. srv[c].resp # NoResp
    <3> SUFFICES ASSUME srv[c].resp = NoResp PROVE FALSE
      OBVIOUS
    <3>1. srv[c].sent = 0 /\ w.consumed = 0
      BY <1>1, FieldTypes
    <3>2. k = 0
      BY <2>1, <3>1 DEF ReadCount
    <3>. QED  BY <1>r, <2>1, <3>1, <3>2
  <2>. QED  BY <1>1, <2>2 DEF SrvType
<1>5. CASE "POLLHUP" \in ev \/ "POLLIN" \notin ev
  BY <1>1, <1>4, <1>5 DEF ServiceServerReply, SetWsi, Outcomes
<1>6. CASE ~("POLLHUP" \in ev \/ "POLLIN" \notin ev) /\ k > 0
           /\ ~srv[c].resp.wellformed
  <2> DEFINE v0 == [w EXCEPT !.consumed = w.consumed + 1]
             v == [v0 EXCEPT !.ptr = [w.ptr EXCEPT !["hdrs"] = "Live"]]
  <2>1. v \in WsiType
    <3>0. w.consumed + 1 \in Nat
      BY <1>1, FieldTypes
    <3>1. v0 \in WsiType
      BY <1>1, <3>0, Zenon, SetConsumed
    <3>2. [w.ptr EXCEPT !["hdrs"] = "Live"] \in PtrMaps
      BY <1>1, FieldTypes DEF PtrMaps, PtrStates, Buffers
    <3>. QED  BY <3>1, <3>2, Zenon, SetPtr
  <2>2. wsi' = [wsi EXCEPT ![c] = ServiceBail3(v, "ParseError")]
    BY <1>6 DEF ServiceServerReply, SetWsi
  <2>. QED  BY <1>4, <2>1, <2>2 DEF Outcomes
<1>7. CASE ~("POLLHUP" \in ev \/ "POLLIN" \notin ev)
           /\ ~(k > 0 /\ ~srv[c].resp.wellformed) /\ k = need
  <2>1. [w1 EXCEPT !.parser = "Complete"] \in WsiType
    BY <1>3, Zenon, SetParser
  <2>2. InterpretServerHandshake(c, [w1 EXCEPT !.parser = "Complete"])
    BY <1>7 DEF ServiceServerReply
  <2>. QED  BY <1>r, <1>7, <2>1, <2>2, InterpretBind
<1>8. CASE ~("POLLHUP" \in ev \/ "POLLIN" \notin ev)
           /\ ~(k > 0 /\ ~srv[c].resp.wellformed) /\ k # need /\ srv[c].eof
  <2>1. \/ SetWsi(c, ServiceBail3(w1, "ParseError"))
        \/ SetWsi(c, [w1 EXCEPT !.garbage = TRUE])
        \/ /\ k = 0 /\ w1.consumed = RespLen - 1
           /\ InterpretServerHandshake(c, [w1 EXCEPT !.garbage = TRUE,
                                                     !.parser = "Complete"])
    BY <1>8 DEF ServiceServerReply
  <2>2. [w1 EXCEPT !.garbage = TRUE] \in WsiType
        /\ [w1 EXCEPT !.garbage = TRUE].mode = "WaitingServerReply"
    <3>1. [w1 EXCEPT !.garbage = TRUE] \in WsiType
      BY <1>3, Zenon, SetGarbage
    <3>. QED  BY <1>3, <3>1
  <2>3. [[w1 EXCEPT !.garbage = TRUE] EXCEPT !.parser = "Complete"] \in WsiType
    BY <2>2, Zenon, SetParser
  <2>4. [w1 EXCEPT !.garbage = TRUE, !.parser = "Complete"]
          = [[w1 EXCEPT !.garbage = TRUE] EXCEPT !.parser = "Complete"]
    OBVIOUS
  <2>5. CASE /\ k = 0 /\ w1.consumed = RespLen - 1
             /\ InterpretServerHandshake(c, [w1 EXCEPT !.garbage = TRUE,
                                                       !.parser = "Complete"])
    <3>0. w.consumed = RespLen - 1
      <4>0. "consumed" \in DOMAIN w /\ "ptr" \in DOMAIN w
        BY <1>1, Zenon DEF WsiType
      <4>1. w1 = u2
        OBVIOUS
      <4>2. u1.consumed = w.consumed + k
        BY <4>0
      <4>3. w1.consumed = w.consumed + k
        BY <4>1, <4>2
      <4>4. w.consumed \in Nat
        BY <1>1, FieldTypes
      <4>. QED  BY <2>5, <4>3, <4>4
    <3>1. srv[c].resp \in Responses
      BY <1>r, <2>5, <3>0
    <3>. QED  BY <2>3, <2>4, <2>5, <3>1, InterpretBind
  <2>. QED  BY <1>3, <1>4, <2>1, <2>2, <2>5 DEF SetWsi, Outcomes
<1>9. CASE ~("POLLHUP" \in ev \/ "POLLIN" \notin ev)
           /\ ~(k > 0 /\ ~srv[c].resp.wellformed) /\ k # need /\ ~srv[c].eof
  <2>1. SetWsi(c, w1) \/ SetWsi(c, ServiceBail3(w1, "WouldBlock"))
    BY <1>9 DEF ServiceServerReply
  <2>. QED  BY <1>3, <1>4, <2>1 DEF SetWsi, Outcomes
<1>. QED  BY <1>5, <1>6, <1>7, <1>8, <1>9

(* A step that replaces the record of one connection c, and leaves the  *)
(* configuration and every server reply alone, keeps BindingChecked if   *)
(* the new record satisfies it.                                           *)
LEMMA BindFrame ==
    ASSUME TypeOK, BindingChecked, NEW c \in Conns, NEW x,
           wsi' = [wsi EXCEPT ![c] = x], conf' = conf,
           \A d \in Conns : srv'[d].resp = srv[d].resp,
           x.mode = "WsClient" => BindOK(conf[c], srv[c].resp, x)
    PROVE  BindingChecked'
BY DEF BindingChecked, TypeOK

(* connect_via_info: a fresh connection is not established. *)
LEMMA InitBind == Init => BindingChecked
<1> SUFFICES ASSUME Init PROVE BindingChecked
  OBVIOUS
<1>1. \A c \in Conns :
         InitWsi(conf[c]).mode \in {"WaitingProxyReply", "IssueHandshake"}
  BY InitWsiType DEF Init
<1>. QED  BY <1>1 DEF Init, BindingChecked

(* Every step keeps BindingChecked. *)
LEMMA NextBind == Inv /\ BindingChecked /\ [Next]_vars => BindingChecked'
<1> SUFFICES ASSUME Inv, BindingChecked, [Next]_vars PROVE BindingChecked'
  OBVIOUS
<1>0. TypeOK
  BY DEF Inv
<1>1. CASE UNCHANGED vars
  BY <1>1 DEF vars, BindingChecked
<1>2. ASSUME NEW c \in Conns, NEW ev, ServiceProxyReply(c, ev) \/ ServiceIssueHandshake(c),
             UNCHANGED conf
      PROVE  BindingChecked'
  <2>1. /\ srv' = srv \/ srv' = [srv EXCEPT ![c].prx_read = TRUE]
        /\ \E x \in WsiType :
              /\ wsi' = [wsi EXCEPT ![c] = x]
              /\ x.mode \in {"WaitingProxyReply", "IssueHandshake", "Closed",
                            "WaitingServerReply"}
    BY <1>0, <1>2, ServiceProxyReplyStep, ServiceIssueHandshakeStep
  <2>2. \A d \in Conns : srv'[d].resp = srv[d].resp
    BY <1>0, <2>1 DEF TypeOK, SrvType
  <2>. QED  BY <1>0, <1>2, <2>1, <2>2, BindFrame
<1>3. ASSUME NEW c \in Conns, NEW ev, ServiceServerReply(c, ev), UNCHANGED conf
      PROVE  BindingChecked'
  <2>1. wsi[c].mode = "WaitingServerReply" /\ srv' = srv
    BY <1>3 DEF ServiceServerReply
  <2>2. /\ wsi[c].consumed <= srv[c].sent /\ wsi[c].consumed <= RespLen
        /\ srv[c].resp = NoResp => srv[c].sent = 0
    BY <2>1 DEF Inv, ConsumedInv, NoOverRead, Waiting
  <2>3. PICK x : /\ wsi' = [wsi EXCEPT ![c] = x]
                 /\ x.mode = "WsClient" => BindOK(conf[c], srv[c].resp, x)
    BY <1>0, <1>3, <2>2, ServerReplyBind
  <2>. QED  BY <1>0, <1>3, <2>1, <2>3, BindFrame
<1>4. ASSUME NEW c \in Conns, Timeout(c) PROVE BindingChecked'
  <2>1. Close(wsi[c], "Timeout").mode = "Closed"
    BY <1>0, CloseType DEF TypeOK, Outcomes
  <2>. QED  BY <1>0, <1>4, <2>1, BindFrame DEF Timeout, SetWsi
<1>5. ASSUME NEW c \in Conns,
             ProxyRespond(c) \/ ServerRespond(c) \/ ServerSend(c) \/ PeerClose(c)
      PROVE  BindingChecked'
  <2>1. /\ wsi' = wsi /\ conf' = conf /\ wsi[c].mode \in Waiting
        /\ \A d \in Conns \ {c} : srv'[d] = srv[d]
    BY <1>0, <1>5 DEF ProxyRespond, ServerRespond, ServerSend, PeerClose, Waiting, TypeOK
  <2>. QED  BY <2>1 DEF BindingChecked, Waiting
<1>. QED  BY <1>1, <1>2, <1>3, <1>4, <1>5 DEF Next, ClientSocketService

(* Inv /\ BindingChecked is an inductive invariant of the handshake. *)
LEMMA BindingAlways == Spec => [](Inv /\ BindingChecked)
<1>1. Init => Inv /\ BindingChecked
  BY InitInv, InitBind
<1>2. Inv /\ BindingChecked /\ [Next]_vars => Inv' /\ BindingChecked'
  BY NextInv, NextBind
<1>. QED  BY <1>1, <1>2, PTL DEF Spec

(* The binding the lookup loop made names an offered token. *)
LEMMA CheckedBound == TypeOK /\ BindingChecked => ProtocolBound
<1> SUFFICES ASSUME TypeOK, BindingChecked, NEW c \in Conns,
                    wsi[c].mode = "WsClient"
             PROVE  LET t == srv[c].resp.proto IN
                    IF t = "" THEN wsi[c].protocol = 1
                    ELSE /\ t \in OfferedNames(conf[c].offer)
                         /\ wsi[c].protocol \in DOMAIN Registry
                         /\ Registry[wsi[c].protocol] = t
  BY DEF ProtocolBound
<1> DEFINE s == conf[c].offer
           t == srv[c].resp.proto
<1>1. ProtoOK(conf[c], srv[c].resp, wsi[c].protocol)  BY DEF BindingChecked, BindOK
<1>2. CASE t = ""  BY <1>1, <1>2 DEF ProtoOK
<1>3. CASE t # ""
  <2>1. /\ s # NULL /\ ProtocolOffered(s, t)
        /\ wsi[c].protocol \in DOMAIN Registry /\ Registry[wsi[c].protocol] = t
    BY <1>1, <1>3 DEF ProtoOK
  <2>2. s \in Seq(ProtoNames \cup {Comma, Space})
    BY <2>1, ConstAssumption DEF TypeOK, Confs
  <2>3. PICK j \in 1..Len(s) : s[j] = t  BY <2>1, <2>2, ScanSound
  <2>4. t \in ProtoNames
    <3>1. Registry \in Seq(ProtoNames)  BY ConstAssumption
    <3>. QED  BY <2>1, <3>1
  <2>5. t \notin {Comma, Space}  BY <2>4, ConstAssumption
  <2>6. t \in OfferedNames(s)  BY <2>1, <2>2, <2>3, <2>5 DEF OfferedNames
  <2>. QED  BY <1>3, <2>1, <2>6
<1>. QED  BY <1>2, <1>3

(* Lines 423-485: for any registry, offer lists and server replies, and  *)
(* any number of connections, an established connection is bound to      *)
(* protocols[0] when the server named no protocol, and otherwise to the   *)
(* first registry entry of the name the server sent, a name the client    *)
(* offered in c_protocol.                                                  *)
THEOREM ProtocolBoundThm == Spec => []ProtocolBound
<1>1. Inv /\ BindingChecked => ProtocolBound
  BY CheckedBound DEF Inv
<1>. QED  BY <1>1, BindingAlways, PTL

(* Lines 487-574: for any registry of extensions and any extensions     *)
(* header, an established connection has one active extension for each  *)
(* name of the header, in the header's order.                             *)
THEOREM ExtensionsAsListedThm == Spec => []ExtensionsAsListed
<1>1. BindingChecked => ExtensionsAsListed
  BY DEF BindingChecked, BindOK, ExtOK, ExtensionsAsListed
<1>. QED  BY <1>1, BindingAlways, PTL

=============================================================================
