-------------------------- MODULE Connections_proofs --------------------------
(***************************************************************************)
(* Proofs about Connections, for any ports, channels and groups and any    *)
(* number of changes: the types, that once everything is done no link is   *)
(* missing that a hook asked for, and that a channel has a stray link only *)
(* if its metadata changed while an older link was under way.              *)
(***************************************************************************)
EXTENDS Connections, SequenceTheorems, FiniteSetTheorems, TLAPS

Events == UNION {{key} \X ValuesOf(key) : key \in Keys}

Request == ({"create"} \X Nat \X Nat) \union ({"destroy"} \X Nat)

\* A key whose last value no hook has seen yet.
Pending(key) == \E i \in 1 .. Len(changed) : changed[i][1] = key

\* The link from port o to port i is the one that a key gives with a value.
Joins(o, i, key, value) ==
  \/ /\ key[1] = "channel_port" /\ i.name = <<"input", key[2]>>
     /\ value \in Devices /\ o.name = value
  \/ /\ key[1] = "channel_group" /\ value \in Groups
     /\ o.name \in {<<"output", key[2]>>, <<"output", key[2] + 32>>}
     /\ i.name = group_target(o.name[2], value)

-----------------------------------------------------------------------------
(* The inductive invariant *)

\* Metadata and their events: the last event of a key has its present value.
KeysInv ==
  /\ metadata \in [Keys -> Devices \union Groups \union {Unset}]
  /\ \A key \in Keys : metadata[key] \in ValuesOf(key) \union {Unset}
  /\ changed \in Seq(Events)
  /\ \A i \in 1 .. Len(changed) :
       (\A j \in i + 1 .. Len(changed) : changed[j][1] # changed[i][1])
         => changed[i][2] = metadata[changed[i][1]]
  /\ changes \in 0 .. MaxChanges

\* An id is given once, whether to a port or to a link.
PortsInv ==
  /\ nextId \in Nat
  /\ \A p \in ports \union knownPorts : p.name \in Names /\ p.id \in 0 .. nextId - 1
  /\ \A p, q \in ports \union knownPorts : p.id = q.id => p = q
  /\ \A p, q \in knownPorts : p.name = q.name => p = q
  /\ appeared \subseteq knownPorts
  /\ IsFiniteSet(knownPorts)

LinksInv ==
  /\ \A l \in links \union knownLinks : l.id \in 0 .. nextId - 1
  /\ \A l, m \in links \union knownLinks : l.id = m.id => l = m
  /\ IsFiniteSet(knownLinks)
  /\ requests \in Seq(Request)
  /\ \A k \in 1 .. Len(requests) :
       /\ requests[k][2] \in 0 .. nextId - 1
       /\ requests[k][1] = "create" => requests[k][3] \in 0 .. nextId - 1

\* Links lead from an output to an input, and so do those that are asked for.
EndsInv ==
  /\ \A k \in 1 .. Len(requests) : requests[k][1] = "create" =>
       \A p \in ports : /\ p.id = requests[k][2] => Out(p.name)
                        /\ p.id = requests[k][3] => ~ Out(p.name)
  /\ \A l \in links : \E p, q \in ports :
       l.out = p.id /\ l.in = q.id /\ Out(p.name) /\ ~ Out(q.name)

\* A port that WirePlumber has not announced has no link and none under way.
NewPortsInv ==
  \A p \in ports \ knownPorts :
    /\ \A l \in links : p.id \notin {l.out, l.in}
    /\ \A k \in 1 .. Len(requests) :
         requests[k][1] = "create" => p.id \notin {requests[k][2], requests[k][3]}

\* A link to an input that the metadata give is asked for, or a hook will still do so.
AskedInv ==
  /\ \A a \in asked : \E o, i \in knownPorts : a = <<o.id, i.id>>
  /\ \A key \in Keys : \A o, i \in knownPorts :
       (key[1] = "channel_port" /\ Joins(o, i, key, metadata[key])) =>
         o \in appeared \/ i \in appeared \/ Pending(key) \/ <<o.id, i.id>> \in asked

Joined(l, a) == l.out = a[1] /\ l.in = a[2]

\* The link is there and no request to destroy it is under way.
There(a) ==
  \E l \in links : /\ Joined(l, a)
                   /\ \A k \in 1 .. Len(requests) : requests[k] # <<"destroy", l.id>>

\* It will be made, and what is destroyed after that is another link.
Coming(a) ==
  \E k \in 1 .. Len(requests) :
    /\ requests[k] = <<"create", a[1], a[2]>>
    /\ \A j \in k + 1 .. Len(requests) : \A l \in links :
         Joined(l, a) => requests[j] # <<"destroy", l.id>>

\* One of its ports is gone.
Gone(a) == \/ \A p \in ports : p.id # a[1]
           \/ \A p \in ports : p.id # a[2]

KeptInv == \A a \in asked : There(a) \/ Coming(a) \/ Gone(a)

\* The metadata give the link, or its key is yet to be looked at, or overtaken.
Right(out, in) ==
  \A o, i \in ports : (o.id = out /\ i.id = in) =>
    \A key \in Keys : \A p \in {o, i} : p.name \in Governed(key) =>
      Pending(key) \/ p.id \in overtaken \/ Joins(o, i, key, metadata[key])

StrayInv ==
  /\ \A k \in 1 .. Len(requests) :
       requests[k][1] = "create" => Right(requests[k][2], requests[k][3])
  /\ \A l \in links :
       (\A k \in 1 .. Len(requests) : requests[k] # <<"destroy", l.id>>) => Right(l.out, l.in)
-----------------------------------------------------------------------------
(* Sequences *)

\* What a set of links or pairs becomes when it is asked for one by one.
LEMMA SetToSeqElements ==
  ASSUME NEW S, IsFiniteSet(S)
  PROVE  /\ SetToSeq(S) \in Seq(S)
         /\ \A e \in S : \E k \in 1 .. Len(SetToSeq(S)) : SetToSeq(S)[k] = e
<1> DEFINE n == Cardinality(S)
           F == {f \in [1 .. n -> S] : IsInjective(f)}
<1>1. n \in Nat /\ ExistsBijection(1 .. n, S)
  BY FS_CardinalityType, Zenon
<1>2. PICK g : g \in Bijection(1 .. n, S)
  BY <1>1, Zenon DEF ExistsBijection
<1>3. g \in [1 .. n -> S] /\ IsInjective(g)
  BY <1>2, Zenon DEF Bijection, Injection
<1>4. SetToSeq(S) \in [1 .. n -> S] /\ IsInjective(SetToSeq(S))
  BY <1>3, Zenon DEF SetToSeq
<1> DEFINE f == SetToSeq(S)
<1> HIDE DEF f
<1>5. f \in [1 .. n -> S] /\ IsInjective(f)
  BY <1>4, Zenon DEF f
<1>6. f \in Injection(1 .. n, S)
  BY <1>5, Zenon DEF Injection
<1>7. IsFiniteSet(1 .. n) /\ Cardinality(1 .. n) = n
  BY <1>1, FS_Interval
<1>8. f \in Surjection(1 .. n, S)
  BY <1>6, <1>7, FS_Injection
<1>9. \A e \in S : \E k \in 1 .. n : f[k] = e
  BY <1>8, Zenon DEF Surjection
<1>10. f \in Seq(S) /\ Len(f) = n
  BY <1>1, <1>5
<1> QED BY <1>9, <1>10 DEF f

LEMMA ConcatAt ==
  ASSUME NEW S, NEW s \in Seq(S), NEW t \in Seq(S)
  PROVE  /\ s \o t \in Seq(S) /\ Len(s) \in Nat /\ Len(t) \in Nat
         /\ Len(s \o t) = Len(s) + Len(t)
         /\ \A k \in 1 .. Len(s) : (s \o t)[k] = s[k]
         /\ \A k \in 1 .. Len(t) : (s \o t)[Len(s) + k] = t[k]
         /\ \A k \in 1 .. Len(s \o t) :
              \/ k \in 1 .. Len(s) /\ (s \o t)[k] = s[k]
              \/ k - Len(s) \in 1 .. Len(t) /\ (s \o t)[k] = t[k - Len(s)]
BY ConcatProperties, LenProperties

LEMMA TailAt ==
  ASSUME NEW S, NEW s \in Seq(S), s # << >>
  PROVE  /\ Tail(s) \in Seq(S) /\ Len(s) \in Nat \ {0} /\ Len(Tail(s)) = Len(s) - 1
         /\ Head(s) = s[1]
         /\ \A k \in 1 .. Len(Tail(s)) : Tail(s)[k] = s[k + 1] /\ k + 1 \in 1 .. Len(s)
BY HeadTailProperties, LenProperties, EmptySeq

LEMMA ImageFinite ==
  ASSUME NEW S, IsFiniteSet(S), NEW f, DOMAIN f = S, f = [x \in S |-> f[x]]
  PROVE  IsFiniteSet({f[x] : x \in S})
<1> DEFINE T == {f[x] : x \in S}
<1>1. f \in Surjection(S, T)
  BY DEF Surjection
<1> HIDE DEF T
<1>2. IsFiniteSet(T)
  BY <1>1, FS_Surjection, Zenon
<1> QED BY <1>2 DEF T

\* The requests that links or pairs become.
LEMMA CreateElements ==
  ASSUME NEW N, IsFiniteSet(N), N \subseteq Nat \X Nat
  PROVE  /\ create(N) \in Seq(Request)
         /\ \A k \in 1 .. Len(create(N)) :
              \E a \in N : create(N)[k] = <<"create", a[1], a[2]>>
         /\ \A a \in N : \E k \in 1 .. Len(create(N)) :
              create(N)[k] = <<"create", a[1], a[2]>>
<1> DEFINE f == [a \in N |-> <<"create", a[1], a[2]>>]
           R == {<<"create", a[1], a[2]>> : a \in N}
<1>1. R = {f[a] : a \in N}
  OBVIOUS
<1>2. IsFiniteSet({f[a] : a \in N})
  BY ImageFinite
<1>3. IsFiniteSet(R)
  BY <1>1, <1>2
<1>4. R \subseteq Request
  BY DEF Request
<1>5. create(N) = SetToSeq(R)
  BY DEF create
<1> DEFINE s == create(N)
<1>6. s \in Seq(R) /\ \A e \in R : \E k \in 1 .. Len(s) : s[k] = e
  BY <1>3, <1>5, SetToSeqElements, Zenon
<1> HIDE DEF s
<1>7. \A k \in 1 .. Len(s) : s[k] \in R
  BY <1>6, ElementOfSeq
<1>8. s \in Seq(Request)
  <2>1. Seq(R) \subseteq Seq(Request)
    BY <1>4
  <2> QED BY <1>6, <2>1
<1> QED BY <1>6, <1>7, <1>8 DEF s

LEMMA DestroyElements ==
  ASSUME NEW M, IsFiniteSet(M), \A l \in M : l.id \in Nat
  PROVE  /\ request_destroy(M) \in Seq(Request)
         /\ \A k \in 1 .. Len(request_destroy(M)) :
              \E l \in M : request_destroy(M)[k] = <<"destroy", l.id>>
         /\ \A l \in M : \E k \in 1 .. Len(request_destroy(M)) :
              request_destroy(M)[k] = <<"destroy", l.id>>
<1> DEFINE f == [l \in M |-> <<"destroy", l.id>>]
           R == {<<"destroy", l.id>> : l \in M}
<1>1. R = {f[l] : l \in M}
  OBVIOUS
<1>2. IsFiniteSet({f[l] : l \in M})
  BY ImageFinite
<1>3. IsFiniteSet(R)
  BY <1>1, <1>2
<1>4. R \subseteq Request
  BY DEF Request
<1>5. request_destroy(M) = SetToSeq(R)
  BY DEF request_destroy
<1> DEFINE s == request_destroy(M)
<1>6. s \in Seq(R) /\ \A e \in R : \E k \in 1 .. Len(s) : s[k] = e
  BY <1>3, <1>5, SetToSeqElements, Zenon
<1> HIDE DEF s
<1>7. \A k \in 1 .. Len(s) : s[k] \in R
  BY <1>6, ElementOfSeq
<1>8. s \in Seq(Request)
  <2>1. Seq(R) \subseteq Seq(Request)
    BY <1>4
  <2> QED BY <1>6, <2>1
<1> QED BY <1>6, <1>7, <1>8 DEF s

\* There are finitely many links between ports that WirePlumber knows.
LEMMA PairsFinite ==
  ASSUME PortsInv, NEW N, \A a \in N : \E o, i \in knownPorts : a = <<o.id, i.id>>
  PROVE  N \subseteq Nat \X Nat /\ IsFiniteSet(N)
<1> DEFINE f == [p \in knownPorts |-> p.id]
           D == {f[p] : p \in knownPorts}
<1>1. IsFiniteSet(knownPorts)
  BY DEF PortsInv
<1>2. IsFiniteSet(D)
  BY <1>1, ImageFinite
<1>3. N \subseteq D \X D
  OBVIOUS
<1>4. IsFiniteSet(D \X D)
  BY <1>2, FS_Product, Zenon
<1>5. IsFiniteSet(N)
  BY <1>3, <1>4, FS_Subset
<1>6. \A p \in knownPorts : p.id \in Nat
  BY DEF PortsInv
<1> QED BY <1>5, <1>6
-----------------------------------------------------------------------------
(* Which links a key gives *)

LEMMA KeyFacts ==
  ASSUME NEW key \in Keys
  PROVE  /\ key = <<key[1], key[2]>> /\ key[1] \in {"channel_port", "channel_group"}
         /\ key[2] \in 1 .. 32 /\ key[2] \in Channels
<1>1. key \in {"channel_port", "channel_group"} \X Channels
  BY DEF Keys
<1>2. /\ key = <<key[1], key[2]>> /\ key[1] \in {"channel_port", "channel_group"}
      /\ key[2] \in Channels
  BY <1>1
<1> QED BY <1>2, ConnectionsAssumption

LEMMA GovernedKinds ==
  ASSUME NEW key \in Keys, NEW name \in Governed(key)
  PROVE  /\ name[2] \in 1 .. 64
         /\ \/ key[1] = "channel_port" /\ Kind(name) = "input" /\ name[2] = key[2]
            \/ /\ key[1] = "channel_group" /\ Kind(name) = "output"
               /\ channel_of(name[2]) = key[2]
BY KeyFacts DEF Governed, Kind, channel_of

\* No two keys govern one port.
LEMMA GovernedOnce ==
  ASSUME NEW key \in Keys, NEW other \in Keys, NEW name \in Governed(key),
         name \in Governed(other)
  PROVE  key = other
<1>1. key[1] = other[1] /\ key[2] = other[2]
  BY GovernedKinds, KeyFacts
<1> QED BY <1>1, KeyFacts

LEMMA TargetKind ==
  ASSUME NEW n, NEW group
  PROVE  Kind(group_target(n, group)) = "loop_in"
BY DEF group_target, Kind

LEMMA JoinsKinds ==
  ASSUME NEW key \in Keys, NEW value, NEW o, NEW i, Joins(o, i, key, value)
  PROVE  /\ Out(o.name) /\ ~ Out(i.name)
         /\ \/ /\ key[1] = "channel_port" /\ Kind(o.name) = "device" /\ Kind(i.name) = "input"
               /\ i.name \in Governed(key)
            \/ /\ key[1] = "channel_group" /\ Kind(o.name) = "output"
               /\ Kind(i.name) = "loop_in" /\ o.name \in Governed(key)
<1>1. CASE key[1] = "channel_port"
  <2>1. i.name = <<"input", key[2]>> /\ o.name \in Devices
    BY <1>1 DEF Joins
  <2>2. Kind(o.name) = "device" /\ Kind(i.name) = "input"
    BY <2>1 DEF Devices, Kind
  <2> QED BY <1>1, <2>1, <2>2 DEF Out, Governed
<1>2. CASE key[1] = "channel_group"
  <2>1. /\ o.name \in {<<"output", key[2]>>, <<"output", key[2] + 32>>}
        /\ i.name = group_target(o.name[2], value)
    BY <1>2 DEF Joins
  <2>2. Kind(o.name) = "output"
    BY <2>1 DEF Kind
  <2>3. Kind(i.name) = "loop_in"
    BY <2>1, TargetKind
  <2> QED BY <1>2, <2>1, <2>2, <2>3 DEF Out, Governed
<1> QED BY <1>1, <1>2, KeyFacts

\* The port of a link that is governed at all is governed by the link's own key.
LEMMA JoinsEnd ==
  ASSUME NEW key \in Keys, NEW value, NEW o, NEW i, Joins(o, i, key, value),
         NEW other \in Keys, NEW p \in {o, i}, p.name \in Governed(other)
  PROVE  other = key
<1>1. Kind(p.name) \in {"input", "output"}
  BY GovernedKinds
<1>2. p.name \in Governed(key)
  BY <1>1, JoinsKinds
<1> QED BY <1>2, GovernedOnce

LEMMA EventValues ==
  ASSUME PortsInv, NEW key \in Keys, NEW value \in ValuesOf(key)
  PROVE  /\ key[1] = "channel_port" => value \in Devices \/ lookup(value) = {}
         /\ key[1] = "channel_group" => value \in Groups
<1>1. ValuesOf(key) = IF key[1] = "channel_port" THEN Devices \union {Unset} ELSE Groups
  BY DEF ValuesOf
<1>2. lookup(Unset) = {}
  BY NamesAssumption DEF lookup, PortsInv
<1> QED BY <1>1, <1>2, KeyFacts

\* What the hook of a key asks for.
LEMMA NewPairsJoin ==
  ASSUME PortsInv, NEW key \in Keys, NEW value \in ValuesOf(key),
         NEW p \in knownPorts, p.name \in Governed(key), NEW a
  PROVE  a \in NewPairs(p, value) <=>
           \E o, i \in knownPorts : /\ p \in {o, i} /\ a = <<o.id, i.id>>
                                    /\ Joins(o, i, key, value)
<1>1. CASE key[1] = "channel_port"
  <2>1. p.name = <<"input", key[2]>> /\ Kind(p.name) = "input"
    BY <1>1 DEF Governed, Kind
  <2>2. NewPairs(p, value) = Pairs(lookup(value), {p})
    BY <2>1 DEF NewPairs
  <2>3. a \in NewPairs(p, value) <=> \E o \in lookup(value) : a = <<o.id, p.id>>
    BY <2>2 DEF Pairs
  <2>4. value \in Devices \/ lookup(value) = {}
    BY <1>1, EventValues
  <2>5. \A o \in lookup(value) : o \in knownPorts /\ o.name = value /\ Joins(o, p, key, value)
    BY <1>1, <2>1, <2>4 DEF lookup, Joins
  <2>6. ASSUME NEW o \in knownPorts, NEW i \in knownPorts, p \in {o, i}, Joins(o, i, key, value)
        PROVE  i = p /\ o \in lookup(value)
    <3>1. Kind(o.name) = "device" /\ o.name = value
      BY <1>1, <2>6, JoinsKinds DEF Joins
    <3> QED BY <2>1, <2>6, <3>1 DEF lookup
  <2> QED BY <2>3, <2>5, <2>6
<1>2. CASE key[1] = "channel_group"
  <2> DEFINE target == group_target(p.name[2], value)
  <2>1. /\ p.name \in {<<"output", key[2]>>, <<"output", key[2] + 32>>}
        /\ Kind(p.name) = "output"
    BY <1>2 DEF Governed, Kind
  <2>2. NewPairs(p, value) = Pairs({p}, lookup(target))
    BY <2>1 DEF NewPairs
  <2>3. a \in NewPairs(p, value) <=> \E i \in lookup(target) : a = <<p.id, i.id>>
    BY <2>2 DEF Pairs
  <2>4. value \in Groups
    BY <1>2, EventValues
  <2>5. \A i \in lookup(target) : i \in knownPorts /\ Joins(p, i, key, value)
    BY <1>2, <2>1, <2>4 DEF lookup, Joins
  <2>6. ASSUME NEW o \in knownPorts, NEW i \in knownPorts, p \in {o, i}, Joins(o, i, key, value)
        PROVE  o = p /\ i \in lookup(target)
    <3>1. Kind(i.name) = "loop_in" /\ i.name = group_target(o.name[2], value)
      BY <1>2, <2>6, JoinsKinds DEF Joins
    <3> QED BY <2>1, <2>6, <3>1 DEF lookup
  <2> HIDE DEF target
  <2> QED BY <2>3, <2>5, <2>6
<1> QED BY <1>1, <1>2, KeyFacts

-----------------------------------------------------------------------------
(* What a hook asks for, in order *)

\* The links of some ports that are in the copy.
Touching(ps) == {l \in knownLinks : \E p \in ps : p.id \in {l.out, l.in}}

(***************************************************************************)
(* The requests X make the links N and destroy the links M, and no link is *)
(* made of N that a later one of the requests destroys.                    *)
(***************************************************************************)
Asks(X, N, M) ==
  /\ X \in Seq(Request)
  /\ \A k \in 1 .. Len(X) : \/ \E a \in N : X[k] = <<"create", a[1], a[2]>>
                            \/ \E m \in M : X[k] = <<"destroy", m.id>>
  /\ \A a \in N : \E k \in 1 .. Len(X) :
       /\ X[k] = <<"create", a[1], a[2]>>
       /\ \A j \in k + 1 .. Len(X) : \A m \in M : X[j] = <<"destroy", m.id>> => ~ Joined(m, a)
  /\ \A m \in M : \E k \in 1 .. Len(X) : X[k] = <<"destroy", m.id>>

LEMMA AsksNothing == Asks(<< >>, {}, {})
BY EmptySeq DEF Asks

LEMMA AsksCreate ==
  ASSUME NEW N, N \subseteq Nat \X Nat, IsFiniteSet(N)
  PROVE  Asks(create(N), N, {})
<1> DEFINE X == create(N)
<1>1. /\ X \in Seq(Request)
      /\ \A k \in 1 .. Len(X) : \E a \in N : X[k] = <<"create", a[1], a[2]>>
      /\ \A a \in N : \E k \in 1 .. Len(X) : X[k] = <<"create", a[1], a[2]>>
  BY CreateElements, Zenon
<1> HIDE DEF X
<1>2. Asks(X, N, {})
  BY <1>1 DEF Asks
<1> QED BY <1>2 DEF X

LEMMA AsksDestroy ==
  ASSUME LinksInv, NEW M, M \subseteq knownLinks
  PROVE  Asks(request_destroy(M), {}, M)
<1> DEFINE X == request_destroy(M)
<1>1. IsFiniteSet(M)
  BY FS_Subset DEF LinksInv
<1>2. \A l \in M : l.id \in Nat
  BY DEF LinksInv
<1>3. /\ X \in Seq(Request)
      /\ \A k \in 1 .. Len(X) : \E l \in M : X[k] = <<"destroy", l.id>>
      /\ \A l \in M : \E k \in 1 .. Len(X) : X[k] = <<"destroy", l.id>>
  BY <1>1, <1>2, DestroyElements, Zenon
<1> HIDE DEF X
<1>4. Asks(X, {}, M)
  BY <1>3 DEF Asks
<1> QED BY <1>4 DEF X

LEMMA AsksBoth ==
  ASSUME LinksInv, NEW X, NEW Y, NEW M1, NEW M2, NEW N1, NEW N2,
         Asks(X, N1, M1), Asks(Y, N2, M2),
         M1 \subseteq knownLinks, M2 \subseteq knownLinks,
         \A a \in N1 : \A m \in M2 : ~ Joined(m, a)
  PROVE  Asks(X \o Y, N1 \union N2, M1 \union M2)
<1> DEFINE Z == X \o Y
           N == N1 \union N2
           M == M1 \union M2
<1>1. X \in Seq(Request) /\ Y \in Seq(Request)
  BY DEF Asks
<1>2. /\ Z \in Seq(Request) /\ Len(X) \in Nat /\ Len(Y) \in Nat
      /\ Len(Z) = Len(X) + Len(Y)
      /\ \A k \in 1 .. Len(X) : Z[k] = X[k]
      /\ \A k \in 1 .. Len(Y) : Z[Len(X) + k] = Y[k]
      /\ \A k \in 1 .. Len(Z) : \/ k \in 1 .. Len(X) /\ Z[k] = X[k]
                                \/ k - Len(X) \in 1 .. Len(Y) /\ Z[k] = Y[k - Len(X)]
  BY <1>1, ConcatAt, Zenon
<1> HIDE DEF Z
<1>3. ASSUME NEW k \in 1 .. Len(Z)
      PROVE  \/ \E a \in N : Z[k] = <<"create", a[1], a[2]>>
             \/ \E m \in M : Z[k] = <<"destroy", m.id>>
  <2>1. CASE k \in 1 .. Len(X) /\ Z[k] = X[k]
    BY <2>1 DEF Asks
  <2>2. CASE k - Len(X) \in 1 .. Len(Y) /\ Z[k] = Y[k - Len(X)]
    BY <2>2 DEF Asks
  <2> QED BY <1>2, <2>1, <2>2
<1>4. ASSUME NEW m \in M PROVE \E k \in 1 .. Len(Z) : Z[k] = <<"destroy", m.id>>
  <2>1. CASE m \in M1
    <3>1. PICK k \in 1 .. Len(X) : X[k] = <<"destroy", m.id>>
      BY <2>1 DEF Asks
    <3> QED BY <1>2, <3>1
  <2>2. CASE m \in M2
    <3>1. PICK k \in 1 .. Len(Y) : Y[k] = <<"destroy", m.id>>
      BY <2>2 DEF Asks
    <3>2. Len(X) + k \in 1 .. Len(Z) /\ Z[Len(X) + k] = Y[k]
      BY <1>2
    <3> QED BY <3>1, <3>2
  <2> QED BY <2>1, <2>2
<1>5. \A m, l \in knownLinks : m.id = l.id => m = l
  BY DEF LinksInv
\* What is destroyed by the second sequence joins nothing the first one asks for.
<1>6. ASSUME NEW a \in N1, NEW j \in 1 .. Len(Y), NEW m \in M, Y[j] = <<"destroy", m.id>>
      PROVE  ~ Joined(m, a)
  <2>1. PICK l \in M2 : Y[j] = <<"destroy", l.id>>
    BY <1>6 DEF Asks
  <2>2. l = m
    BY <1>5, <1>6, <2>1
  <2> QED BY <2>1, <2>2
<1>7. ASSUME NEW a \in N
      PROVE  \E k \in 1 .. Len(Z) :
               /\ Z[k] = <<"create", a[1], a[2]>>
               /\ \A j \in k + 1 .. Len(Z) : \A m \in M :
                    Z[j] = <<"destroy", m.id>> => ~ Joined(m, a)
  <2>1. CASE a \in N1
    <3>1. PICK k \in 1 .. Len(X) :
            /\ X[k] = <<"create", a[1], a[2]>>
            /\ \A j \in k + 1 .. Len(X) : \A m \in M1 :
                 X[j] = <<"destroy", m.id>> => ~ Joined(m, a)
      BY <2>1 DEF Asks
    <3>2. ASSUME NEW j \in k + 1 .. Len(Z), NEW m \in M, Z[j] = <<"destroy", m.id>>
          PROVE  ~ Joined(m, a)
      <4>0. j \in 1 .. Len(Z)
        BY <1>2, <3>1
      <4>1. CASE j \in 1 .. Len(X) /\ Z[j] = X[j]
        <5>1. PICK l \in M1 : X[j] = <<"destroy", l.id>>
          BY <3>2, <4>1 DEF Asks
        <5>2. l = m
          BY <1>5, <3>2, <4>1, <5>1
        <5>3. j \in k + 1 .. Len(X)
          BY <4>1, <3>1
        <5> QED BY <3>1, <5>1, <5>2, <5>3
      <4>2. CASE j - Len(X) \in 1 .. Len(Y) /\ Z[j] = Y[j - Len(X)]
        BY <1>6, <2>1, <3>2, <4>2
      <4> QED BY <1>2, <4>0, <4>1, <4>2
    <3>3. k \in 1 .. Len(Z) /\ Z[k] = X[k]
      BY <1>2, <3>1
    <3> QED BY <3>1, <3>2, <3>3
  <2>2. CASE a \in N2
    <3>1. PICK k \in 1 .. Len(Y) :
            /\ Y[k] = <<"create", a[1], a[2]>>
            /\ \A j \in k + 1 .. Len(Y) : \A m \in M2 :
                 Y[j] = <<"destroy", m.id>> => ~ Joined(m, a)
      BY <2>2 DEF Asks
    <3>2. Len(X) + k \in 1 .. Len(Z) /\ Z[Len(X) + k] = Y[k]
      BY <1>2
    <3>3. ASSUME NEW j \in Len(X) + k + 1 .. Len(Z), NEW m \in M, Z[j] = <<"destroy", m.id>>
          PROVE  ~ Joined(m, a)
      <4>1. j - Len(X) \in k + 1 .. Len(Y) /\ j - Len(X) \in 1 .. Len(Y)
        BY <1>2, <3>1
      <4>2. Z[j] = Y[j - Len(X)]
        <5>1. Z[Len(X) + (j - Len(X))] = Y[j - Len(X)]
          BY <1>2, <4>1
        <5> QED BY <1>2, <5>1, <4>1
      <4>3. PICK l \in M2 : Y[j - Len(X)] = <<"destroy", l.id>>
        <5> DEFINE i == j - Len(X)
        <5>1. i \in 1 .. Len(Y) /\ Y[i] = <<"destroy", m.id>>
          BY <3>3, <4>1, <4>2
        <5> HIDE DEF i
        <5>2. \E l \in M2 : Y[i] = <<"destroy", l.id>>
          BY <5>1 DEF Asks
        <5> QED BY <5>2 DEF i
      <4>4. l = m
        BY <1>5, <3>3, <4>2, <4>3
      <4> QED BY <3>1, <4>1, <4>3, <4>4
    <3> QED BY <3>1, <3>2, <3>3
  <2> QED BY <2>1, <2>2
<1>8. Asks(Z, N, M)
  BY <1>2, <1>3, <1>4, <1>7 DEF Asks
<1> QED BY <1>8 DEF Z

\* The ports a key governs, and the links it gives them with a value.
GovernedPorts(key) == UNION {lookup(name) : name \in Governed(key)}
Given(ps, value) == UNION {NewPairs(p, value) : p \in ps}

LEMMA GovernedPort ==
  ASSUME NEW key, NEW p
  PROVE  p \in GovernedPorts(key) <=> p \in knownPorts /\ p.name \in Governed(key)
BY DEF GovernedPorts, lookup

LEMMA GivenJoin ==
  ASSUME PortsInv, NEW key \in Keys, NEW value \in ValuesOf(key),
         NEW ps, ps \subseteq GovernedPorts(key), NEW a
  PROVE  a \in Given(ps, value) <=>
           \E o, i \in knownPorts : /\ o \in ps \/ i \in ps
                                    /\ a = <<o.id, i.id>> /\ Joins(o, i, key, value)
<1>1. a \in Given(ps, value) <=> \E p \in ps : a \in NewPairs(p, value)
  BY DEF Given
<1>2. \A p \in ps : p \in knownPorts /\ p.name \in Governed(key)
  BY GovernedPort
<1>3. \A p \in ps : a \in NewPairs(p, value) <=>
        \E o, i \in knownPorts : /\ p \in {o, i} /\ a = <<o.id, i.id>>
                                 /\ Joins(o, i, key, value)
  BY <1>2, NewPairsJoin
<1> QED BY <1>1, <1>3

LEMMA RelinkAsks ==
  ASSUME PortsInv, LinksInv, NEW key \in Keys, NEW value \in ValuesOf(key),
         NEW name \in Governed(key)
  PROVE  Asks(Relink(name, value), Given(lookup(name), value), Touching(lookup(name)))
<1>1. CASE lookup(name) = {}
  <2>1. /\ Relink(name, value) = << >> /\ Given(lookup(name), value) = {}
        /\ Touching(lookup(name)) = {}
    BY <1>1 DEF Relink, Given, Touching
  <2> QED BY <2>1, AsksNothing
<1>2. CASE lookup(name) # {}
  <2> DEFINE p == CHOOSE p \in lookup(name) : TRUE
             N == NewPairs(p, value)
             M == {l \in knownLinks : p.id \in {l.out, l.in}}
  <2>1. p \in lookup(name)
    BY <1>2
  <2>2. Relink(name, value) = request_destroy(M) \o create(N)
    BY <1>2 DEF Relink
  <2> HIDE DEF p
  <2>3. lookup(name) = {p} /\ p \in knownPorts /\ p.name = name
    BY <2>1 DEF lookup, PortsInv
  <2>4. Given(lookup(name), value) = N /\ Touching(lookup(name)) = M
    BY <2>3 DEF Given, Touching
  <2>5. \A a \in N : \E o, i \in knownPorts : a = <<o.id, i.id>>
    BY <2>3, NewPairsJoin
  <2> HIDE DEF N
  <2>6. Asks(create(N), N, {})
    BY <2>5, PairsFinite, AsksCreate
  <2>7. M \subseteq knownLinks
    OBVIOUS
  <2> HIDE DEF M
  <2>8. Asks(request_destroy(M), {}, M)
    BY <2>7, AsksDestroy
  <2>9. Asks(request_destroy(M) \o create(N), {} \union N, M \union {})
    BY <2>6, <2>7, <2>8, AsksBoth
  <2>10. {} \union N = N /\ M \union {} = M
    OBVIOUS
  <2> QED BY <2>2, <2>4, <2>9, <2>10
<1> QED BY <1>1, <1>2

LEMMA RelinksAsks ==
  ASSUME PortsInv, LinksInv, NEW key \in Keys, NEW value \in ValuesOf(key)
  PROVE  Asks(Relinks(key, value), Given(GovernedPorts(key), value),
              Touching(GovernedPorts(key)))
<1>1. CASE key[1] = "channel_port"
  <2> DEFINE name == <<"input", key[2]>>
  <2>1. Governed(key) = {name} /\ Relinks(key, value) = Relink(name, value)
    BY <1>1 DEF Governed, Relinks
  <2>2. GovernedPorts(key) = lookup(name)
    BY <2>1 DEF GovernedPorts
  <2>3. name \in Governed(key)
    BY <2>1
  <2> HIDE DEF name
  <2> QED BY <2>1, <2>2, <2>3, RelinkAsks
<1>2. CASE key[1] = "channel_group"
  <2> DEFINE a == <<"output", key[2]>>
             b == <<"output", key[2] + 32>>
  <2>1. /\ Governed(key) = {a, b}
        /\ Relinks(key, value) = Relink(a, value) \o Relink(b, value)
    BY <1>2 DEF Governed, Relinks
  <2>2. a # b /\ Kind(a) = "output" /\ Kind(b) = "output"
    <3>1. key[2] \in 1 .. 32
      BY KeyFacts
    <3>2. key[2] # key[2] + 32
      BY <3>1
    <3> QED BY <3>2 DEF Kind
  <2> HIDE DEF a, b
  <2>3. /\ Asks(Relink(a, value), Given(lookup(a), value), Touching(lookup(a)))
        /\ Asks(Relink(b, value), Given(lookup(b), value), Touching(lookup(b)))
    BY <2>1, RelinkAsks
  <2>4. Touching(lookup(a)) \subseteq knownLinks /\ Touching(lookup(b)) \subseteq knownLinks
    BY DEF Touching
  <2>5. ASSUME NEW pair \in Given(lookup(a), value), NEW m \in Touching(lookup(b))
        PROVE  ~ Joined(m, pair)
    <3>1. lookup(a) \subseteq GovernedPorts(key)
      BY <2>1 DEF GovernedPorts
    <3>2. PICK o \in knownPorts, i \in knownPorts :
            /\ o \in lookup(a) \/ i \in lookup(a)
            /\ pair = <<o.id, i.id>> /\ Joins(o, i, key, value)
      BY <3>1, GivenJoin
    <3>3. Kind(o.name) = "output" /\ Kind(i.name) = "loop_in"
      BY <1>2, <3>2, JoinsKinds
    <3>4. o.name = a
      BY <2>2, <3>2, <3>3 DEF lookup
    <3>5. PICK p \in lookup(b) : p.id \in {m.out, m.in}
      BY DEF Touching
    <3>6. p \in knownPorts /\ p.name = b
      BY <3>5 DEF lookup
    <3>7. p # o /\ p # i
      BY <2>2, <3>3, <3>4, <3>6
    <3>8. p.id # o.id /\ p.id # i.id
      BY <3>6, <3>7 DEF PortsInv
    <3> QED BY <3>2, <3>5, <3>8 DEF Joined
  <2>6. Asks(Relink(a, value) \o Relink(b, value),
             Given(lookup(a), value) \union Given(lookup(b), value),
             Touching(lookup(a)) \union Touching(lookup(b)))
    BY <2>3, <2>4, <2>5, AsksBoth
  <2>7. GovernedPorts(key) = lookup(a) \union lookup(b)
    BY <2>1 DEF GovernedPorts
  <2>8. Given(lookup(a) \union lookup(b), value)
          = Given(lookup(a), value) \union Given(lookup(b), value)
    BY DEF Given
  <2>9. Touching(lookup(a) \union lookup(b)) = Touching(lookup(a)) \union Touching(lookup(b))
    BY DEF Touching
  <2> QED BY <2>1, <2>6, <2>7, <2>8, <2>9
<1> QED BY <1>1, <1>2, KeyFacts

\* A port that appears is linked as every key that concerns it says.
AddedPairs(p) ==
  connect_initial_fc_inputs(p) \union connect_initial_ports(p)
    \union connect_looper_to_group(p) \union connect_initial_group_inputs(p)

LEMMA AddedJoin ==
  ASSUME PortsInv, KeysInv, NEW p \in knownPorts, NEW a \in AddedPairs(p)
  PROVE  \E key \in Keys : \E o, i \in knownPorts :
           a = <<o.id, i.id>> /\ Joins(o, i, key, metadata[key])
<1>0. \A q \in knownPorts : q.name \in Names
  BY DEF PortsInv
<1>1. CASE a \in connect_initial_fc_inputs(p)
  <2> DEFINE key == <<"channel_port", p.name[2]>>
  <2>1. Kind(p.name) = "input" /\ p.name[2] \in Channels
    BY <1>1 DEF connect_initial_fc_inputs
  <2>2. PICK o \in lookup(metadata[key]) : a = <<o.id, p.id>>
    BY <1>1, <2>1 DEF connect_initial_fc_inputs, Pairs
  <2>3. key \in Keys /\ p.name = <<"input", key[2]>> /\ key[1] = "channel_port"
    <3>1. p.name = <<"input", p.name[2]>>
      <4>1. PICK n \in 1 .. 32 : p.name = <<"input", n>>
        BY <1>0, <2>1, NamesAssumption
      <4> QED BY <4>1
    <3> QED BY <2>1, <3>1 DEF Keys
  <2> HIDE DEF key
  <2>4. metadata[key] \in Devices \union {Unset}
    BY <2>3 DEF KeysInv, ValuesOf
  <2>5. o \in knownPorts /\ o.name = metadata[key] /\ metadata[key] \in Devices
    BY <1>0, <2>2, <2>4, NamesAssumption DEF lookup
  <2> QED BY <2>2, <2>3, <2>5 DEF Joins
<1>2. CASE a \in connect_initial_ports(p)
  <2>1. PICK i \in UNION {lookup(<<"input", n>>) :
                            n \in {n \in Channels : metadata[<<"channel_port", n>>] = p.name}} :
          a = <<p.id, i.id>>
    BY <1>2 DEF connect_initial_ports, Pairs
  <2>2. PICK n \in Channels : metadata[<<"channel_port", n>>] = p.name /\ i \in lookup(<<"input", n>>)
    BY <2>1
  <2> DEFINE key == <<"channel_port", n>>
  <2>3. key \in Keys /\ key[1] = "channel_port" /\ key[2] = n
    BY DEF Keys
  <2> HIDE DEF key
  <2>4. metadata[key] = p.name
    BY <2>2 DEF key
  <2>5. metadata[key] \in Devices \union {Unset}
    BY <2>3 DEF KeysInv, ValuesOf
  <2>6. metadata[key] \in Devices
    BY <1>0, <2>4, <2>5, NamesAssumption
  <2> QED BY <2>1, <2>2, <2>3, <2>4, <2>6 DEF Joins, lookup
<1>3. CASE a \in connect_looper_to_group(p)
  BY <1>3 DEF connect_looper_to_group, Out
<1>4. CASE a \in connect_initial_group_inputs(p)
  <2> DEFINE c == channel_of(p.name[2])
             key == <<"channel_group", c>>
  <2>1. Kind(p.name) = "output" /\ c \in Channels /\ metadata[key] # Unset
    BY <1>4 DEF connect_initial_group_inputs
  <2>2. PICK i \in lookup(group_target(p.name[2], metadata[key])) : a = <<p.id, i.id>>
    BY <1>4, <2>1 DEF connect_initial_group_inputs, Pairs
  <2>3. PICK n \in 1 .. 64 : p.name = <<"output", n>>
    BY <1>0, <2>1, NamesAssumption
  <2>4. n = c \/ n = c + 32
    BY <2>3 DEF channel_of
  <2>5. key \in Keys /\ key[1] = "channel_group" /\ key[2] = c
    BY <2>1 DEF Keys
  <2>6. p.name \in {<<"output", key[2]>>, <<"output", key[2] + 32>>}
    BY <2>3, <2>4, <2>5
  <2> HIDE DEF key, c
  <2>7. metadata[key] \in Groups
    BY <2>1, <2>5 DEF KeysInv, ValuesOf
  <2> QED BY <2>2, <2>5, <2>6, <2>7 DEF Joins, lookup
<1> QED BY <1>1, <1>2, <1>3, <1>4 DEF AddedPairs

LEMMA AddedInputs ==
  ASSUME NEW key \in Keys, key[1] = "channel_port", NEW o \in knownPorts, NEW i \in knownPorts,
         Joins(o, i, key, metadata[key])
  PROVE  <<o.id, i.id>> \in AddedPairs(o) /\ <<o.id, i.id>> \in AddedPairs(i)
<1>1. /\ i.name = <<"input", key[2]>> /\ o.name = metadata[key]
      /\ Out(o.name) /\ Kind(i.name) = "input"
  BY JoinsKinds DEF Joins
<1>2. key[2] \in Channels /\ key = <<"channel_port", key[2]>> /\ i.name[2] = key[2]
  BY <1>1, KeyFacts
<1>3. <<o.id, i.id>> \in connect_initial_fc_inputs(i)
  BY <1>1, <1>2 DEF connect_initial_fc_inputs, Pairs, lookup
<1>4. i \in UNION {lookup(<<"input", n>>) :
                     n \in {n \in Channels : metadata[<<"channel_port", n>>] = o.name}}
  BY <1>1, <1>2 DEF lookup
<1>5. <<o.id, i.id>> \in connect_initial_ports(o)
  BY <1>1, <1>4 DEF connect_initial_ports, Pairs
<1> QED BY <1>3, <1>5 DEF AddedPairs

-----------------------------------------------------------------------------
(* The steps of the hooks *)

(***************************************************************************)
(* A hook asks for X: it forgets what was asked for the ports ps, destroys *)
(* their links and makes the links N.                                      *)
(***************************************************************************)
HookStep(X, N, ps) ==
  /\ requests' = requests \o X /\ Asks(X, N, Touching(ps))
  /\ ps \subseteq knownPorts
  /\ \A a \in N : \E o, i \in knownPorts : a = <<o.id, i.id>> /\ Out(o.name) /\ ~ Out(i.name)
  /\ asked' = {a \in asked : \A p \in ps : p.id \notin {a[1], a[2]}} \union N
  /\ UNCHANGED <<ports, links, nextId, knownPorts, knownLinks, metadata, changes>>

LEMMA AddedStep ==
  ASSUME KeysInv, PortsInv, NEW p \in appeared, PortAdded(p)
  PROVE  /\ HookStep(create(AddedPairs(p)), AddedPairs(p), {})
         /\ appeared' = appeared \ {p} /\ UNCHANGED <<changed, overtaken>>
<1> DEFINE N == AddedPairs(p)
<1>1. /\ appeared' = appeared \ {p} /\ requests' = requests \o create(N)
      /\ asked' = asked \union N
      /\ UNCHANGED <<metadata, ports, links, nextId, knownPorts, knownLinks, changed, changes,
                     overtaken>>
  BY DEF PortAdded, AddedPairs, server, copies
<1>2. p \in knownPorts
  BY DEF PortsInv
<1>3. ASSUME NEW a \in N
      PROVE  \E o, i \in knownPorts : a = <<o.id, i.id>> /\ Out(o.name) /\ ~ Out(i.name)
  <2>1. PICK key \in Keys : \E o, i \in knownPorts :
               a = <<o.id, i.id>> /\ Joins(o, i, key, metadata[key])
    BY <1>2, AddedJoin
  <2> QED BY <2>1, JoinsKinds
<1> HIDE DEF N
<1>4. N \subseteq Nat \X Nat /\ IsFiniteSet(N)
  BY <1>3, PairsFinite
<1>5. Asks(create(N), N, {})
  BY <1>4, AsksCreate
<1>6. Touching({}) = {}
  BY DEF Touching
<1>7. asked' = {a \in asked : \A q \in {} : q.id \notin {a[1], a[2]}} \union N
  BY <1>1
<1>8. HookStep(create(N), N, {})
  BY <1>1, <1>3, <1>5, <1>6, <1>7 DEF HookStep
<1> QED BY <1>1, <1>8 DEF N

\* The event at the head of the queue.
LEMMA HeadEvent ==
  ASSUME KeysInv, changed # << >>
  PROVE  /\ Head(changed)[1] \in Keys
         /\ Head(changed)[2] \in ValuesOf(Head(changed)[1])
<1>1. Head(changed) \in Events
  BY HeadTailProperties DEF KeysInv
<1>2. PICK key \in Keys : Head(changed) \in {key} \X ValuesOf(key)
  BY <1>1 DEF Events
<1>3. Head(changed)[1] = key /\ Head(changed)[2] \in ValuesOf(key)
  BY <1>2
<1> QED BY <1>3

LEMMA ChangedStep ==
  ASSUME KeysInv, PortsInv, LinksInv, MetadataChanged
  PROVE  \E key \in Keys : \E value \in ValuesOf(key) :
           LET ps == GovernedPorts(key)
           IN  /\ HookStep(Relinks(key, value), Given(ps, value), ps)
               /\ changed # << >> /\ Head(changed)[1] = key /\ Head(changed)[2] = value
               /\ changed' = Tail(changed) /\ appeared' = appeared
               /\ overtaken' = (overtaken \ {p.id : p \in ps})
                    \union {p.id : p \in {p \in ps : UnderWay(p) \ NewPairs(p, value) # {}}}
<1> DEFINE key == Head(changed)[1]
           value == Head(changed)[2]
           ps == GovernedPorts(key)
<1>1. changed # << >>
  BY DEF MetadataChanged
<1>2. key \in Keys /\ value \in ValuesOf(key)
  BY <1>1, HeadEvent
<1>3. /\ requests' = requests \o Relinks(key, value)
      /\ asked' = {a \in asked : \A p \in ps : p.id \notin {a[1], a[2]}}
                    \union Given(ps, value)
      /\ overtaken' = (overtaken \ {p.id : p \in ps})
           \union {p.id : p \in {p \in ps : UnderWay(p) \ NewPairs(p, value) # {}}}
  BY DEF MetadataChanged, GovernedPorts, Given
<1>4. /\ changed' = Tail(changed) /\ appeared' = appeared
      /\ UNCHANGED <<metadata, ports, links, nextId, knownPorts, knownLinks, changes>>
  BY DEF MetadataChanged, server, copies
<1> HIDE DEF key, value
<1>5. Asks(Relinks(key, value), Given(ps, value), Touching(ps))
  BY <1>2, RelinksAsks
<1>6. ps \subseteq knownPorts
  BY GovernedPort
<1>7. ASSUME NEW a \in Given(ps, value)
      PROVE  \E o, i \in knownPorts : a = <<o.id, i.id>> /\ Out(o.name) /\ ~ Out(i.name)
  <2>1. PICK o \in knownPorts, i \in knownPorts : a = <<o.id, i.id>> /\ Joins(o, i, key, value)
    BY <1>2, GivenJoin
  <2> QED BY <1>2, <2>1, JoinsKinds
<1> HIDE DEF ps
<1>8. HookStep(Relinks(key, value), Given(ps, value), ps)
  BY <1>3, <1>4, <1>5, <1>6, <1>7 DEF HookStep
<1> QED BY <1>1, <1>2, <1>3, <1>4, <1>8 DEF key, value, ps

\* The requests after a hook has run.
LEMMA HookRequests ==
  ASSUME LinksInv, NEW X, NEW N, NEW ps, HookStep(X, N, ps)
  PROVE  /\ requests' \in Seq(Request) /\ Len(requests) \in Nat /\ Len(requests') \in Nat
         /\ \A k \in 1 .. Len(requests') :
              \/ k \in 1 .. Len(requests) /\ requests'[k] = requests[k]
              \/ \E a \in N : requests'[k] = <<"create", a[1], a[2]>>
              \/ \E m \in Touching(ps) : requests'[k] = <<"destroy", m.id>>
         /\ \A k \in 1 .. Len(requests) : k \in 1 .. Len(requests') /\ requests'[k] = requests[k]
         /\ \A a \in N : \E k \in Len(requests) + 1 .. Len(requests') :
              /\ requests'[k] = <<"create", a[1], a[2]>>
              /\ \A j \in k + 1 .. Len(requests') : \A m \in Touching(ps) :
                   requests'[j] = <<"destroy", m.id>> => ~ Joined(m, a)
         /\ \A m \in Touching(ps) : \E k \in 1 .. Len(requests') :
              requests'[k] = <<"destroy", m.id>>
<1> DEFINE n == Len(requests)
           Z == requests \o X
<1>1. X \in Seq(Request) /\ requests \in Seq(Request) /\ requests' = Z
  BY DEF HookStep, Asks, LinksInv
<1>2. /\ Z \in Seq(Request) /\ n \in Nat /\ Len(X) \in Nat /\ Len(Z) = n + Len(X)
      /\ \A k \in 1 .. n : Z[k] = requests[k]
      /\ \A k \in 1 .. Len(X) : Z[n + k] = X[k]
      /\ \A k \in 1 .. Len(Z) : \/ k \in 1 .. n /\ Z[k] = requests[k]
                                \/ k - n \in 1 .. Len(X) /\ Z[k] = X[k - n]
  <2>1. /\ Z \in Seq(Request) /\ n \in Nat /\ Len(X) \in Nat /\ Len(Z) = n + Len(X)
        /\ \A k \in 1 .. n : Z[k] = requests[k]
        /\ \A k \in 1 .. Len(X) : Z[n + k] = X[k]
    BY <1>1, ConcatAt
  <2>2. \A k \in 1 .. Len(Z) :
          \/ k \in 1 .. n /\ Z[k] = requests[k]
          \/ k - n \in 1 .. Len(X) /\ Z[k] = X[k - n]
    BY <1>1, ConcatAt
  <2> QED BY <2>1, <2>2
<1> HIDE DEF Z
<1>3. Asks(X, N, Touching(ps))
  BY DEF HookStep
<1>4. \A k \in 1 .. Len(Z) :
        \/ k \in 1 .. n /\ Z[k] = requests[k]
        \/ \E a \in N : Z[k] = <<"create", a[1], a[2]>>
        \/ \E m \in Touching(ps) : Z[k] = <<"destroy", m.id>>
  <2>1. \A k \in 1 .. Len(X) : \/ \E a \in N : X[k] = <<"create", a[1], a[2]>>
                              \/ \E m \in Touching(ps) : X[k] = <<"destroy", m.id>>
    BY <1>3 DEF Asks
  <2> TAKE k \in 1 .. Len(Z)
  <2>2. CASE k - n \in 1 .. Len(X) /\ Z[k] = X[k - n]
    BY <2>1, <2>2
  <2> QED BY <1>2, <2>2
<1>5. \A k \in 1 .. n : k \in 1 .. Len(Z) /\ Z[k] = requests[k]
  BY <1>2
<1>6. ASSUME NEW a \in N
      PROVE  \E k \in n + 1 .. Len(Z) :
               /\ Z[k] = <<"create", a[1], a[2]>>
               /\ \A j \in k + 1 .. Len(Z) : \A m \in Touching(ps) :
                    Z[j] = <<"destroy", m.id>> => ~ Joined(m, a)
  <2>1. PICK k \in 1 .. Len(X) :
          /\ X[k] = <<"create", a[1], a[2]>>
          /\ \A j \in k + 1 .. Len(X) : \A m \in Touching(ps) :
               X[j] = <<"destroy", m.id>> => ~ Joined(m, a)
    BY <1>3 DEF Asks
  <2>2. n + k \in n + 1 .. Len(Z) /\ Z[n + k] = X[k]
    BY <1>2
  <2>3. ASSUME NEW j \in n + k + 1 .. Len(Z)
        PROVE  j - n \in k + 1 .. Len(X) /\ Z[j] = X[j - n]
    <3>1. j - n \in k + 1 .. Len(X) /\ j - n \in 1 .. Len(X)
      BY <1>2, <2>1
    <3>2. Z[n + (j - n)] = X[j - n]
      BY <1>2, <3>1
    <3>3. n + (j - n) = j
      BY <1>2
    <3> QED BY <3>1, <3>2, <3>3
  <2> QED BY <2>1, <2>2, <2>3
<1>7. ASSUME NEW m \in Touching(ps)
      PROVE  \E k \in 1 .. Len(Z) : Z[k] = <<"destroy", m.id>>
  <2>1. PICK k \in 1 .. Len(X) : X[k] = <<"destroy", m.id>>
    BY <1>3 DEF Asks
  <2>2. n + k \in 1 .. Len(Z) /\ Z[n + k] = X[k]
    BY <1>2
  <2> QED BY <2>1, <2>2
<1>8. Len(Z) \in Nat
  BY <1>2
<1> QED BY <1>1, <1>2, <1>4, <1>5, <1>6, <1>7, <1>8

-----------------------------------------------------------------------------
(* Metadata, ports and ids *)

\* The actions one by one.
Step ==
  \/ \E p \in appeared : PortAdded(p)
  \/ MetadataChanged \/ Create \/ Destroy
  \/ \E name \in Names : PortAppears(name)
  \/ \E p \in ports : PortDisappears(p)
  \/ \E p \in ports \ knownPorts : LearnPort(p)
  \/ \E p \in knownPorts \ ports : ForgetPort(p)
  \/ \E l \in links \ knownLinks : LearnLink(l)
  \/ \E l \in knownLinks \ links : ForgetLink(l)
  \/ \E key \in Keys : \E value \in ValuesOf(key) : SetMetadata(key, value)
  \/ UNCHANGED vars

LEMMA NextIsStep == [Next]_vars => Step
BY DEF Next, Hooks, Server, Copy, Surroundings, Step

LEMMA LatestOfTail ==
  ASSUME KeysInv, changed # << >>, changed' = Tail(changed), UNCHANGED <<metadata, changes>>
  PROVE  KeysInv'
<1>1. changed \in Seq(Events)
  BY DEF KeysInv
<1>2. /\ Tail(changed) \in Seq(Events) /\ Len(changed) \in Nat \ {0}
      /\ Len(Tail(changed)) = Len(changed) - 1
      /\ \A k \in 1 .. Len(Tail(changed)) : Tail(changed)[k] = changed[k + 1]
                                            /\ k + 1 \in 1 .. Len(changed)
  BY <1>1, TailAt
<1> DEFINE t == Tail(changed)
<1> HIDE DEF t
<1>3. ASSUME NEW k \in 1 .. Len(t), \A j \in k + 1 .. Len(t) : t[j][1] # t[k][1]
      PROVE  t[k][2] = metadata[t[k][1]]
  <2>1. t[k] = changed[k + 1] /\ k + 1 \in 1 .. Len(changed)
    BY <1>2 DEF t
  <2>2. ASSUME NEW j \in (k + 1) + 1 .. Len(changed)
        PROVE  changed[j][1] # changed[k + 1][1]
    <3>1. j - 1 \in k + 1 .. Len(t) /\ j - 1 \in 1 .. Len(t) /\ (j - 1) + 1 = j
      BY <1>2 DEF t
    <3>2. t[j - 1] = changed[j]
      BY <1>2, <3>1 DEF t
    <3>3. t[j - 1][1] # t[k][1]
      BY <1>3, <3>1
    <3> QED BY <2>1, <3>2, <3>3
  <2>3. changed[k + 1][2] = metadata[changed[k + 1][1]]
    BY <2>1, <2>2 DEF KeysInv
  <2> QED BY <2>1, <2>3
<1>4. t = changed' /\ metadata' = metadata /\ changes' = changes /\ t \in Seq(Events)
  BY <1>2 DEF t
<1> QED BY <1>3, <1>4 DEF KeysInv

LEMMA LatestOfAppend ==
  ASSUME KeysInv, NEW key \in Keys, NEW value \in ValuesOf(key), SetMetadata(key, value)
  PROVE  KeysInv'
<1> DEFINE e == <<key, value>>
           t == Append(changed, e)
<1>1. changed \in Seq(Events) /\ Len(changed) \in Nat /\ e \in Events
  <2>1. e \in {key} \X ValuesOf(key)
    OBVIOUS
  <2> QED BY <2>1, LenProperties DEF KeysInv, Events
<1>2. /\ t \in Seq(Events) /\ Len(t) = Len(changed) + 1
      /\ \A k \in 1 .. Len(changed) : t[k] = changed[k]
      /\ t[Len(changed) + 1] = e
  BY <1>1, AppendProperties
<1>3. e[1] = key /\ e[2] = value
  OBVIOUS
<1>4. /\ changes < MaxChanges /\ changes' = changes + 1 /\ changed' = t
      /\ metadata' = [metadata EXCEPT ![key] = value]
  BY DEF SetMetadata
<1> HIDE DEF t, e
<1>5. value \in Devices \union Groups \union {Unset}
  BY DEF ValuesOf
<1>6. /\ metadata' \in [Keys -> Devices \union Groups \union {Unset}]
      /\ metadata'[key] = value
      /\ \A other \in Keys : other # key => metadata'[other] = metadata[other]
  BY <1>4, <1>5 DEF KeysInv
<1>7. \A other \in Keys : metadata'[other] \in ValuesOf(other) \union {Unset}
  BY <1>6 DEF KeysInv
<1>8. ASSUME NEW k \in 1 .. Len(t), \A j \in k + 1 .. Len(t) : t[j][1] # t[k][1]
      PROVE  t[k][2] = metadata'[t[k][1]]
  <2>1. CASE k = Len(changed) + 1
    BY <1>2, <1>3, <1>6, <2>1
  <2>2. CASE k # Len(changed) + 1
    <3>1. k \in 1 .. Len(changed) /\ Len(changed) + 1 \in k + 1 .. Len(t)
      BY <1>1, <1>2, <2>2
    <3>2. t[k] = changed[k] /\ t[k][1] # key
      BY <1>2, <1>3, <1>8, <3>1
    <3>3. \A j \in k + 1 .. Len(changed) : changed[j][1] # changed[k][1]
      <4> TAKE j \in k + 1 .. Len(changed)
      <4>1. j \in 1 .. Len(changed) /\ j \in k + 1 .. Len(t)
        BY <1>1, <1>2, <3>1
      <4>2. t[j] = changed[j]
        BY <1>2, <4>1
      <4> QED BY <1>8, <3>2, <4>1, <4>2
    <3>4. changed[k][2] = metadata[changed[k][1]]
      BY <3>1, <3>3 DEF KeysInv
    <3>5. changed[k][1] \in Keys
      <4>1. changed[k] \in Events
        BY <1>1, <3>1, ElementOfSeq
      <4>2. PICK other \in Keys : changed[k] \in {other} \X ValuesOf(other)
        BY <4>1 DEF Events
      <4> QED BY <4>2
    <3> QED BY <1>6, <3>2, <3>4, <3>5
  <2> QED BY <2>1, <2>2
<1>9. changes' \in 0 .. MaxChanges
  BY <1>4, ConnectionsAssumption DEF KeysInv
<1> QED BY <1>2, <1>4, <1>6, <1>7, <1>8, <1>9 DEF KeysInv

LEMMA KeysNext ==
  ASSUME KeysInv, PortsInv, LinksInv, [Next]_vars
  PROVE  KeysInv'
<1>1. CASE MetadataChanged
  <2>1. changed # << >> /\ changed' = Tail(changed) /\ UNCHANGED <<metadata, changes>>
    BY <1>1 DEF MetadataChanged
  <2> QED BY <2>1, LatestOfTail
<1>2. CASE \E key \in Keys : \E value \in ValuesOf(key) : SetMetadata(key, value)
  BY <1>2, LatestOfAppend
<1>3. CASE UNCHANGED <<metadata, changed>> /\ changes' \in {changes, changes + 1}
           /\ (changes' # changes => changes < MaxChanges)
  <2>1. changes' \in 0 .. MaxChanges
    BY <1>3, ConnectionsAssumption DEF KeysInv
  <2> QED BY <1>3, <2>1 DEF KeysInv
<1>4. \/ MetadataChanged \/ \E key \in Keys : \E value \in ValuesOf(key) : SetMetadata(key, value)
      \/ /\ UNCHANGED <<metadata, changed>> /\ changes' \in {changes, changes + 1}
         /\ (changes' # changes => changes < MaxChanges)
  <2>1. CASE \E p \in appeared : PortAdded(p)
    BY <2>1 DEF PortAdded
  <2>2. CASE Create \/ Destroy
    BY <2>2 DEF Create, Destroy, events
  <2>3. CASE \E name \in Names : PortAppears(name)
    BY <2>3 DEF PortAppears, events
  <2>4. CASE \E p \in ports : PortDisappears(p)
    BY <2>4 DEF PortDisappears, events
  <2>5. CASE \E p \in ports \ knownPorts : LearnPort(p)
    BY <2>5 DEF LearnPort
  <2>6. CASE \E p \in knownPorts \ ports : ForgetPort(p)
    BY <2>6 DEF ForgetPort
  <2>7. CASE \/ \E l \in links \ knownLinks : LearnLink(l)
             \/ \E l \in knownLinks \ links : ForgetLink(l)
    BY <2>7 DEF LearnLink, ForgetLink, events
  <2>8. CASE UNCHANGED vars
    BY <2>8 DEF vars, events
  <2> QED BY <2>1, <2>2, <2>3, <2>4, <2>5, <2>6, <2>7, <2>8, NextIsStep DEF Step
<1> QED BY <1>1, <1>2, <1>3, <1>4

LEMMA PortsNext ==
  ASSUME PortsInv, [Next]_vars
  PROVE  PortsInv'
<1>1. CASE \E name \in Names : PortAppears(name)
  <2>1. PICK name \in Names : PortAppears(name)
    BY <1>1
  <2> DEFINE q == [id |-> nextId, name |-> name]
  <2>2. /\ ports' = ports \union {q} /\ nextId' = nextId + 1
        /\ knownPorts' = knownPorts /\ appeared' = appeared
    BY <2>1 DEF PortAppears, copies, events
  <2>3. q.id = nextId /\ q.name \in Names
    OBVIOUS
  <2> HIDE DEF q
  <2>4. nextId' \in Nat /\ nextId \in 0 .. nextId' - 1
    BY <2>2 DEF PortsInv
  <2>5. \A p \in ports \union knownPorts : p.id \in 0 .. nextId' - 1 /\ p.id # q.id
    BY <2>2, <2>3 DEF PortsInv
  <2>6. \A p \in ports' \union knownPorts' : p.name \in Names /\ p.id \in 0 .. nextId' - 1
    BY <2>2, <2>3, <2>4, <2>5 DEF PortsInv
  <2>7. \A p, r \in ports' \union knownPorts' : p.id = r.id => p = r
    BY <2>2, <2>5 DEF PortsInv
  <2> QED BY <2>2, <2>4, <2>6, <2>7 DEF PortsInv
<1>2. CASE \E p \in ports \ knownPorts : LearnPort(p)
  <2>1. PICK p \in ports \ knownPorts : LearnPort(p)
    BY <1>2
  <2>2. /\ lookup(p.name) = {} /\ knownPorts' = knownPorts \union {p}
        /\ appeared' = appeared \union {p} /\ ports' = ports /\ nextId' = nextId
    BY <2>1 DEF LearnPort, server
  <2>3. \A q \in knownPorts : q.name # p.name
    BY <2>2 DEF lookup
  <2>4. IsFiniteSet(knownPorts')
    BY <2>2, FS_AddElement DEF PortsInv
  <2> QED BY <2>1, <2>2, <2>3, <2>4 DEF PortsInv
<1>3. CASE \E p \in knownPorts \ ports : ForgetPort(p)
  <2>1. PICK p \in knownPorts \ ports : ForgetPort(p)
    BY <1>3
  <2>2. /\ knownPorts' = knownPorts \ {p} /\ appeared' = appeared \ {p}
        /\ ports' = ports /\ nextId' = nextId
    BY <2>1 DEF ForgetPort, server
  <2>3. IsFiniteSet(knownPorts')
    BY <2>2, FS_RemoveElement DEF PortsInv
  <2> QED BY <2>2, <2>3 DEF PortsInv
<1>4. CASE /\ knownPorts' = knownPorts /\ ports' \subseteq ports /\ appeared' \subseteq appeared
           /\ nextId' \in {nextId, nextId + 1}
  BY <1>4 DEF PortsInv
<1>5. \/ \E name \in Names : PortAppears(name)
      \/ \E p \in ports \ knownPorts : LearnPort(p)
      \/ \E p \in knownPorts \ ports : ForgetPort(p)
      \/ /\ knownPorts' = knownPorts /\ ports' \subseteq ports /\ appeared' \subseteq appeared
         /\ nextId' \in {nextId, nextId + 1}
  <2>1. CASE \E p \in appeared : PortAdded(p)
    BY <2>1 DEF PortAdded, server, copies
  <2>2. CASE MetadataChanged
    BY <2>2 DEF MetadataChanged, server, copies
  <2>3. CASE Create \/ Destroy
    BY <2>3 DEF Create, Destroy, copies, events
  <2>4. CASE \E p \in ports : PortDisappears(p)
    BY <2>4 DEF PortDisappears, copies, events
  <2>5. CASE \/ \E l \in links \ knownLinks : LearnLink(l)
             \/ \E l \in knownLinks \ links : ForgetLink(l)
    BY <2>5 DEF LearnLink, ForgetLink, server, events
  <2>6. CASE \E key \in Keys : \E value \in ValuesOf(key) : SetMetadata(key, value)
    BY <2>6 DEF SetMetadata, server, copies
  <2>7. CASE UNCHANGED vars
    BY <2>7 DEF vars, server, copies, events
  <2> QED BY <2>1, <2>2, <2>3, <2>4, <2>5, <2>6, <2>7, NextIsStep DEF Step
<1> QED BY <1>1, <1>2, <1>3, <1>4, <1>5

-----------------------------------------------------------------------------
(* Links, and the requests for them *)

\* What the server does with the request at the head of the queue.
LEMMA RequestsTail ==
  ASSUME LinksInv, requests # << >>, requests' = Tail(requests)
  PROVE  /\ requests' \in Seq(Request) /\ Len(requests) \in Nat \ {0}
         /\ Len(requests') = Len(requests) - 1 /\ Head(requests) = requests[1]
         /\ \A k \in 1 .. Len(requests') : requests'[k] = requests[k + 1]
                                           /\ k + 1 \in 1 .. Len(requests)
BY TailAt DEF LinksInv

LEMMA HookLinks ==
  ASSUME PortsInv, LinksInv, NEW X, NEW N, NEW ps, HookStep(X, N, ps)
  PROVE  LinksInv'
<1>1. /\ requests' \in Seq(Request)
      /\ \A k \in 1 .. Len(requests') :
           \/ k \in 1 .. Len(requests) /\ requests'[k] = requests[k]
           \/ \E a \in N : requests'[k] = <<"create", a[1], a[2]>>
           \/ \E m \in Touching(ps) : requests'[k] = <<"destroy", m.id>>
  BY HookRequests
<1>2. /\ \A a \in N : \E o, i \in knownPorts : a = <<o.id, i.id>>
      /\ UNCHANGED <<links, nextId, knownLinks>>
  BY DEF HookStep
<1>3. \A a \in N : a[1] \in 0 .. nextId - 1 /\ a[2] \in 0 .. nextId - 1
  BY <1>2 DEF PortsInv
<1>4. \A m \in Touching(ps) : m.id \in 0 .. nextId - 1
  BY DEF LinksInv, Touching
<1>5. ASSUME NEW k \in 1 .. Len(requests')
      PROVE  /\ requests'[k][2] \in 0 .. nextId - 1
             /\ requests'[k][1] = "create" => requests'[k][3] \in 0 .. nextId - 1
  <2>1. CASE k \in 1 .. Len(requests) /\ requests'[k] = requests[k]
    BY <2>1 DEF LinksInv
  <2>2. CASE \E a \in N : requests'[k] = <<"create", a[1], a[2]>>
    BY <1>3, <2>2
  <2>3. CASE \E m \in Touching(ps) : requests'[k] = <<"destroy", m.id>>
    BY <1>4, <2>3
  <2> QED BY <1>1, <2>1, <2>2, <2>3
<1> QED BY <1>1, <1>2, <1>5 DEF LinksInv

\* A link is made between ports that are there, unless there is one.
LEMMA CreateEffect ==
  ASSUME Create
  PROVE  /\ requests # << >> /\ requests' = Tail(requests) /\ Head(requests)[1] = "create"
         /\ UNCHANGED <<metadata, ports, knownPorts, knownLinks, appeared, changed, asked,
                        overtaken>>
         /\ \/ \E l : /\ l.id = nextId /\ links' = links \union {l} /\ nextId' = nextId + 1
                      /\ l.out = Head(requests)[2] /\ l.in = Head(requests)[3]
                      /\ \E p, q \in ports : p.id = l.out /\ q.id = l.in
            \/ /\ UNCHANGED <<links, nextId>>
               /\ \/ \E l \in links : l.out = Head(requests)[2] /\ l.in = Head(requests)[3]
                  \/ \A p \in ports : p.id # Head(requests)[2]
                  \/ \A p \in ports : p.id # Head(requests)[3]
<1> DEFINE o == Head(requests)[2]
           i == Head(requests)[3]
           ids == {p.id : p \in ports}
           l == [id |-> nextId, out |-> o, in |-> i]
<1>1. /\ requests # << >> /\ requests' = Tail(requests) /\ Head(requests)[1] = "create"
      /\ UNCHANGED <<metadata, ports, knownPorts, knownLinks, appeared, changed, asked, overtaken>>
  BY DEF Create, copies, events, history
<1>2. CASE {o, i} \subseteq ids /\ ~ \E m \in links : m.out = o /\ m.in = i
  <2>1. links' = links \union {l} /\ nextId' = nextId + 1
    BY <1>2 DEF Create
  <2>2. \E p, q \in ports : p.id = o /\ q.id = i
    BY <1>2
  <2>3. l.id = nextId /\ l.out = o /\ l.in = i
    OBVIOUS
  <2> HIDE DEF l
  <2> QED BY <1>1, <2>1, <2>2, <2>3
<1>3. CASE ~ ({o, i} \subseteq ids /\ ~ \E m \in links : m.out = o /\ m.in = i)
  <2>1. UNCHANGED <<links, nextId>>
    BY <1>3 DEF Create
  <2> QED BY <1>1, <1>3, <2>1
<1> QED BY <1>2, <1>3

LEMMA CreateLinks ==
  ASSUME PortsInv, LinksInv, Create
  PROVE  LinksInv'
<1>1. /\ requests' \in Seq(Request)
      /\ \A k \in 1 .. Len(requests') : requests'[k] = requests[k + 1] /\ k + 1 \in 1 .. Len(requests)
  BY RequestsTail DEF Create
<1>2. /\ knownLinks' = knownLinks
      /\ \/ UNCHANGED <<links, nextId>>
         \/ \E l : links' = links \union {l} /\ l.id = nextId /\ nextId' = nextId + 1
  BY CreateEffect
<1>3. \A k \in 1 .. Len(requests') :
        /\ requests'[k][2] \in 0 .. nextId - 1
        /\ requests'[k][1] = "create" => requests'[k][3] \in 0 .. nextId - 1
  BY <1>1 DEF LinksInv
<1>4. CASE UNCHANGED <<links, nextId>>
  BY <1>1, <1>2, <1>3, <1>4 DEF LinksInv
<1>5. ASSUME NEW l, links' = links \union {l}, l.id = nextId, nextId' = nextId + 1
      PROVE  LinksInv'
  <2>1. 0 .. nextId - 1 \subseteq 0 .. nextId' - 1 /\ nextId \in 0 .. nextId' - 1
    BY <1>5 DEF PortsInv
  <2>2. \A m \in links \union knownLinks : m.id \in 0 .. nextId' - 1 /\ m.id # l.id
    BY <1>5, <2>1 DEF LinksInv, PortsInv
  <2>3. \A m, n \in links' \union knownLinks' : m.id = n.id => m = n
    BY <1>2, <1>5, <2>2 DEF LinksInv
  <2>4. \A m \in links' \union knownLinks' : m.id \in 0 .. nextId' - 1
    BY <1>2, <1>5, <2>1, <2>2
  <2>5. \A k \in 1 .. Len(requests') :
          /\ requests'[k][2] \in 0 .. nextId' - 1
          /\ requests'[k][1] = "create" => requests'[k][3] \in 0 .. nextId' - 1
    BY <1>3, <2>1
  <2> QED BY <1>1, <1>2, <2>3, <2>4, <2>5 DEF LinksInv
<1> QED BY <1>2, <1>4, <1>5

LEMMA LinksNext ==
  ASSUME KeysInv, PortsInv, LinksInv, [Next]_vars
  PROVE  LinksInv'
<1>1. CASE \E p \in appeared : PortAdded(p)
  BY <1>1, AddedStep, HookLinks
<1>2. CASE MetadataChanged
  BY <1>2, ChangedStep, HookLinks
<1>3. CASE Create
  BY <1>3, CreateLinks
<1>4. CASE Destroy
  <2>1. /\ requests' \in Seq(Request)
        /\ \A k \in 1 .. Len(requests') : requests'[k] = requests[k + 1]
                                          /\ k + 1 \in 1 .. Len(requests)
    BY <1>4, RequestsTail DEF Destroy
  <2>2. links' \subseteq links /\ UNCHANGED <<nextId, knownLinks>>
    BY <1>4 DEF Destroy, copies
  <2> QED BY <2>1, <2>2 DEF LinksInv
<1>5. CASE \E l \in links \ knownLinks : LearnLink(l)
  <2>1. PICK l \in links : /\ knownLinks' = knownLinks \union {l}
                           /\ UNCHANGED <<links, nextId, requests>>
    BY <1>5 DEF LearnLink, server
  <2>2. IsFiniteSet(knownLinks')
    BY <2>1, FS_AddElement DEF LinksInv
  <2> QED BY <2>1, <2>2 DEF LinksInv
<1>6. CASE \E l \in knownLinks \ links : ForgetLink(l)
  <2>1. PICK l : /\ knownLinks' = knownLinks \ {l}
                 /\ UNCHANGED <<links, nextId, requests>>
    BY <1>6 DEF ForgetLink, server
  <2>2. IsFiniteSet(knownLinks')
    BY <2>1, FS_RemoveElement DEF LinksInv
  <2> QED BY <2>1, <2>2 DEF LinksInv
<1>7. CASE links' \subseteq links /\ nextId' \in {nextId, nextId + 1}
           /\ UNCHANGED <<knownLinks, requests>>
  <2>1. 0 .. nextId - 1 \subseteq 0 .. nextId' - 1
    <3>1. nextId \in Nat /\ (nextId' = nextId \/ nextId' = nextId + 1)
      BY <1>7 DEF PortsInv
    <3> QED BY <3>1
  <2> QED BY <1>7, <2>1 DEF LinksInv
<1>8. CASE \/ \E name \in Names : PortAppears(name)
           \/ \E p \in ports : PortDisappears(p)
           \/ \E p \in ports \ knownPorts : LearnPort(p)
           \/ \E p \in knownPorts \ ports : ForgetPort(p)
           \/ \E key \in Keys : \E value \in ValuesOf(key) : SetMetadata(key, value)
           \/ UNCHANGED vars
  <2>1. CASE \/ \E name \in Names : PortAppears(name)
             \/ \E p \in ports : PortDisappears(p)
    BY <1>7, <2>1 DEF PortAppears, PortDisappears, copies
  <2>2. CASE \/ \E p \in ports \ knownPorts : LearnPort(p)
             \/ \E p \in knownPorts \ ports : ForgetPort(p)
    BY <1>7, <2>2 DEF LearnPort, ForgetPort, server
  <2>3. CASE \/ \E key \in Keys : \E value \in ValuesOf(key) : SetMetadata(key, value)
             \/ UNCHANGED vars
    BY <1>7, <2>3 DEF SetMetadata, vars, server, copies
  <2> QED BY <1>8, <2>1, <2>2, <2>3
<1> QED BY <1>1, <1>2, <1>3, <1>4, <1>5, <1>6, <1>8, NextIsStep DEF Step

\* Actions that leave the server, its requests and their ports alone.
LEMMA CopyEffect ==
  ASSUME \/ \E p \in ports \ knownPorts : LearnPort(p)
         \/ \E p \in knownPorts \ ports : ForgetPort(p)
         \/ \E l \in links \ knownLinks : LearnLink(l)
         \/ \E l \in knownLinks \ links : ForgetLink(l)
         \/ \E key \in Keys : \E value \in ValuesOf(key) : SetMetadata(key, value)
         \/ UNCHANGED vars
  PROVE  /\ UNCHANGED <<ports, links, nextId, requests>>
         /\ ports \ knownPorts' \subseteq ports \ knownPorts
<1>1. CASE \/ \E p \in ports \ knownPorts : LearnPort(p)
           \/ \E p \in knownPorts \ ports : ForgetPort(p)
  BY <1>1 DEF LearnPort, ForgetPort, server
<1>2. CASE \/ \E l \in links \ knownLinks : LearnLink(l)
           \/ \E l \in knownLinks \ links : ForgetLink(l)
  BY <1>2 DEF LearnLink, ForgetLink, server
<1>3. CASE \/ \E key \in Keys : \E value \in ValuesOf(key) : SetMetadata(key, value)
           \/ UNCHANGED vars
  BY <1>3 DEF SetMetadata, vars, server, copies
<1> QED BY <1>1, <1>2, <1>3

LEMMA HookEnds ==
  ASSUME PortsInv, LinksInv, EndsInv, NewPortsInv, NEW X, NEW N, NEW ps, HookStep(X, N, ps)
  PROVE  EndsInv' /\ NewPortsInv'
<1>1. /\ UNCHANGED <<ports, links, knownPorts>>
      /\ \A a \in N : \E o, i \in knownPorts : a = <<o.id, i.id>> /\ Out(o.name) /\ ~ Out(i.name)
  BY DEF HookStep
<1>2. ASSUME NEW k \in 1 .. Len(requests'), requests'[k][1] = "create", NEW p \in ports
      PROVE  /\ p.id = requests'[k][2] => Out(p.name)
             /\ p.id = requests'[k][3] => ~ Out(p.name)
             /\ p \notin knownPorts => p.id \notin {requests'[k][2], requests'[k][3]}
  <2>1. CASE k \in 1 .. Len(requests) /\ requests'[k] = requests[k]
    BY <1>2, <2>1 DEF EndsInv, NewPortsInv
  <2>2. CASE \E a \in N : requests'[k] = <<"create", a[1], a[2]>>
    <3>1. PICK o \in knownPorts, i \in knownPorts :
            requests'[k] = <<"create", o.id, i.id>> /\ Out(o.name) /\ ~ Out(i.name)
      BY <1>1, <2>2
    <3>2. (p.id = o.id => p = o) /\ (p.id = i.id => p = i)
      BY DEF PortsInv
    <3> QED BY <3>1, <3>2
  <2>3. CASE \E m \in Touching(ps) : requests'[k] = <<"destroy", m.id>>
    BY <1>2, <2>3
  <2> QED BY <2>1, <2>2, <2>3, HookRequests
<1>3. EndsInv'
  BY <1>1, <1>2 DEF EndsInv
<1>4. NewPortsInv'
  BY <1>1, <1>2 DEF NewPortsInv
<1> QED BY <1>3, <1>4

LEMMA CreateEnds ==
  ASSUME PortsInv, LinksInv, EndsInv, NewPortsInv, Create
  PROVE  EndsInv' /\ NewPortsInv'
<1>1. /\ requests # << >> /\ requests' = Tail(requests) /\ Head(requests)[1] = "create"
      /\ UNCHANGED <<ports, knownPorts>>
  BY CreateEffect
<1>2. /\ Len(requests) \in Nat \ {0} /\ Head(requests) = requests[1]
      /\ \A k \in 1 .. Len(requests') : requests'[k] = requests[k + 1] /\ k + 1 \in 1 .. Len(requests)
  BY <1>1, RequestsTail
<1>3. /\ \A k \in 1 .. Len(requests') : requests'[k][1] = "create" =>
           \A p \in ports : /\ p.id = requests'[k][2] => Out(p.name)
                            /\ p.id = requests'[k][3] => ~ Out(p.name)
      /\ \A p \in ports \ knownPorts : \A k \in 1 .. Len(requests') :
           requests'[k][1] = "create" => p.id \notin {requests'[k][2], requests'[k][3]}
  BY <1>2 DEF EndsInv, NewPortsInv
<1>4. /\ \A p \in ports : /\ p.id = Head(requests)[2] => Out(p.name)
                          /\ p.id = Head(requests)[3] => ~ Out(p.name)
      /\ \A p \in ports \ knownPorts : p.id \notin {Head(requests)[2], Head(requests)[3]}
  <2>1. 1 \in 1 .. Len(requests) /\ requests[1][1] = "create"
    BY <1>1, <1>2
  <2> QED BY <1>2, <2>1 DEF EndsInv, NewPortsInv
<1>5. CASE UNCHANGED links
  BY <1>1, <1>3, <1>5 DEF EndsInv, NewPortsInv
<1>6. ASSUME NEW l, links' = links \union {l}, l.out = Head(requests)[2],
             l.in = Head(requests)[3], \E p, q \in ports : p.id = l.out /\ q.id = l.in
      PROVE  EndsInv' /\ NewPortsInv'
  <2>1. \E p, q \in ports : l.out = p.id /\ l.in = q.id /\ Out(p.name) /\ ~ Out(q.name)
    BY <1>4, <1>6
  <2>2. \A p \in ports \ knownPorts : p.id \notin {l.out, l.in}
    BY <1>4, <1>6
  <2>3. EndsInv'
    BY <1>1, <1>3, <1>6, <2>1 DEF EndsInv
  <2>4. NewPortsInv'
    BY <1>1, <1>3, <1>6, <2>2 DEF NewPortsInv
  <2> QED BY <2>3, <2>4
<1> QED BY <1>5, <1>6, CreateEffect

LEMMA AppearsEnds ==
  ASSUME PortsInv, LinksInv, EndsInv, NewPortsInv, NEW name \in Names, PortAppears(name)
  PROVE  EndsInv' /\ NewPortsInv'
<1> DEFINE q == [id |-> nextId, name |-> name]
<1>1. /\ ports' = ports \union {q} /\ q.id = nextId
      /\ UNCHANGED <<links, requests, knownPorts>>
  BY DEF PortAppears, copies
<1> HIDE DEF q
<1>2. \A k \in 1 .. Len(requests) : requests[k][1] = "create" =>
        q.id # requests[k][2] /\ q.id # requests[k][3]
  BY <1>1 DEF LinksInv, PortsInv
<1>3. \A l \in links : q.id # l.out /\ q.id # l.in
  BY <1>1 DEF EndsInv, PortsInv
<1>4. EndsInv'
  BY <1>1, <1>2 DEF EndsInv
<1>5. NewPortsInv'
  BY <1>1, <1>2, <1>3 DEF NewPortsInv
<1> QED BY <1>4, <1>5

LEMMA EndsNext ==
  ASSUME KeysInv, PortsInv, LinksInv, EndsInv, NewPortsInv, [Next]_vars
  PROVE  EndsInv' /\ NewPortsInv'
<1>1. CASE \E p \in appeared : PortAdded(p)
  BY <1>1, AddedStep, HookEnds
<1>2. CASE MetadataChanged
  BY <1>2, ChangedStep, HookEnds
<1>3. CASE Create
  BY <1>3, CreateEnds
<1>4. CASE Destroy
  <2>1. \A k \in 1 .. Len(requests') : requests'[k] = requests[k + 1] /\ k + 1 \in 1 .. Len(requests)
    BY <1>4, RequestsTail DEF Destroy
  <2>2. links' \subseteq links /\ UNCHANGED <<ports, knownPorts>>
    BY <1>4 DEF Destroy, copies
  <2>3. EndsInv'
    BY <2>1, <2>2 DEF EndsInv
  <2>4. NewPortsInv'
    BY <2>1, <2>2 DEF NewPortsInv
  <2> QED BY <2>3, <2>4
<1>5. CASE \E name \in Names : PortAppears(name)
  BY <1>5, AppearsEnds
<1>6. CASE \E p \in ports : PortDisappears(p)
  <2>1. PICK p \in ports : PortDisappears(p)
    BY <1>6
  <2>2. /\ ports' = ports \ {p} /\ links' = {l \in links : p.id \notin {l.out, l.in}}
        /\ UNCHANGED <<requests, knownPorts>>
    BY <2>1 DEF PortDisappears, copies
  <2>3. \A l \in links' : \E r, q \in ports' :
          l.out = r.id /\ l.in = q.id /\ Out(r.name) /\ ~ Out(q.name)
    BY <2>2 DEF EndsInv
  <2>4. EndsInv'
    BY <2>2, <2>3 DEF EndsInv
  <2>5. NewPortsInv'
    BY <2>2 DEF NewPortsInv
  <2> QED BY <2>4, <2>5
<1>7. CASE /\ UNCHANGED <<ports, links, nextId, requests>>
           /\ ports \ knownPorts' \subseteq ports \ knownPorts
  <2>1. EndsInv'
    BY <1>7 DEF EndsInv
  <2>2. NewPortsInv'
    BY <1>7 DEF NewPortsInv
  <2> QED BY <2>1, <2>2
<1> QED BY <1>1, <1>2, <1>3, <1>4, <1>5, <1>6, <1>7, CopyEffect, NextIsStep DEF Step

-----------------------------------------------------------------------------
(* What was asked for is kept *)

LEMMA RequestKinds ==
  ASSUME LinksInv, NEW k \in 1 .. Len(requests)
  PROVE  requests[k][1] = "destroy" => requests[k] = <<"destroy", requests[k][2]>>
<1>1. requests[k] \in Request
  BY ElementOfSeq DEF LinksInv
<1>2. CASE requests[k] \in {"create"} \X Nat \X Nat
  BY <1>2
<1>3. CASE requests[k] \in {"destroy"} \X Nat
  BY <1>3
<1> QED BY <1>1, <1>2, <1>3 DEF Request

LEMMA HookKept ==
  ASSUME LinksInv, KeptInv, NEW X, NEW N, NEW ps, HookStep(X, N, ps)
  PROVE  KeptInv'
<1> DEFINE n == Len(requests)
           Z == requests'
<1>1. /\ n \in Nat /\ Len(Z) \in Nat
      /\ \A k \in 1 .. Len(Z) :
           \/ k \in 1 .. n /\ Z[k] = requests[k]
           \/ \E a \in N : Z[k] = <<"create", a[1], a[2]>>
           \/ \E m \in Touching(ps) : Z[k] = <<"destroy", m.id>>
      /\ \A k \in 1 .. n : k \in 1 .. Len(Z) /\ Z[k] = requests[k]
      /\ \A a \in N : \E k \in n + 1 .. Len(Z) :
           /\ Z[k] = <<"create", a[1], a[2]>>
           /\ \A j \in k + 1 .. Len(Z) : \A m \in Touching(ps) :
                Z[j] = <<"destroy", m.id>> => ~ Joined(m, a)
  <2>1. /\ n \in Nat /\ Len(Z) \in Nat
        /\ \A k \in 1 .. Len(Z) :
             \/ k \in 1 .. n /\ Z[k] = requests[k]
             \/ \E a \in N : Z[k] = <<"create", a[1], a[2]>>
             \/ \E m \in Touching(ps) : Z[k] = <<"destroy", m.id>>
    BY HookRequests
  <2>2. \A k \in 1 .. n : k \in 1 .. Len(Z) /\ Z[k] = requests[k]
    BY HookRequests
  <2>3. \A a \in N : \E k \in n + 1 .. Len(Z) :
           /\ Z[k] = <<"create", a[1], a[2]>>
           /\ \A j \in k + 1 .. Len(Z) : \A m \in Touching(ps) :
                Z[j] = <<"destroy", m.id>> => ~ Joined(m, a)
    BY HookRequests
  <2> QED BY <2>1, <2>2, <2>3
<1>2. /\ UNCHANGED <<ports, links, knownLinks>>
      /\ asked' = {a \in asked : \A p \in ps : p.id \notin {a[1], a[2]}} \union N
  BY DEF HookStep
<1>3. \A l \in links : \A m \in Touching(ps) : l.id = m.id => l = m
  BY DEF LinksInv, Touching
<1> HIDE DEF Z, n
\* A request that destroys a link is an old one, or the link is one of ps.
<1>4. ASSUME NEW k \in 1 .. Len(Z), NEW l \in links, Z[k] = <<"destroy", l.id>>
      PROVE  (k \in 1 .. n /\ Z[k] = requests[k]) \/ l \in Touching(ps)
  <2>1. CASE \E a \in N : Z[k] = <<"create", a[1], a[2]>>
    BY <1>4, <2>1
  <2>2. CASE \E m \in Touching(ps) : Z[k] = <<"destroy", m.id>>
    BY <1>3, <1>4, <2>2
  <2> QED BY <1>1, <2>1, <2>2
<1>5. ASSUME NEW a \in N
      PROVE  Coming(a)'
  <2>1. PICK k \in n + 1 .. Len(Z) :
          /\ Z[k] = <<"create", a[1], a[2]>>
          /\ \A j \in k + 1 .. Len(Z) : \A m \in Touching(ps) :
               Z[j] = <<"destroy", m.id>> => ~ Joined(m, a)
    BY <1>1
  <2>2. ASSUME NEW j \in k + 1 .. Len(Z), NEW l \in links, Joined(l, a)
        PROVE  Z[j] # <<"destroy", l.id>>
    <3>1. j \in 1 .. Len(Z) /\ j \notin 1 .. n
      BY <1>1, <2>1
    <3> QED BY <1>4, <2>1, <2>2, <3>1
  <2>3. k \in 1 .. Len(Z)
    BY <1>1, <2>1
  <2> QED BY <1>2, <2>1, <2>2, <2>3 DEF Coming, Joined, Z
<1>6. ASSUME NEW a \in asked, \A p \in ps : p.id \notin {a[1], a[2]}
      PROVE  (There(a) \/ Coming(a) \/ Gone(a))'
  <2>1. \A l \in links : Joined(l, a) => l \notin Touching(ps)
    BY <1>6 DEF Joined, Touching
  <2>2. CASE There(a)
    <3>1. PICK l \in links : /\ Joined(l, a)
                             /\ \A k \in 1 .. n : requests[k] # <<"destroy", l.id>>
      BY <2>2 DEF There, n
    <3>2. \A k \in 1 .. Len(Z) : Z[k] # <<"destroy", l.id>>
      BY <1>4, <2>1, <3>1
    <3> QED BY <1>2, <3>1, <3>2 DEF There, Joined, Z
  <2>3. CASE Coming(a)
    <3>1. PICK k \in 1 .. n :
            /\ requests[k] = <<"create", a[1], a[2]>>
            /\ \A j \in k + 1 .. n : \A l \in links :
                 Joined(l, a) => requests[j] # <<"destroy", l.id>>
      BY <2>3 DEF Coming, n
    <3>2. ASSUME NEW j \in k + 1 .. Len(Z), NEW l \in links, Joined(l, a)
          PROVE  Z[j] # <<"destroy", l.id>>
      <4>1. j \in 1 .. Len(Z) /\ (j \in 1 .. n => j \in k + 1 .. n)
        BY <1>1, <3>1
      <4> QED BY <1>4, <2>1, <3>1, <3>2, <4>1
    <3>3. k \in 1 .. Len(Z) /\ Z[k] = <<"create", a[1], a[2]>>
      BY <1>1, <3>1
    <3> QED BY <1>2, <3>2, <3>3 DEF Coming, Joined, Z
  <2>4. CASE Gone(a)
    BY <1>2, <2>4 DEF Gone
  <2> QED BY <2>2, <2>3, <2>4 DEF KeptInv
<1> QED BY <1>2, <1>5, <1>6 DEF KeptInv

LEMMA CreateKept ==
  ASSUME PortsInv, LinksInv, KeptInv, Create
  PROVE  KeptInv'
<1> DEFINE n == Len(requests)
           Z == requests'
<1>1. /\ requests # << >> /\ requests' = Tail(requests)
      /\ UNCHANGED <<ports, asked>> /\ links \subseteq links'
      /\ \A l \in links' : l \in links \/ l.id = nextId
  BY CreateEffect
<1>2. /\ n \in Nat \ {0} /\ Len(Z) = n - 1 /\ Head(requests) = requests[1]
      /\ \A k \in 1 .. Len(Z) : Z[k] = requests[k + 1] /\ k + 1 \in 1 .. n
  BY <1>1, RequestsTail
<1> HIDE DEF Z
\* A link that is new is not asked to be destroyed.
<1>3. ASSUME NEW k \in 1 .. Len(Z), NEW l, l.id = nextId
      PROVE  Z[k] # <<"destroy", l.id>>
  <2>1. Z[k][2] \in 0 .. nextId - 1
    BY <1>2 DEF LinksInv
  <2>2. Z[k][2] # nextId
    BY <2>1 DEF PortsInv
  <2> QED BY <1>3, <2>2
<1>4. ASSUME NEW a \in asked PROVE (There(a) \/ Coming(a) \/ Gone(a))'
  <2>1. CASE There(a)
    <3>1. PICK l \in links : /\ Joined(l, a)
                             /\ \A k \in 1 .. n : requests[k] # <<"destroy", l.id>>
      BY <2>1 DEF There
    <3>2. \A k \in 1 .. Len(Z) : Z[k] # <<"destroy", l.id>>
      BY <1>2, <3>1
    <3> QED BY <1>1, <3>1, <3>2 DEF There, Joined, Z
  <2>2. CASE Gone(a)
    BY <1>1, <2>2 DEF Gone
  <2>3. ASSUME NEW k \in 1 .. n, k # 1, requests[k] = <<"create", a[1], a[2]>>,
               \A j \in k + 1 .. n : \A l \in links :
                 Joined(l, a) => requests[j] # <<"destroy", l.id>>
        PROVE  Coming(a)'
    <3>1. k - 1 \in 1 .. Len(Z) /\ Z[k - 1] = requests[k]
      BY <1>2, <2>3
    <3>2. ASSUME NEW j \in (k - 1) + 1 .. Len(Z), NEW l \in links', Joined(l, a)
          PROVE  Z[j] # <<"destroy", l.id>>
      <4>1. j \in 1 .. Len(Z) /\ j + 1 \in k + 1 .. n
        BY <1>2, <2>3
      <4>2. Z[j] = requests[j + 1]
        BY <1>2, <4>1
      <4> QED BY <1>1, <1>3, <2>3, <3>2, <4>1, <4>2
    <3> QED BY <2>3, <3>1, <3>2 DEF Coming, Joined, Z
  <2>4. ASSUME requests[1] = <<"create", a[1], a[2]>>,
               \A j \in 1 + 1 .. n : \A l \in links :
                 Joined(l, a) => requests[j] # <<"destroy", l.id>>
        PROVE  (There(a) \/ Gone(a))'
    <3>0. Head(requests)[2] = a[1] /\ Head(requests)[3] = a[2]
      BY <1>2, <2>4
    <3>1. CASE \E l \in links : Joined(l, a)
      <4>1. PICK l \in links : Joined(l, a)
        BY <3>1
      <4>2. \A k \in 1 .. Len(Z) : Z[k] # <<"destroy", l.id>>
        <5> TAKE k \in 1 .. Len(Z)
        <5>1. k + 1 \in 1 + 1 .. n /\ Z[k] = requests[k + 1]
          BY <1>2
        <5> QED BY <2>4, <4>1, <5>1
      <4> QED BY <1>1, <4>1, <4>2 DEF There, Joined, Z
    <3>2. ASSUME NEW l, l.id = nextId, links' = links \union {l},
                 l.out = Head(requests)[2], l.in = Head(requests)[3]
          PROVE  There(a)'
      <4>1. \A k \in 1 .. Len(Z) : Z[k] # <<"destroy", l.id>>
        BY <1>3, <3>2
      <4> QED BY <3>0, <3>2, <4>1 DEF There, Joined, Z
    <3>3. CASE \/ \A p \in ports : p.id # Head(requests)[2]
               \/ \A p \in ports : p.id # Head(requests)[3]
      BY <1>1, <3>0, <3>3 DEF Gone
    <3> QED BY <3>0, <3>1, <3>2, <3>3, CreateEffect DEF Joined
  <2>5. CASE Coming(a)
    BY <2>3, <2>4, <2>5 DEF Coming
  <2> QED BY <2>1, <2>2, <2>5 DEF KeptInv
<1> QED BY <1>1, <1>4 DEF KeptInv

LEMMA DestroyKept ==
  ASSUME LinksInv, KeptInv, Destroy
  PROVE  KeptInv'
<1> DEFINE n == Len(requests)
           Z == requests'
           x == Head(requests)[2]
<1>1. /\ requests # << >> /\ requests' = Tail(requests) /\ Head(requests)[1] = "destroy"
      /\ links' = {l \in links : l.id # x} /\ UNCHANGED <<ports, asked>>
  BY DEF Destroy, history
<1>2. /\ n \in Nat \ {0} /\ Len(Z) = n - 1 /\ Head(requests) = requests[1]
      /\ \A k \in 1 .. Len(Z) : Z[k] = requests[k + 1] /\ k + 1 \in 1 .. n
  BY <1>1, RequestsTail
<1>3. 1 \in 1 .. n /\ requests[1] = <<"destroy", x>>
  BY <1>1, <1>2, RequestKinds
<1> HIDE DEF Z, x
<1>4. ASSUME NEW a \in asked PROVE (There(a) \/ Coming(a) \/ Gone(a))'
  <2>1. CASE There(a)
    <3>1. PICK l \in links : /\ Joined(l, a)
                             /\ \A k \in 1 .. n : requests[k] # <<"destroy", l.id>>
      BY <2>1 DEF There
    <3>2. \A k \in 1 .. Len(Z) : Z[k] # <<"destroy", l.id>>
      BY <1>2, <3>1
    <3>3. l \in links'
      BY <1>1, <1>3, <3>1
    <3> QED BY <3>1, <3>2, <3>3 DEF There, Joined, Z
  <2>2. CASE Coming(a)
    <3>1. PICK k \in 1 .. n :
            /\ requests[k] = <<"create", a[1], a[2]>>
            /\ \A j \in k + 1 .. n : \A l \in links :
                 Joined(l, a) => requests[j] # <<"destroy", l.id>>
      BY <2>2 DEF Coming
    <3>2. k # 1
      BY <1>3, <3>1
    <3>3. k - 1 \in 1 .. Len(Z) /\ Z[k - 1] = requests[k]
      BY <1>2, <3>2
    <3>4. ASSUME NEW j \in (k - 1) + 1 .. Len(Z), NEW l \in links', Joined(l, a)
          PROVE  Z[j] # <<"destroy", l.id>>
      <4>1. j \in 1 .. Len(Z) /\ j + 1 \in k + 1 .. n
        BY <1>2, <3>1
      <4>2. Z[j] = requests[j + 1] /\ l \in links
        BY <1>1, <1>2, <4>1
      <4> QED BY <3>1, <3>4, <4>1, <4>2
    <3> QED BY <3>1, <3>3, <3>4 DEF Coming, Joined, Z
  <2>3. CASE Gone(a)
    BY <1>1, <2>3 DEF Gone
  <2> QED BY <2>1, <2>2, <2>3 DEF KeptInv
<1> QED BY <1>1, <1>4 DEF KeptInv

LEMMA AppearsKept ==
  ASSUME PortsInv, AskedInv, KeptInv, NEW name \in Names, PortAppears(name)
  PROVE  KeptInv'
<1> DEFINE q == [id |-> nextId, name |-> name]
<1>1. /\ ports' = ports \union {q} /\ q.id = nextId
      /\ UNCHANGED <<links, requests, asked>>
  BY DEF PortAppears, history
<1> HIDE DEF q
<1>2. \A a \in asked : q.id # a[1] /\ q.id # a[2]
  BY <1>1 DEF AskedInv, PortsInv
<1>3. \A a \in asked : Gone(a) => Gone(a)'
  BY <1>1, <1>2 DEF Gone
<1>4. \A a : There(a) => There(a)'
  BY <1>1 DEF There, Joined
<1>5. \A a : Coming(a) => Coming(a)'
  BY <1>1 DEF Coming, Joined
<1> QED BY <1>1, <1>3, <1>4, <1>5 DEF KeptInv

LEMMA DisappearsKept ==
  ASSUME PortsInv, KeptInv, NEW p \in ports, PortDisappears(p)
  PROVE  KeptInv'
<1>1. /\ ports' = ports \ {p} /\ links' = {l \in links : p.id \notin {l.out, l.in}}
      /\ UNCHANGED <<requests, asked>>
  BY DEF PortDisappears, history
<1>2. \A q \in ports' : q.id # p.id
  BY <1>1 DEF PortsInv
<1>3. \A a : p.id \in {a[1], a[2]} => Gone(a)'
  BY <1>2 DEF Gone
<1>4. \A a : Gone(a) => Gone(a)'
  BY <1>1 DEF Gone
<1>5. \A a : Coming(a) => Coming(a)'
  BY <1>1 DEF Coming, Joined
<1>6. ASSUME NEW a, There(a), p.id \notin {a[1], a[2]}
      PROVE  There(a)'
  <2>1. PICK l \in links : /\ Joined(l, a)
                           /\ \A k \in 1 .. Len(requests) : requests[k] # <<"destroy", l.id>>
    BY <1>6 DEF There
  <2>2. l \in links'
    BY <1>1, <1>6, <2>1 DEF Joined
  <2> QED BY <1>1, <2>1, <2>2 DEF There, Joined
<1> QED BY <1>1, <1>3, <1>4, <1>5, <1>6 DEF KeptInv

\* Actions that leave the server alone ask for no link: a port may be forgotten.
LEMMA CopyAsked ==
  ASSUME \/ \E p \in ports \ knownPorts : LearnPort(p)
         \/ \E p \in knownPorts \ ports : ForgetPort(p)
         \/ \E l \in links \ knownLinks : LearnLink(l)
         \/ \E l \in knownLinks \ links : ForgetLink(l)
         \/ \E key \in Keys : \E value \in ValuesOf(key) : SetMetadata(key, value)
         \/ UNCHANGED vars
  PROVE  asked' \subseteq asked
<1>1. CASE \/ \E p \in ports \ knownPorts : LearnPort(p)
           \/ \E p \in knownPorts \ ports : ForgetPort(p)
  BY <1>1 DEF LearnPort, ForgetPort, history
<1>2. CASE \/ \E l \in links \ knownLinks : LearnLink(l)
           \/ \E l \in knownLinks \ links : ForgetLink(l)
  BY <1>2 DEF LearnLink, ForgetLink, history
<1>3. CASE \/ \E key \in Keys : \E value \in ValuesOf(key) : SetMetadata(key, value)
           \/ UNCHANGED vars
  BY <1>3 DEF SetMetadata, vars, history
<1> QED BY <1>1, <1>2, <1>3

LEMMA KeptNext ==
  ASSUME KeysInv, PortsInv, LinksInv, AskedInv, KeptInv, [Next]_vars
  PROVE  KeptInv'
<1>1. CASE \E p \in appeared : PortAdded(p)
  BY <1>1, AddedStep, HookKept
<1>2. CASE MetadataChanged
  BY <1>2, ChangedStep, HookKept
<1>3. CASE Create
  BY <1>3, CreateKept
<1>4. CASE Destroy
  BY <1>4, DestroyKept
<1>5. CASE \E name \in Names : PortAppears(name)
  BY <1>5, AppearsKept
<1>6. CASE \E p \in ports : PortDisappears(p)
  BY <1>6, DisappearsKept
<1>7. CASE UNCHANGED <<ports, links, requests>> /\ asked' \subseteq asked
  BY <1>7 DEF KeptInv, There, Coming, Gone, Joined
<1> QED BY <1>1, <1>2, <1>3, <1>4, <1>5, <1>6, <1>7, CopyEffect, CopyAsked, NextIsStep DEF Step

-----------------------------------------------------------------------------
(* What the metadata give is asked for *)

\* When no later event of the key waits, its hook has been given its present value.
LEMMA PendingTail ==
  ASSUME KeysInv, changed # << >>, changed' = Tail(changed), NEW key
  PROVE  /\ Pending(key) => Pending(key)' \/ Head(changed)[1] = key
         /\ Head(changed)[1] = key /\ ~ Pending(key)' => Head(changed)[2] = metadata[key]
<1> DEFINE n == Len(changed)
           t == Tail(changed)
<1>1. /\ n \in Nat \ {0} /\ Len(t) = n - 1 /\ Head(changed) = changed[1]
      /\ \A k \in 1 .. Len(t) : t[k] = changed[k + 1] /\ k + 1 \in 1 .. n
  BY TailAt DEF KeysInv
<1> HIDE DEF t
<1>2. \A k \in 2 .. n : k - 1 \in 1 .. Len(t) /\ t[k - 1] = changed[k]
  <2> TAKE k \in 2 .. n
  <2>1. k - 1 \in 1 .. Len(t) /\ (k - 1) + 1 = k
    BY <1>1
  <2> QED BY <1>1, <2>1
<1>3. Pending(key)' <=> \E k \in 1 .. Len(t) : t[k][1] = key
  BY DEF Pending, t
<1>4. ASSUME Pending(key), changed[1][1] # key
      PROVE  Pending(key)'
  <2>1. PICK k \in 1 .. n : changed[k][1] = key
    BY <1>4 DEF Pending
  <2>2. k \in 2 .. n
    BY <1>4, <2>1
  <2> QED BY <1>2, <1>3, <2>1, <2>2
<1>5. ASSUME changed[1][1] = key, ~ Pending(key)'
      PROVE  changed[1][2] = metadata[key]
  <2>1. \A k \in 1 + 1 .. n : changed[k][1] # changed[1][1]
    BY <1>2, <1>3, <1>5
  <2>2. 1 \in 1 .. n
    BY <1>1
  <2> QED BY <1>5, <2>1, <2>2 DEF KeysInv
<1> QED BY <1>1, <1>4, <1>5

LEMMA PendingAppend ==
  ASSUME KeysInv, NEW key \in Keys, NEW value \in ValuesOf(key), SetMetadata(key, value)
  PROVE  /\ Pending(key)'
         /\ \A other \in Keys : other # key => metadata'[other] = metadata[other]
         /\ \A other : Pending(other) => Pending(other)'
<1> DEFINE e == <<key, value>>
           t == Append(changed, e)
<1>1. changed' = t /\ metadata' = [metadata EXCEPT ![key] = value] /\ e[1] = key
  BY DEF SetMetadata
<1>2. changed \in Seq(Events) /\ Len(changed) \in Nat /\ e \in Events
  <2>1. e \in {key} \X ValuesOf(key)
    OBVIOUS
  <2> QED BY <2>1, LenProperties DEF KeysInv, Events
<1> HIDE DEF e
<1>3. /\ Len(t) = Len(changed) + 1
      /\ \A k \in 1 .. Len(changed) : t[k] = changed[k]
      /\ t[Len(changed) + 1] = e
  BY <1>2, AppendProperties
<1> HIDE DEF t
<1>4. \A k \in 1 .. Len(changed) : k \in 1 .. Len(t) /\ t[k] = changed[k]
  BY <1>2, <1>3
<1>5. Len(changed) + 1 \in 1 .. Len(t)
  BY <1>2, <1>3
<1>6. \A other : Pending(other)' <=> \E k \in 1 .. Len(t) : t[k][1] = other
  BY <1>1 DEF Pending
<1>7. Pending(key)'
  BY <1>1, <1>3, <1>5, <1>6
<1>8. \A other : Pending(other) => Pending(other)'
  BY <1>4, <1>6 DEF Pending
<1>9. \A other \in Keys : other # key => metadata'[other] = metadata[other]
  BY <1>1 DEF KeysInv
<1> QED BY <1>7, <1>8, <1>9

LEMMA AddedAsked ==
  ASSUME KeysInv, PortsInv, AskedInv, NEW p \in appeared, PortAdded(p)
  PROVE  AskedInv'
<1> DEFINE N == AddedPairs(p)
<1>1. HookStep(create(N), N, {}) /\ appeared' = appeared \ {p} /\ UNCHANGED changed
  BY AddedStep
<1>2. /\ asked' = asked \union N /\ UNCHANGED <<knownPorts, metadata>>
      /\ \A a \in N : \E o, i \in knownPorts : a = <<o.id, i.id>>
  BY <1>1 DEF HookStep
<1>3. \A a \in asked' : \E o, i \in knownPorts' : a = <<o.id, i.id>>
  BY <1>2 DEF AskedInv
<1>4. ASSUME NEW key \in Keys, NEW o \in knownPorts, NEW i \in knownPorts,
             key[1] = "channel_port", Joins(o, i, key, metadata[key])
      PROVE  \/ o \in appeared' \/ i \in appeared' \/ Pending(key)
             \/ <<o.id, i.id>> \in asked'
  <2>1. CASE p \in {o, i}
    <3>1. <<o.id, i.id>> \in N
      BY <1>4, <2>1, AddedInputs
    <3> QED BY <1>2, <3>1
  <2>2. CASE p \notin {o, i}
    BY <1>1, <1>2, <1>4, <2>2 DEF AskedInv
  <2> QED BY <2>1, <2>2
<1>5. \A key : Pending(key)' <=> Pending(key)
  BY <1>1 DEF Pending
<1> QED BY <1>2, <1>3, <1>4, <1>5 DEF AskedInv, Joins

LEMMA ChangedAsked ==
  ASSUME KeysInv, PortsInv, LinksInv, AskedInv, MetadataChanged
  PROVE  AskedInv'
<1>0. PICK key \in Keys : \E value \in ValuesOf(key) :
        /\ HookStep(Relinks(key, value), Given(GovernedPorts(key), value), GovernedPorts(key))
        /\ changed # << >> /\ Head(changed)[1] = key /\ Head(changed)[2] = value
        /\ changed' = Tail(changed) /\ appeared' = appeared
  BY ChangedStep
<1>1. PICK value \in ValuesOf(key) :
        /\ HookStep(Relinks(key, value), Given(GovernedPorts(key), value), GovernedPorts(key))
        /\ changed # << >> /\ Head(changed)[1] = key /\ Head(changed)[2] = value
        /\ changed' = Tail(changed) /\ appeared' = appeared
  BY <1>0
<1> DEFINE ps == GovernedPorts(key)
           N == Given(ps, value)
<1>2. /\ asked' = {a \in asked : \A p \in ps : p.id \notin {a[1], a[2]}} \union N
      /\ UNCHANGED <<knownPorts, metadata>> /\ ps \subseteq knownPorts
      /\ \A a \in N : \E o, i \in knownPorts : a = <<o.id, i.id>>
  BY <1>1 DEF HookStep
<1>3. \A a \in asked' : \E o, i \in knownPorts' : a = <<o.id, i.id>>
  BY <1>2 DEF AskedInv
<1>4. ASSUME NEW other \in Keys, NEW o \in knownPorts, NEW i \in knownPorts,
             other[1] = "channel_port", Joins(o, i, other, metadata[other])
      PROVE  \/ o \in appeared' \/ i \in appeared' \/ Pending(other)'
             \/ <<o.id, i.id>> \in asked'
  <2>1. i.name \in Governed(other) /\ Kind(o.name) = "device"
    BY <1>4, JoinsKinds
  <2>2. CASE other = key /\ ~ Pending(other)'
    <3>1. value = metadata[key]
      BY <1>1, <2>2, PendingTail
    <3>2. i \in ps
      BY <2>1, <2>2, GovernedPort
    <3>3. <<o.id, i.id>> \in N
      BY <1>4, <2>2, <3>1, <3>2, GivenJoin
    <3> QED BY <1>2, <3>3
  <2>3. CASE other # key
    <3>1. i \notin ps /\ o \notin ps
      BY <2>1, <2>3, GovernedPort, GovernedOnce, GovernedKinds
    <3>2. \A p \in ps : p.id # o.id /\ p.id # i.id
      BY <1>2, <3>1 DEF PortsInv
    <3>3. Pending(other) => Pending(other)'
      BY <1>1, <2>3, PendingTail
    <3>4. <<o.id, i.id>> \in asked => <<o.id, i.id>> \in asked'
      BY <1>2, <3>2
    <3> QED BY <1>1, <1>4, <3>3, <3>4 DEF AskedInv
  <2> QED BY <2>2, <2>3
<1> HIDE DEF ps, N
<1> QED BY <1>2, <1>3, <1>4 DEF AskedInv, Joins

LEMMA LearnAsked ==
  ASSUME PortsInv, AskedInv, NEW p \in ports \ knownPorts, LearnPort(p)
  PROVE  AskedInv'
<1>1. /\ knownPorts' = knownPorts \union {p} /\ appeared' = appeared \union {p}
      /\ UNCHANGED <<metadata, changed, asked>>
  BY DEF LearnPort, history
<1>2. \A a \in asked' : \E o, i \in knownPorts' : a = <<o.id, i.id>>
  BY <1>1 DEF AskedInv
<1>3. \A key : Pending(key)' <=> Pending(key)
  BY <1>1 DEF Pending
<1>4. ASSUME NEW key \in Keys, NEW o \in knownPorts', NEW i \in knownPorts',
             key[1] = "channel_port", Joins(o, i, key, metadata[key])
      PROVE  o \in appeared' \/ i \in appeared' \/ Pending(key) \/ <<o.id, i.id>> \in asked
  BY <1>1, <1>4 DEF AskedInv
<1> QED BY <1>1, <1>2, <1>3, <1>4 DEF AskedInv, Joins

LEMMA ForgetAsked ==
  ASSUME PortsInv, AskedInv, NEW p \in knownPorts \ ports, ForgetPort(p)
  PROVE  AskedInv'
<1>1. /\ knownPorts' = knownPorts \ {p} /\ appeared' = appeared \ {p}
      /\ asked' = {a \in asked : p.id \notin {a[1], a[2]}}
      /\ UNCHANGED <<metadata, changed>>
  BY DEF ForgetPort
<1>2. \A q \in knownPorts' : q \in knownPorts /\ q # p /\ q.id # p.id
  BY <1>1 DEF PortsInv
<1>3. ASSUME NEW a \in asked'
      PROVE  \E o, i \in knownPorts' : a = <<o.id, i.id>>
  <2>1. PICK o \in knownPorts, i \in knownPorts : a = <<o.id, i.id>>
    BY <1>1 DEF AskedInv
  <2>2. o # p /\ i # p
    BY <1>1, <2>1
  <2> QED BY <1>1, <2>1, <2>2
<1>4. \A key : Pending(key)' <=> Pending(key)
  BY <1>1 DEF Pending
<1>5. ASSUME NEW key \in Keys, NEW o \in knownPorts', NEW i \in knownPorts',
             key[1] = "channel_port", Joins(o, i, key, metadata[key])
      PROVE  o \in appeared' \/ i \in appeared' \/ Pending(key) \/ <<o.id, i.id>> \in asked'
  <2>1. o \in appeared \/ i \in appeared \/ Pending(key) \/ <<o.id, i.id>> \in asked
    BY <1>2, <1>5 DEF AskedInv
  <2>2. o.id # p.id /\ i.id # p.id /\ o # p /\ i # p
    BY <1>2
  <2> QED BY <1>1, <2>1, <2>2
<1> QED BY <1>1, <1>3, <1>4, <1>5 DEF AskedInv, Joins

LEMMA SetAsked ==
  ASSUME KeysInv, AskedInv, NEW key \in Keys, NEW value \in ValuesOf(key), SetMetadata(key, value)
  PROVE  AskedInv'
<1>1. UNCHANGED <<knownPorts, appeared, asked>>
  BY DEF SetMetadata, copies, history
<1>2. /\ Pending(key)'
      /\ \A other \in Keys : other # key => metadata'[other] = metadata[other]
      /\ \A other : Pending(other) => Pending(other)'
  BY PendingAppend
<1>3. ASSUME NEW other \in Keys, NEW o \in knownPorts, NEW i \in knownPorts,
             other[1] = "channel_port", Joins(o, i, other, metadata'[other])
      PROVE  o \in appeared \/ i \in appeared \/ Pending(other)' \/ <<o.id, i.id>> \in asked
  <2>1. CASE other = key
    BY <1>2, <2>1
  <2>2. CASE other # key
    <3>1. Joins(o, i, other, metadata[other])
      BY <1>2, <1>3, <2>2
    <3> QED BY <1>2, <1>3, <3>1 DEF AskedInv
  <2> QED BY <2>1, <2>2
<1>4. \A a \in asked' : \E o, i \in knownPorts' : a = <<o.id, i.id>>
  BY <1>1 DEF AskedInv
<1> QED BY <1>1, <1>3, <1>4 DEF AskedInv, Joins

LEMMA AskedNext ==
  ASSUME KeysInv, PortsInv, LinksInv, AskedInv, [Next]_vars
  PROVE  AskedInv'
<1>1. CASE \E p \in appeared : PortAdded(p)
  BY <1>1, AddedAsked
<1>2. CASE MetadataChanged
  BY <1>2, ChangedAsked
<1>3. CASE \E p \in ports \ knownPorts : LearnPort(p)
  BY <1>3, LearnAsked
<1>4. CASE \E p \in knownPorts \ ports : ForgetPort(p)
  BY <1>4, ForgetAsked
<1>5. CASE \E key \in Keys : \E value \in ValuesOf(key) : SetMetadata(key, value)
  BY <1>5, SetAsked
<1>6. CASE UNCHANGED <<metadata, knownPorts, appeared, changed, asked>>
  BY <1>6 DEF AskedInv, Joins, Pending
<1>7. CASE Create \/ Destroy
  BY <1>6, <1>7 DEF Create, Destroy, copies, events, history
<1>8. CASE \/ \E name \in Names : PortAppears(name)
           \/ \E p \in ports : PortDisappears(p)
  BY <1>6, <1>8 DEF PortAppears, PortDisappears, copies, events, history
<1>9. CASE \/ \E l \in links \ knownLinks : LearnLink(l)
           \/ \E l \in knownLinks \ links : ForgetLink(l)
           \/ UNCHANGED vars
  BY <1>6, <1>9 DEF LearnLink, ForgetLink, vars, copies, events, history
<1> QED BY <1>1, <1>2, <1>3, <1>4, <1>5, <1>7, <1>8, <1>9, NextIsStep DEF Step

-----------------------------------------------------------------------------
(* Which links are stray *)

\* A link that a key gives is right for the ports at both of its ends.
LEMMA JoinRight ==
  ASSUME PortsInv, NEW key \in Keys, NEW o \in knownPorts, NEW i \in knownPorts,
         Joins(o, i, key, metadata[key])
  PROVE  Right(o.id, i.id)
<1>1. \A q \in ports : (q.id = o.id => q = o) /\ (q.id = i.id => q = i)
  BY DEF PortsInv
<1>2. \A other \in Keys : \A p \in {o, i} : p.name \in Governed(other) =>
        Joins(o, i, other, metadata[other])
  BY JoinsEnd
<1> QED BY <1>1, <1>2 DEF Right

LEMMA AddedStray ==
  ASSUME KeysInv, PortsInv, LinksInv, StrayInv, NEW p \in appeared, PortAdded(p)
  PROVE  StrayInv'
<1> DEFINE N == AddedPairs(p)
           X == create(N)
<1>1. HookStep(X, N, {}) /\ UNCHANGED <<changed, overtaken>>
  BY AddedStep
<1>2. UNCHANGED <<ports, links, metadata>>
  BY <1>1 DEF HookStep
<1>3. \A out, in : Right(out, in)' <=> Right(out, in)
  BY <1>1, <1>2 DEF Right, Pending, Joins
<1>4. ASSUME NEW a \in N PROVE Right(a[1], a[2])
  <2>1. p \in knownPorts
    BY DEF PortsInv
  <2>2. PICK key \in Keys : \E o, i \in knownPorts :
               a = <<o.id, i.id>> /\ Joins(o, i, key, metadata[key])
    BY <2>1, AddedJoin
  <2> QED BY <2>2, JoinRight
<1> HIDE DEF N, X
<1>5. ASSUME NEW k \in 1 .. Len(requests'), requests'[k][1] = "create"
      PROVE  Right(requests'[k][2], requests'[k][3])
  <2>1. CASE k \in 1 .. Len(requests) /\ requests'[k] = requests[k]
    BY <1>5, <2>1 DEF StrayInv
  <2>2. CASE \E a \in N : requests'[k] = <<"create", a[1], a[2]>>
    BY <1>4, <2>2
  <2>3. CASE \E m \in Touching({}) : requests'[k] = <<"destroy", m.id>>
    BY <1>5, <2>3
  <2> QED BY <1>1, <2>1, <2>2, <2>3, HookRequests
<1>6. \A k \in 1 .. Len(requests) : k \in 1 .. Len(requests') /\ requests'[k] = requests[k]
  BY <1>1, HookRequests
<1>7. ASSUME NEW l \in links, \A k \in 1 .. Len(requests') : requests'[k] # <<"destroy", l.id>>
      PROVE  Right(l.out, l.in)
  BY <1>6, <1>7 DEF StrayInv
<1> QED BY <1>2, <1>3, <1>5, <1>7 DEF StrayInv

(***************************************************************************)
(* The hook of a key has run.  A link that was right before, and at whose  *)
(* governed ports it is under way, is right after: else the port is        *)
(* overtaken now.                                                          *)
(***************************************************************************)
LEMMA StillRight ==
  ASSUME KeysInv, PortsInv, NEW key \in Keys, NEW value \in ValuesOf(key),
         changed # << >>, Head(changed)[1] = key, Head(changed)[2] = value,
         changed' = Tail(changed), UNCHANGED <<ports, metadata>>,
         overtaken' = (overtaken \ {p.id : p \in GovernedPorts(key)})
           \union {p.id : p \in {p \in GovernedPorts(key) : UnderWay(p) \ NewPairs(p, value) # {}}},
         NEW out, NEW in, Right(out, in),
         \A p \in ports : p.id \in {out, in} => p \in knownPorts,
         \A p \in GovernedPorts(key) : p.id \in {out, in} => <<out, in>> \in UnderWay(p)
  PROVE  Right(out, in)'
<1> DEFINE ps == GovernedPorts(key)
<1>1. ASSUME NEW o \in ports, NEW i \in ports, o.id = out, i.id = in,
             NEW other \in Keys, NEW p \in {o, i}, p.name \in Governed(other),
             ~ Pending(other)', p.id \notin overtaken'
      PROVE  Joins(o, i, other, metadata[other])
  <2>1. p \in knownPorts /\ o \in knownPorts /\ i \in knownPorts /\ p.id \in {out, in}
    BY <1>1
  <2>2. Pending(other) \/ p.id \in overtaken \/ Joins(o, i, other, metadata[other])
    BY <1>1 DEF Right
  <2>3. CASE other = key
    <3>1. p \in ps
      BY <1>1, <2>1, <2>3, GovernedPort
    <3>2. metadata[key] = value
      BY <1>1, <2>3, PendingTail
    <3>3. UnderWay(p) \subseteq NewPairs(p, value)
      BY <1>1, <3>1
    <3>4. <<out, in>> \in NewPairs(p, value)
      BY <2>1, <3>1, <3>3
    <3>5. PICK q \in knownPorts, r \in knownPorts :
            <<out, in>> = <<q.id, r.id>> /\ Joins(q, r, key, value)
      BY <1>1, <2>1, <2>3, <3>4, NewPairsJoin
    <3>6. q = o /\ r = i
      BY <1>1, <2>1, <3>5 DEF PortsInv
    <3> QED BY <2>3, <3>2, <3>5, <3>6
  <2>4. CASE other # key
    <3>1. p \notin ps
      BY <1>1, <2>4, GovernedPort, GovernedOnce
    <3>2. \A q \in ps : q \in knownPorts
      BY GovernedPort
    <3>3. \A q \in ps : q.id # p.id
      BY <2>1, <3>1, <3>2 DEF PortsInv
    <3>4. p.id \notin overtaken
      BY <1>1, <3>3
    <3>5. ~ Pending(other)
      BY <1>1, <2>4, PendingTail
    <3> QED BY <2>2, <3>4, <3>5
  <2> QED BY <2>3, <2>4
<1> QED BY <1>1 DEF Right, Joins

LEMMA ChangedStray ==
  ASSUME KeysInv, PortsInv, LinksInv, NewPortsInv, StrayInv, MetadataChanged
  PROVE  StrayInv'
<1>1. PICK key \in Keys : \E value \in ValuesOf(key) :
        LET ps == GovernedPorts(key)
        IN  /\ HookStep(Relinks(key, value), Given(ps, value), ps)
            /\ changed # << >> /\ Head(changed)[1] = key /\ Head(changed)[2] = value
            /\ changed' = Tail(changed) /\ appeared' = appeared
            /\ overtaken' = (overtaken \ {p.id : p \in ps})
                 \union {p.id : p \in {p \in ps : UnderWay(p) \ NewPairs(p, value) # {}}}
  BY ChangedStep
<1>2. PICK value \in ValuesOf(key) :
        /\ HookStep(Relinks(key, value), Given(GovernedPorts(key), value), GovernedPorts(key))
        /\ changed # << >> /\ Head(changed)[1] = key /\ Head(changed)[2] = value
        /\ changed' = Tail(changed)
        /\ overtaken' = (overtaken \ {p.id : p \in GovernedPorts(key)})
             \union {p.id : p \in {p \in GovernedPorts(key) : UnderWay(p) \ NewPairs(p, value) # {}}}
  BY <1>1
<1> DEFINE ps == GovernedPorts(key)
           N == Given(ps, value)
<1>3. UNCHANGED <<ports, links, metadata, knownPorts, knownLinks>>
  BY <1>2 DEF HookStep
<1>4. ASSUME NEW out, NEW in, Right(out, in),
             \A p \in ports : p.id \in {out, in} => p \in knownPorts,
             \A p \in ps : p.id \in {out, in} => <<out, in>> \in UnderWay(p)
      PROVE  Right(out, in)'
  BY <1>2, <1>3, <1>4, StillRight
\* What was asked for before.
<1>5. ASSUME NEW k \in 1 .. Len(requests), requests[k][1] = "create",
             NEW out, NEW in, out = requests[k][2], in = requests[k][3]
      PROVE  Right(out, in)'
  <2>1. Right(out, in)
    BY <1>5 DEF StrayInv
  <2>2. \A p \in ports : p.id \in {out, in} => p \in knownPorts
    BY <1>5 DEF NewPortsInv
  <2>3. requests[k] \in ToSet(requests)
    BY LenProperties DEF ToSet, LinksInv
  <2>4. \A p \in ps : p.id \in {out, in} => <<out, in>> \in UnderWay(p)
    BY <1>5, <2>3 DEF UnderWay
  <2> QED BY <1>4, <2>1, <2>2, <2>4
\* What is asked for now.
<1>6. ASSUME NEW a \in N
      PROVE  Right(a[1], a[2])'
  <2>1. PICK o \in knownPorts, i \in knownPorts : a = <<o.id, i.id>> /\ Joins(o, i, key, value)
    <3>1. ps \subseteq GovernedPorts(key)
      OBVIOUS
    <3> QED BY <3>1, GivenJoin
  <2>2. ASSUME NEW q \in ports, NEW r \in ports, q.id = o.id, r.id = i.id,
               NEW other \in Keys, NEW p \in {q, r}, p.name \in Governed(other),
               ~ Pending(other)'
        PROVE  Joins(q, r, other, metadata[other])
    <3>1. q = o /\ r = i
      BY <2>2 DEF PortsInv
    <3>2. other = key
      BY <2>1, <2>2, <3>1, JoinsEnd
    <3>3. metadata[key] = value
      BY <1>2, <2>2, <3>2, PendingTail
    <3> QED BY <2>1, <3>1, <3>2, <3>3
  <2>3. a[1] = o.id /\ a[2] = i.id
    BY <2>1
  <2> QED BY <1>3, <2>2, <2>3 DEF Right, Joins
<1> HIDE DEF N
<1>7. ASSUME NEW k \in 1 .. Len(requests'), requests'[k][1] = "create"
      PROVE  Right(requests[k][2], requests[k][3])'
  <2>1. CASE k \in 1 .. Len(requests) /\ requests'[k] = requests[k]
    BY <1>5, <1>7, <2>1
  <2>2. CASE \E a \in N : requests'[k] = <<"create", a[1], a[2]>>
    BY <1>6, <2>2
  <2>3. CASE \E m \in Touching(ps) : requests'[k] = <<"destroy", m.id>>
    BY <1>7, <2>3
  <2> QED BY <1>2, <2>1, <2>2, <2>3, HookRequests DEF N
\* A link that stays: the copy does not show it if it is at a port of the key.
<1>8. ASSUME NEW l \in links, \A k \in 1 .. Len(requests') : requests'[k] # <<"destroy", l.id>>
      PROVE  Right(l.out, l.in)'
  <2>1. \A k \in 1 .. Len(requests) : k \in 1 .. Len(requests') /\ requests'[k] = requests[k]
    BY <1>2, HookRequests
  <2>2. Right(l.out, l.in)
    BY <1>8, <2>1 DEF StrayInv
  <2>3. \A p \in ports : p.id \in {l.out, l.in} => p \in knownPorts
    BY DEF NewPortsInv
  <2>4. l \notin Touching(ps)
    BY <1>2, <1>8, HookRequests
  <2>5. \A p \in ps : p.id \in {l.out, l.in} => <<l.out, l.in>> \in UnderWay(p)
    BY <2>4 DEF Touching, UnderWay
  <2> HIDE DEF ps
  <2> QED BY <1>4, <2>2, <2>3, <2>5
<1> QED BY <1>3, <1>7, <1>8 DEF StrayInv

LEMMA CreateStray ==
  ASSUME LinksInv, StrayInv, Create
  PROVE  StrayInv'
<1>1. /\ requests # << >> /\ requests' = Tail(requests) /\ Head(requests)[1] = "create"
      /\ UNCHANGED <<metadata, ports, changed, overtaken>>
      /\ \A l \in links' : \/ l \in links
                           \/ l.out = Head(requests)[2] /\ l.in = Head(requests)[3]
  BY CreateEffect
<1>2. /\ Len(requests) \in Nat \ {0} /\ Head(requests) = requests[1]
      /\ \A k \in 1 .. Len(requests') : requests'[k] = requests[k + 1] /\ k + 1 \in 1 .. Len(requests)
  BY <1>1, RequestsTail
<1>3. \A out, in : Right(out, in)' <=> Right(out, in)
  BY <1>1 DEF Right, Pending, Joins
<1>4. \A k \in 1 .. Len(requests') :
        requests'[k][1] = "create" => Right(requests'[k][2], requests'[k][3])
  BY <1>2 DEF StrayInv
<1>5. Right(Head(requests)[2], Head(requests)[3])
  <2>1. 1 \in 1 .. Len(requests) /\ requests[1][1] = "create"
    BY <1>1, <1>2
  <2> QED BY <1>2, <2>1 DEF StrayInv
<1>6. ASSUME NEW l \in links', \A k \in 1 .. Len(requests') : requests'[k] # <<"destroy", l.id>>
      PROVE  Right(l.out, l.in)
  <2>1. CASE l \in links
    <3>1. ASSUME NEW k \in 1 .. Len(requests)
          PROVE  requests[k] # <<"destroy", l.id>>
      <4>1. CASE k = 1
        BY <1>1, <1>2, <4>1
      <4>2. CASE k # 1
        <5>1. k - 1 \in 1 .. Len(requests') /\ (k - 1) + 1 = k
          BY <1>1, <1>2, <4>2, RequestsTail
        <5> QED BY <1>2, <1>6, <5>1
      <4> QED BY <4>1, <4>2
    <3> QED BY <2>1, <3>1 DEF StrayInv
  <2>2. CASE l.out = Head(requests)[2] /\ l.in = Head(requests)[3]
    BY <1>5, <2>2
  <2> QED BY <1>1, <2>1, <2>2
<1> QED BY <1>3, <1>4, <1>6 DEF StrayInv

LEMMA DestroyStray ==
  ASSUME LinksInv, StrayInv, Destroy
  PROVE  StrayInv'
<1> DEFINE x == Head(requests)[2]
<1>1. /\ requests # << >> /\ requests' = Tail(requests) /\ Head(requests)[1] = "destroy"
      /\ links' = {l \in links : l.id # x}
      /\ UNCHANGED <<metadata, ports, changed, overtaken>>
  BY DEF Destroy, events, history
<1>2. /\ Len(requests) \in Nat \ {0} /\ Head(requests) = requests[1]
      /\ Len(requests') = Len(requests) - 1
      /\ \A k \in 1 .. Len(requests') : requests'[k] = requests[k + 1] /\ k + 1 \in 1 .. Len(requests)
  BY <1>1, RequestsTail
<1>3. \A out, in : Right(out, in)' <=> Right(out, in)
  BY <1>1 DEF Right, Pending, Joins
<1>4. \A k \in 1 .. Len(requests') :
        requests'[k][1] = "create" => Right(requests'[k][2], requests'[k][3])
  BY <1>2 DEF StrayInv
<1>5. ASSUME NEW l \in links', \A k \in 1 .. Len(requests') : requests'[k] # <<"destroy", l.id>>
      PROVE  Right(l.out, l.in)
  <2>1. l \in links /\ l.id # x
    BY <1>1
  <2>2. ASSUME NEW k \in 1 .. Len(requests)
        PROVE  requests[k] # <<"destroy", l.id>>
    <3>1. CASE k = 1
      BY <1>2, <2>1, <3>1
    <3>2. CASE k # 1
      <4>1. k - 1 \in 1 .. Len(requests') /\ (k - 1) + 1 = k
        BY <1>2, <3>2
      <4> QED BY <1>2, <1>5, <4>1
    <3> QED BY <3>1, <3>2
  <2> QED BY <2>1, <2>2 DEF StrayInv
<1> QED BY <1>3, <1>4, <1>5 DEF StrayInv

LEMMA AppearsStray ==
  ASSUME PortsInv, LinksInv, EndsInv, StrayInv, NEW name \in Names, PortAppears(name)
  PROVE  StrayInv'
<1> DEFINE q == [id |-> nextId, name |-> name]
<1>1. /\ ports' = ports \union {q} /\ q.id = nextId
      /\ UNCHANGED <<links, requests, metadata, changed, overtaken>>
  BY DEF PortAppears, events, history
<1> HIDE DEF q
<1>2. ASSUME NEW out, NEW in, Right(out, in), out # nextId, in # nextId
      PROVE  Right(out, in)'
  <2>1. \A p \in ports' : p.id \in {out, in} => p \in ports
    BY <1>1, <1>2
  <2> QED BY <1>1, <1>2, <2>1 DEF Right, Pending, Joins
<1>3. \A n \in 0 .. nextId - 1 : n # nextId
  BY DEF PortsInv
<1>4. ASSUME NEW k \in 1 .. Len(requests), requests[k][1] = "create",
             NEW out, NEW in, out = requests[k][2], in = requests[k][3]
      PROVE  Right(out, in)'
  <2>1. Right(out, in) /\ out \in 0 .. nextId - 1 /\ in \in 0 .. nextId - 1
    BY <1>4 DEF StrayInv, LinksInv
  <2> QED BY <1>2, <1>3, <2>1
<1>5. ASSUME NEW l \in links, \A k \in 1 .. Len(requests) : requests[k] # <<"destroy", l.id>>
      PROVE  Right(l.out, l.in)'
  <2>1. Right(l.out, l.in)
    BY <1>5 DEF StrayInv
  <2>2. l.out \in 0 .. nextId - 1 /\ l.in \in 0 .. nextId - 1
    BY DEF EndsInv, PortsInv
  <2> QED BY <1>2, <1>3, <2>1, <2>2
<1>6. \A k \in 1 .. Len(requests) :
        requests[k][1] = "create" => Right(requests[k][2], requests[k][3])'
  BY <1>1, <1>4
<1> QED BY <1>1, <1>5, <1>6 DEF StrayInv

\* Links that were there and right are right, and nothing more is asked for.
LEMMA FewerStray ==
  ASSUME StrayInv, links' \subseteq links, requests' = requests,
         \A out, in : Right(out, in) => Right(out, in)'
  PROVE  StrayInv'
<1>1. ASSUME NEW k \in 1 .. Len(requests'), requests'[k][1] = "create"
      PROVE  Right(requests[k][2], requests[k][3])'
  <2>1. \A out, in : out = requests[k][2] /\ in = requests[k][3] => Right(out, in)'
    BY <1>1 DEF StrayInv
  <2> QED BY <2>1
<1>2. ASSUME NEW l \in links', \A k \in 1 .. Len(requests') : requests'[k] # <<"destroy", l.id>>
      PROVE  Right(l.out, l.in)'
  BY <1>2 DEF StrayInv
<1> QED BY <1>1, <1>2 DEF StrayInv

LEMMA StrayNext ==
  ASSUME KeysInv, PortsInv, LinksInv, EndsInv, NewPortsInv, StrayInv, [Next]_vars
  PROVE  StrayInv'
<1>1. CASE \E p \in appeared : PortAdded(p)
  BY <1>1, AddedStray
<1>2. CASE MetadataChanged
  BY <1>2, ChangedStray
<1>3. CASE Create
  BY <1>3, CreateStray
<1>4. CASE Destroy
  BY <1>4, DestroyStray
<1>5. CASE \E name \in Names : PortAppears(name)
  BY <1>5, AppearsStray
<1>6. ASSUME links' \subseteq links, ports' \subseteq ports,
             UNCHANGED <<requests, metadata, changed, overtaken>>
      PROVE  StrayInv'
  <2>1. \A out, in : Right(out, in) => Right(out, in)'
    BY <1>6 DEF Right, Pending, Joins
  <2> QED BY <1>6, <2>1, FewerStray
<1>7. CASE \E p \in ports : PortDisappears(p)
  BY <1>6, <1>7 DEF PortDisappears, events, history
<1>8. CASE \E p \in ports \ knownPorts : LearnPort(p)
  BY <1>6, <1>8 DEF LearnPort, server, history
<1>9. CASE \E p \in knownPorts \ ports : ForgetPort(p)
  <2>1. PICK p \in knownPorts \ ports : ForgetPort(p)
    BY <1>9
  <2>2. /\ overtaken' = overtaken \ {p.id}
        /\ UNCHANGED <<ports, links, requests, metadata, changed>>
    BY <2>1 DEF ForgetPort, server
  <2>3. \A q \in ports : q.id # p.id
    BY <2>1 DEF PortsInv
  <2>4. \A out, in : Right(out, in) => Right(out, in)'
    BY <2>2, <2>3 DEF Right, Pending, Joins
  <2> QED BY <2>2, <2>4, FewerStray
<1>10. CASE \/ \E l \in links \ knownLinks : LearnLink(l)
            \/ \E l \in knownLinks \ links : ForgetLink(l)
            \/ UNCHANGED vars
  BY <1>6, <1>10 DEF LearnLink, ForgetLink, vars, server, events, history
<1>11. CASE \E key \in Keys : \E value \in ValuesOf(key) : SetMetadata(key, value)
  <2>1. PICK key \in Keys : \E value \in ValuesOf(key) : SetMetadata(key, value)
    BY <1>11
  <2>2. PICK value \in ValuesOf(key) : SetMetadata(key, value)
    BY <2>1
  <2>3. UNCHANGED <<ports, links, requests, overtaken>>
    BY <2>2 DEF SetMetadata, server, history
  <2>4. /\ Pending(key)'
        /\ \A other \in Keys : other # key => metadata'[other] = metadata[other]
        /\ \A other : Pending(other) => Pending(other)'
    BY <2>2, PendingAppend
  <2>5. ASSUME NEW out, NEW in, Right(out, in),
               NEW o \in ports, NEW i \in ports, o.id = out, i.id = in,
               NEW other \in Keys, NEW p \in {o, i}, p.name \in Governed(other)
        PROVE  Pending(other)' \/ p.id \in overtaken \/ Joins(o, i, other, metadata'[other])
    <3>1. Pending(other) \/ p.id \in overtaken \/ Joins(o, i, other, metadata[other])
      BY <2>5 DEF Right
    <3> QED BY <2>4, <3>1
  <2>6. \A out, in : Right(out, in) => Right(out, in)'
    BY <2>3, <2>5 DEF Right, Joins
  <2> QED BY <2>3, <2>6, FewerStray
<1> QED BY <1>1, <1>2, <1>3, <1>4, <1>5, <1>7, <1>8, <1>9, <1>10, <1>11, NextIsStep DEF Step

-----------------------------------------------------------------------------
(* The invariants *)

IInv == /\ KeysInv /\ PortsInv /\ LinksInv /\ EndsInv /\ NewPortsInv
        /\ AskedInv /\ KeptInv /\ StrayInv

LEMMA InitIInv == Init => IInv
<1> SUFFICES ASSUME Init PROVE IInv
  OBVIOUS
<1>1. /\ metadata = [key \in Keys |-> Unset]
      /\ ports = {} /\ links = {} /\ nextId = 0 /\ requests = << >>
      /\ knownPorts = {} /\ knownLinks = {} /\ appeared = {} /\ changed = << >>
      /\ changes = 0 /\ asked = {} /\ overtaken = {}
  BY DEF Init
<1>2. IsFiniteSet({})
  BY FS_EmptySet
<1>3. KeysInv
  BY <1>1, EmptySeq, ConnectionsAssumption DEF KeysInv
<1>4. PortsInv
  BY <1>1, <1>2 DEF PortsInv
<1>5. LinksInv
  BY <1>1, <1>2, EmptySeq DEF LinksInv
<1>6. EndsInv /\ NewPortsInv
  BY <1>1, EmptySeq DEF EndsInv, NewPortsInv
<1>7. AskedInv /\ KeptInv
  BY <1>1 DEF AskedInv, KeptInv
<1>8. StrayInv
  BY <1>1, EmptySeq DEF StrayInv
<1> QED BY <1>3, <1>4, <1>5, <1>6, <1>7, <1>8 DEF IInv

LEMMA NextIInv == IInv /\ [Next]_vars => IInv'
<1> SUFFICES ASSUME IInv, [Next]_vars PROVE IInv'
  OBVIOUS
<1>1. /\ KeysInv /\ PortsInv /\ LinksInv /\ EndsInv /\ NewPortsInv
      /\ AskedInv /\ KeptInv /\ StrayInv
  BY DEF IInv
<1>2. KeysInv' /\ PortsInv' /\ LinksInv'
  BY <1>1, KeysNext, PortsNext, LinksNext
<1>3. EndsInv' /\ NewPortsInv'
  BY <1>1, EndsNext
<1>4. AskedInv' /\ KeptInv' /\ StrayInv'
  BY <1>1, AskedNext, KeptNext, StrayNext
<1> QED BY <1>2, <1>3, <1>4 DEF IInv

LEMMA IInvAlways == Spec => []IInv
BY InitIInv, NextIInv, PTL DEF Spec

LEMMA IInvTypes == IInv => TypeOK
<1> SUFFICES ASSUME IInv PROVE TypeOK
  OBVIOUS
<1>1. KeysInv /\ PortsInv /\ EndsInv
  BY DEF IInv
<1>2. ASSUME NEW c \in ToSet(changed)
      PROVE  c[1] \in Keys /\ c[2] \in ValuesOf(c[1])
  <2>1. c \in Events
    BY <1>1, ElementOfSeq, LenProperties DEF KeysInv, ToSet
  <2>2. PICK key \in Keys : c \in {key} \X ValuesOf(key)
    BY <2>1 DEF Events
  <2>3. c[1] = key /\ c[2] \in ValuesOf(key)
    BY <2>2
  <2> QED BY <2>3
<1>3. /\ \A key \in Keys : metadata[key] \in ValuesOf(key) \union {Unset}
      /\ changes \in 0 .. MaxChanges
  BY <1>1 DEF KeysInv
<1>4. /\ \A p \in ports \union knownPorts : p.name \in Names /\ p.id \in 0 .. nextId - 1
      /\ \A p, q \in knownPorts : p.name = q.name => p = q
      /\ appeared \subseteq knownPorts
  BY <1>1 DEF PortsInv
<1>5. \A l \in links : \E p, q \in ports :
        l.out = p.id /\ l.in = q.id /\ Out(p.name) /\ ~ Out(q.name)
  BY <1>1 DEF EndsInv
<1> QED BY <1>2, <1>3, <1>4, <1>5 DEF TypeOK

LEMMA IInvNothingMissing == IInv => NothingMissing
<1> SUFFICES ASSUME IInv, Settled PROVE
      /\ \A p \in Managed : Kind(p.name) = "input" =>
           \A q \in ports : q.name \in Wanted(p) => q.name \in Linked(p)
      /\ \A a \in asked : \E l \in links : a = <<l.out, l.in>>
  BY DEF NothingMissing
<1>1. KeysInv /\ PortsInv /\ AskedInv /\ KeptInv
  BY DEF IInv
<1>2. appeared = {} /\ changed = << >> /\ requests = << >> /\ knownPorts = ports
  BY DEF Settled
<1>3. ASSUME NEW a \in asked
      PROVE  \E l \in links : a = <<l.out, l.in>>
  <2>1. PICK o \in ports, i \in ports : a = <<o.id, i.id>>
    BY <1>1, <1>2 DEF AskedInv
  <2>2. ~ Gone(a)
    BY <2>1 DEF Gone
  <2>3. ~ Coming(a)
    BY <1>2, EmptySeq DEF Coming
  <2>4. PICK l \in links : Joined(l, a)
    BY <1>1, <2>2, <2>3 DEF KeptInv, There
  <2> QED BY <2>1, <2>4 DEF Joined
<1>4. ASSUME NEW p \in Managed, Kind(p.name) = "input", NEW q \in ports, q.name \in Wanted(p)
      PROVE  q.name \in Linked(p)
  <2>1. PICK key \in Keys : p.name \in Governed(key)
    BY DEF Managed
  <2>2. p \in ports
    BY DEF Managed
  <2>3. key[1] = "channel_port" /\ p.name[2] = key[2] /\ p.name = <<"input", key[2]>>
    BY <1>4, <2>1, GovernedKinds DEF Governed
  <2>4. key = <<"channel_port", p.name[2]>>
    BY <2>3, KeyFacts
  <2>5. q.name = metadata[key]
    BY <1>4, <2>4 DEF Wanted
  <2>6. metadata[key] \in Devices \union {Unset}
    BY <1>1, <2>3 DEF KeysInv, ValuesOf
  <2>7. q.name \in Names
    BY <1>1 DEF PortsInv
  <2>8. metadata[key] \in Devices
    BY <2>5, <2>6, <2>7, NamesAssumption
  <2>9. Joins(q, p, key, metadata[key])
    BY <2>3, <2>5, <2>8 DEF Joins
  <2>10. ~ Pending(key)
    BY <1>2, EmptySeq DEF Pending
  <2>11. <<q.id, p.id>> \in asked
    BY <1>1, <1>2, <2>2, <2>3, <2>9, <2>10 DEF AskedInv
  <2>12. PICK l \in links : <<q.id, p.id>> = <<l.out, l.in>>
    BY <1>3, <2>11
  <2>13. {l.out, l.in} = {p.id, q.id}
    BY <2>12
  <2> QED BY <2>13 DEF Linked
<1> QED BY <1>3, <1>4

LEMMA IInvStray == IInv => StrayOnlyIfOvertaken
<1> SUFFICES ASSUME IInv, Settled, NEW p \in Managed, p.id \notin overtaken,
                    NEW q \in ports, NEW l \in links, {l.out, l.in} = {p.id, q.id}
             PROVE  q.name \in Wanted(p)
  BY DEF StrayOnlyIfOvertaken, Linked
<1>1. KeysInv /\ PortsInv /\ EndsInv /\ StrayInv
  BY DEF IInv
<1>2. changed = << >> /\ requests = << >>
  BY DEF Settled
<1>3. PICK key \in Keys : p.name \in Governed(key)
  BY DEF Managed
<1>4. p \in ports
  BY DEF Managed
<1>5. Right(l.out, l.in)
  BY <1>1, <1>2, EmptySeq DEF StrayInv
<1>6. PICK o \in ports, i \in ports :
        l.out = o.id /\ l.in = i.id /\ Out(o.name) /\ ~ Out(i.name)
  BY <1>1 DEF EndsInv
<1>7. (p = o /\ q = i) \/ (p = i /\ q = o)
  BY <1>1, <1>4, <1>6 DEF PortsInv
<1>8. ~ Pending(key)
  BY <1>2, EmptySeq DEF Pending
<1>9. Joins(o, i, key, metadata[key])
  BY <1>3, <1>5, <1>6, <1>7, <1>8 DEF Right
<1>10. CASE key[1] = "channel_port"
  <2>1. Kind(p.name) = "input" /\ p.name[2] = key[2] /\ key = <<"channel_port", p.name[2]>>
    BY <1>3, <1>10, GovernedKinds, KeyFacts
  <2>2. o.name = metadata[key] /\ Kind(o.name) = "device"
    BY <1>9, <1>10, JoinsKinds DEF Joins
  <2>3. q.name = metadata[key]
    BY <1>7, <2>1, <2>2
  <2> QED BY <2>1, <2>3 DEF Wanted
<1>11. CASE key[1] = "channel_group"
  <2>1. Kind(p.name) = "output" /\ channel_of(p.name[2]) = key[2]
    BY <1>3, <1>11, GovernedKinds
  <2>2. key = <<"channel_group", channel_of(p.name[2])>>
    BY <1>11, <2>1, KeyFacts
  <2>3. /\ metadata[key] \in Groups /\ i.name = group_target(o.name[2], metadata[key])
        /\ Kind(i.name) = "loop_in"
    BY <1>9, <1>11, JoinsKinds DEF Joins
  <2>4. q.name = group_target(p.name[2], metadata[key])
    BY <1>7, <2>1, <2>3
  <2>5. metadata[key] # Unset
    BY <2>3, NamesAssumption
  <2> QED BY <2>1, <2>2, <2>4, <2>5 DEF Wanted
<1> QED BY <1>10, <1>11, KeyFacts

(***************************************************************************)
(* TypeOK: every link leads from an output to an input of ports that are   *)
(* there, whatever the hooks asked for and in whatever order objects came. *)
(***************************************************************************)
THEOREM ConnectionsTyped == Spec => []TypeOK
BY IInvAlways, IInvTypes, PTL

(***************************************************************************)
(* NothingMissing: once everything is done the input of a channel is       *)
(* linked to the port its metadata name, and every link that the hooks of  *)
(* pmx_manage_connections.lua asked for last is there.                     *)
(***************************************************************************)
THEOREM NothingIsMissing == Spec => []NothingMissing
BY IInvAlways, IInvNothingMissing, PTL

(***************************************************************************)
(* StrayOnlyIfOvertaken: once everything is done a channel has a link that *)
(* the metadata do not give it only if they last changed while a link of   *)
(* its port was under way that the hook could not see.                     *)
(***************************************************************************)
THEOREM StraysAreOvertaken == Spec => []StrayOnlyIfOvertaken
BY IInvAlways, IInvStray, PTL
=============================================================================
