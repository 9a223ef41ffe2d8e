------------------------- MODULE RememberedPorts_proofs -------------------------
(***************************************************************************)
(* Theorems about RememberedPorts, for any number of ports that come and   *)
(* go: the types, what is linked and what is forgotten.                    *)
(***************************************************************************)
EXTENDS RememberedPorts, SequenceTheorems, TLAPS

Records == [id : Nat, name : Names]

Outs == UNION {ToSet(outs[f]) : f \in Families}
Ins == UNION {ToSet(ins[f]) : f \in Families}

\* All records in the state, and those whose event was handled.
Known == ports \union Outs \union Ins
Handled == Outs \union Ins \union (ports \ appeared)

Types ==
  /\ ports \subseteq Records /\ appeared \subseteq ports /\ nextId \in Nat
  /\ outs \in [Families -> Seq(Records)] /\ ins \in [Families -> Seq(Records)]

Sides ==
  \A f \in Families :
    /\ \A p \in ToSet(outs[f]) : p.name.side = "out" /\ f \in p.name.families
    /\ \A p \in ToSet(ins[f]) : p.name.side = "in" /\ f \in p.name.families
    /\ Replaces(f, "out") => Len(outs[f]) <= 1
    /\ Replaces(f, "in") => Len(ins[f]) <= 1

LinksMatch ==
  \A l \in links : \E o, i \in ports :
    /\ l = <<o.id, i.id>>
    /\ o.name.side = "out" /\ i.name.side = "in"
    /\ o.name.families \intersect i.name.families # {}

(***************************************************************************)
(* What the scripts remember they never look at again, so a port must not  *)
(* be taken for one that is gone; and what is remembered is older than     *)
(* what is still to be handled.                                            *)
(***************************************************************************)
Ages ==
  /\ \A p, q \in Known : p.id = q.id => p = q
  /\ \A p \in Known : p.id < nextId
  /\ \A p \in Handled, q \in appeared : p.id < q.id

-----------------------------------------------------------------------------
(* Lists of ports *)

LEMMA SetOfList ==
  ASSUME NEW s \in Seq(Records)
  PROVE  /\ ToSet(s) = {s[i] : i \in 1 .. Len(s)} /\ DOMAIN s = 1 .. Len(s)
         /\ ToSet(s) \subseteq Records
<1>1. DOMAIN s = 1 .. Len(s)
  BY LenProperties
<1>2. \A i \in 1 .. Len(s) : s[i] \in Records
  BY ElementOfSeq
<1> QED BY <1>1, <1>2 DEF ToSet

LEMMA Lengthened ==
  ASSUME NEW s \in Seq(Records), NEW p \in Records
  PROVE  /\ Append(s, p) \in Seq(Records) /\ ToSet(Append(s, p)) = ToSet(s) \union {p}
         /\ DOMAIN Append(s, p) = 1 .. Len(s) + 1
         /\ Append(s, p)[Len(s) + 1] = p
         /\ \A i \in 1 .. Len(s) : Append(s, p)[i] = s[i] /\ i \in 1 .. Len(s) + 1
<1> DEFINE t == Append(s, p)
<1>1. /\ t \in Seq(Records) /\ Len(s) \in Nat /\ Len(t) = Len(s) + 1 /\ t[Len(s) + 1] = p
      /\ \A i \in 1 .. Len(s) : t[i] = s[i]
  BY AppendProperties, LenProperties
<1> HIDE DEF t
<1>2. /\ \A i \in 1 .. Len(t) : i \in 1 .. Len(s) \/ i = Len(s) + 1
      /\ \A i \in 1 .. Len(s) : i \in 1 .. Len(t)
      /\ Len(s) + 1 \in 1 .. Len(t)
  BY <1>1
<1>3. ToSet(t) = ToSet(s) \union {p}
  <2>1. ToSet(t) = {t[i] : i \in 1 .. Len(t)} /\ ToSet(s) = {s[i] : i \in 1 .. Len(s)}
    BY <1>1, SetOfList
  <2> QED BY <1>1, <1>2, <2>1
<1>4. DOMAIN t = 1 .. Len(s) + 1
  BY <1>1, LenProperties
<1> QED BY <1>1, <1>2, <1>3, <1>4 DEF t

LEMMA Single ==
  ASSUME NEW p \in Records
  PROVE  <<p>> \in Seq(Records) /\ ToSet(<<p>>) = {p} /\ Len(<<p>>) = 1
<1>1. <<p>> \in Seq(Records) /\ Len(<<p>>) = 1 /\ <<p>>[1] = p
  OBVIOUS
<1>2. 1 .. 1 = {1}
  OBVIOUS
<1>3. ToSet(<<p>>) = {<<p>>[i] : i \in 1 .. 1}
  BY <1>1, SetOfList
<1> QED BY <1>1, <1>2, <1>3

\* What a family remembers when it has seen port p.
LEMMA RememberReplaced ==
  ASSUME NEW f, NEW s \in Seq(Records), NEW p \in Records, Replaces(f, p.name.side)
  PROVE  /\ Remember(f, s, p) \in Seq(Records) /\ Len(Remember(f, s, p)) = 1
         /\ ToSet(Remember(f, s, p)) = {p}
BY Single DEF Remember

LEMMA RememberAppended ==
  ASSUME NEW f, NEW s \in Seq(Records), NEW p \in Records, ~Replaces(f, p.name.side)
  PROVE  /\ Remember(f, s, p) \in Seq(Records) /\ Remember(f, s, p) = Append(s, p)
         /\ ToSet(Remember(f, s, p)) = ToSet(s) \union {p}
BY Lengthened DEF Remember

LEMMA RememberProperties ==
  ASSUME NEW f, NEW s \in Seq(Records), NEW p \in Records
  PROVE  /\ Remember(f, s, p) \in Seq(Records) /\ p \in ToSet(Remember(f, s, p))
         /\ ToSet(Remember(f, s, p)) \subseteq ToSet(s) \union {p}
<1>1. CASE Replaces(f, p.name.side)
  <2>1. Remember(f, s, p) \in Seq(Records) /\ ToSet(Remember(f, s, p)) = {p}
    BY <1>1, RememberReplaced
  <2> QED BY <2>1
<1>2. CASE ~Replaces(f, p.name.side)
  <2>1. Remember(f, s, p) \in Seq(Records) /\ ToSet(Remember(f, s, p)) = ToSet(s) \union {p}
    BY <1>2, RememberAppended
  <2> QED BY <2>1
<1> QED BY <1>1, <1>2

\* The loop links a port of the list or a port that is gone stands before it.
LEMMA ReachedOrObstructed ==
  ASSUME NEW s \in Seq(Records), NEW p \in ToSet(s), p \in ports, NEW raises \in BOOLEAN
  PROVE  p \in Reached(s, raises) \/ Obstructed(p, s)
<1>1. DOMAIN s = 1 .. Len(s) /\ Len(s) \in Nat
  BY LenProperties
<1>2. PICK i \in 1 .. Len(s) : s[i] = p
  BY SetOfList
<1>3. CASE \A j \in 1 .. i - 1 : s[j] \in ports
  BY <1>1, <1>2, <1>3 DEF Reached
<1>4. CASE \E j \in 1 .. i - 1 : s[j] \notin ports
  <2>1. PICK j \in 1 .. i - 1 : s[j] \notin ports
    BY <1>4
  <2>2. j \in DOMAIN s /\ i \in DOMAIN s /\ j < i
    BY <1>1
  <2> QED BY <1>2, <2>1, <2>2 DEF Obstructed
<1> QED BY <1>3, <1>4

LEMMA ReachedThere ==
  ASSUME NEW s \in Seq(Records), NEW raises
  PROVE  Reached(s, raises) \subseteq ToSet(s) \intersect ports
BY SetOfList DEF Reached

-----------------------------------------------------------------------------
(* The hooks *)

Served(p, raises) == {f \in p.name.families : ~Fails(f, p, raises)}

LEMMA Handle ==
  ASSUME Types, NEW p \in appeared, NEW raises \in BOOLEAN, PortAdded(p, raises)
  PROVE  /\ p \in Records /\ p \in ports /\ p.name.side \in {"out", "in"}
         /\ Served(p, raises) \subseteq Families /\ p.name.families \subseteq Families
         /\ links' = links \union UNION {Made(f, p, raises) : f \in Served(p, raises)}
         /\ outs' \in [Families -> Seq(Records)] /\ ins' \in [Families -> Seq(Records)]
         /\ \A f \in Families :
              /\ outs'[f] = IF f \in Served(p, raises) /\ p.name.side = "out"
                              THEN Remember(f, outs[f], p) ELSE outs[f]
              /\ ins'[f] = IF f \in Served(p, raises) /\ p.name.side = "in"
                             THEN Remember(f, ins[f], p) ELSE ins[f]
         /\ appeared' = appeared \ {p} /\ UNCHANGED <<ports, nextId>>
         /\ \A q \in appeared : p.id <= q.id
<1>1. p \in Records /\ p \in ports
  BY DEF Types
<1>2. p.name \in Names
  BY <1>1 DEF Records
<1>3. p.name.side \in {"out", "in"} /\ p.name.families \subseteq Families
  BY <1>2, PortsAssumption
<1>4. Served(p, raises) \subseteq Families
  BY <1>3 DEF Served
<1>5. /\ links' = links \union UNION {Made(f, p, raises) : f \in Served(p, raises)}
      /\ outs' = [f \in Families |-> IF f \in Served(p, raises) /\ p.name.side = "out"
                                       THEN Remember(f, outs[f], p) ELSE outs[f]]
      /\ ins' = [f \in Families |-> IF f \in Served(p, raises) /\ p.name.side = "in"
                                      THEN Remember(f, ins[f], p) ELSE ins[f]]
      /\ appeared' = appeared \ {p} /\ UNCHANGED <<ports, nextId>>
      /\ \A q \in appeared : p.id <= q.id
  BY DEF PortAdded, Served, surroundings
<1>6. \A f \in Families : /\ outs[f] \in Seq(Records) /\ Remember(f, outs[f], p) \in Seq(Records)
                          /\ ins[f] \in Seq(Records) /\ Remember(f, ins[f], p) \in Seq(Records)
  BY <1>1, RememberProperties DEF Types
<1>7. outs' \in [Families -> Seq(Records)] /\ ins' \in [Families -> Seq(Records)]
  BY <1>5, <1>6
<1> QED BY <1>1, <1>3, <1>4, <1>5, <1>7

LEMMA TypesNext ==
  ASSUME Types, [Next]_vars
  PROVE  Types'
<1>1. ASSUME NEW p \in appeared, NEW raises \in BOOLEAN, PortAdded(p, raises)  PROVE Types'
  <2>1. /\ outs' \in [Families -> Seq(Records)] /\ ins' \in [Families -> Seq(Records)]
        /\ appeared' = appeared \ {p} /\ UNCHANGED <<ports, nextId>>
    BY <1>1, Handle
  <2> QED BY <2>1 DEF Types
<1>2. ASSUME NEW name \in Names, PortAppears(name)  PROVE Types'
  <2>1. [id |-> nextId, name |-> name] \in Records
    BY DEF Types, Records
  <2> QED BY <1>2, <2>1 DEF PortAppears, Types
<1>3. ASSUME NEW p \in ports, PortDisappears(p)  PROVE Types'
  BY <1>3 DEF PortDisappears, Types
<1>4. CASE UNCHANGED vars
  BY <1>4 DEF vars, surroundings, Types
<1> QED BY <1>1, <1>2, <1>3, <1>4 DEF Next

LEMMA AgesNext ==
  ASSUME Types, Ages, [Next]_vars
  PROVE  Ages'
<1>0. \A p \in Known : p.id \in Nat
  <2>1. \A f \in Families : ToSet(outs[f]) \subseteq Records /\ ToSet(ins[f]) \subseteq Records
    BY SetOfList DEF Types
  <2> QED BY <2>1 DEF Known, Outs, Ins, Types, Records
<1>1. ASSUME NEW p \in appeared, NEW raises \in BOOLEAN, PortAdded(p, raises)  PROVE Ages'
  <2>1. /\ p \in Records /\ p \in ports /\ appeared' = appeared \ {p} /\ UNCHANGED <<ports, nextId>>
        /\ \A q \in appeared : p.id <= q.id
        /\ \A f \in Families :
              /\ outs'[f] = outs[f] \/ outs'[f] = Remember(f, outs[f], p)
              /\ ins'[f] = ins[f] \/ ins'[f] = Remember(f, ins[f], p)
    BY <1>1, Handle
  <2>2. ASSUME NEW f \in Families
        PROVE  /\ ToSet(outs'[f]) \subseteq ToSet(outs[f]) \union {p}
               /\ ToSet(ins'[f]) \subseteq ToSet(ins[f]) \union {p}
    <3>1. outs[f] \in Seq(Records) /\ ins[f] \in Seq(Records)
      BY DEF Types
    <3>2. /\ ToSet(Remember(f, outs[f], p)) \subseteq ToSet(outs[f]) \union {p}
          /\ ToSet(Remember(f, ins[f], p)) \subseteq ToSet(ins[f]) \union {p}
      BY <2>1, <3>1, RememberProperties
    <3> QED BY <2>1, <3>2
  <2>3. Outs' \subseteq Outs \union {p} /\ Ins' \subseteq Ins \union {p}
    BY <2>2 DEF Outs, Ins
  <2>4. Known' \subseteq Known /\ Handled' \subseteq Handled \union {p}
    BY <2>1, <2>3 DEF Known, Handled
  <2>5. \A q \in appeared \ {p} : p.id < q.id
    <3> TAKE q \in appeared \ {p}
    <3>1. p.id <= q.id /\ p \in Known /\ q \in Known
      BY <2>1 DEF Types, Known
    <3>2. p.id # q.id
      BY <3>1 DEF Ages
    <3> QED BY <1>0, <3>1, <3>2
  <2> QED BY <2>1, <2>4, <2>5 DEF Ages
<1>2. ASSUME NEW name \in Names, PortAppears(name)  PROVE Ages'
  <2> DEFINE n == [id |-> nextId, name |-> name]
  <2>1. /\ ports' = ports \union {n} /\ appeared' = appeared \union {n} /\ nextId' = nextId + 1
        /\ UNCHANGED <<outs, ins>> /\ n.id = nextId
    BY <1>2 DEF PortAppears
  <2>2. nextId \in Nat
    BY DEF Types
  <2> HIDE DEF n
  <2>3. Known' = Known \union {n} /\ Handled' \subseteq Handled
    BY <2>1 DEF Known, Handled, Outs, Ins
  <2>4. Handled \subseteq Known
    BY DEF Handled, Known
  <2>5. \A q \in Known : q.id < nextId /\ q.id # nextId /\ q.id < nextId + 1
    BY <1>0, <2>2 DEF Ages
  <2>6. \A q, r \in Known' : q.id = r.id => q = r
    BY <2>1, <2>3, <2>5 DEF Ages
  <2>7. \A q \in Known' : q.id < nextId'
    BY <2>1, <2>2, <2>3, <2>5
  <2>8. \A q \in Handled', r \in appeared' : q.id < r.id
    BY <2>1, <2>3, <2>4, <2>5 DEF Ages
  <2> QED BY <2>6, <2>7, <2>8 DEF Ages
<1>3. ASSUME NEW p \in ports, PortDisappears(p)  PROVE Ages'
  <2>1. Known' \subseteq Known /\ Handled' \subseteq Handled /\ appeared' \subseteq appeared
        /\ nextId' = nextId
    BY <1>3 DEF PortDisappears, Known, Handled, Outs, Ins
  <2> QED BY <2>1 DEF Ages
<1>4. CASE UNCHANGED vars
  BY <1>4 DEF vars, surroundings, Ages, Known, Handled, Outs, Ins
<1> QED BY <1>1, <1>2, <1>3, <1>4 DEF Next

LEMMA SidesNext ==
  ASSUME Types, Sides, [Next]_vars
  PROVE  Sides'
<1>1. ASSUME NEW p \in appeared, NEW raises \in BOOLEAN, PortAdded(p, raises)  PROVE Sides'
  <2>1. /\ p \in Records /\ p.name.side \in {"out", "in"}
        /\ \A f \in Families :
              /\ outs'[f] = IF f \in Served(p, raises) /\ p.name.side = "out"
                              THEN Remember(f, outs[f], p) ELSE outs[f]
              /\ ins'[f] = IF f \in Served(p, raises) /\ p.name.side = "in"
                             THEN Remember(f, ins[f], p) ELSE ins[f]
    BY <1>1, Handle
  <2>2. \A f \in Served(p, raises) : f \in p.name.families
    BY DEF Served
  <2>3. ASSUME NEW f \in Families
        PROVE  /\ \A q \in ToSet(outs'[f]) : q.name.side = "out" /\ f \in q.name.families
               /\ Replaces(f, "out") => Len(outs'[f]) <= 1
    <3>1. CASE f \in Served(p, raises) /\ p.name.side = "out"
      <4>1. outs'[f] = Remember(f, outs[f], p) /\ outs[f] \in Seq(Records)
        BY <2>1, <3>1 DEF Types
      <4>2. ToSet(Remember(f, outs[f], p)) \subseteq ToSet(outs[f]) \union {p}
        BY <2>1, <4>1, RememberProperties
      <4>3. \A q \in ToSet(outs'[f]) : q.name.side = "out" /\ f \in q.name.families
        BY <2>2, <3>1, <4>1, <4>2 DEF Sides
      <4>4. ASSUME Replaces(f, "out")  PROVE Len(outs'[f]) <= 1
        <5>1. Replaces(f, p.name.side)
          BY <3>1, <4>4
        <5>2. Len(Remember(f, outs[f], p)) = 1
          BY <2>1, <4>1, <5>1, RememberReplaced
        <5> QED BY <4>1, <5>2
      <4> QED BY <4>3, <4>4
    <3>2. CASE ~(f \in Served(p, raises) /\ p.name.side = "out")
      BY <2>1, <3>2 DEF Sides
    <3> QED BY <3>1, <3>2
  <2>4. ASSUME NEW f \in Families
        PROVE  /\ \A q \in ToSet(ins'[f]) : q.name.side = "in" /\ f \in q.name.families
               /\ Replaces(f, "in") => Len(ins'[f]) <= 1
    <3>1. CASE f \in Served(p, raises) /\ p.name.side = "in"
      <4>1. ins'[f] = Remember(f, ins[f], p) /\ ins[f] \in Seq(Records)
        BY <2>1, <3>1 DEF Types
      <4>2. ToSet(Remember(f, ins[f], p)) \subseteq ToSet(ins[f]) \union {p}
        BY <2>1, <4>1, RememberProperties
      <4>3. \A q \in ToSet(ins'[f]) : q.name.side = "in" /\ f \in q.name.families
        BY <2>2, <3>1, <4>1, <4>2 DEF Sides
      <4>4. ASSUME Replaces(f, "in")  PROVE Len(ins'[f]) <= 1
        <5>1. Replaces(f, p.name.side)
          BY <3>1, <4>4
        <5>2. Len(Remember(f, ins[f], p)) = 1
          BY <2>1, <4>1, <5>1, RememberReplaced
        <5> QED BY <4>1, <5>2
      <4> QED BY <4>3, <4>4
    <3>2. CASE ~(f \in Served(p, raises) /\ p.name.side = "in")
      BY <2>1, <3>2 DEF Sides
    <3> QED BY <3>1, <3>2
  <2> QED BY <2>3, <2>4 DEF Sides
<1>2. ASSUME NEW name \in Names, PortAppears(name)  PROVE Sides'
  BY <1>2 DEF PortAppears, Sides
<1>3. ASSUME NEW p \in ports, PortDisappears(p)  PROVE Sides'
  BY <1>3 DEF PortDisappears, Sides
<1>4. CASE UNCHANGED vars
  BY <1>4 DEF vars, Sides
<1> QED BY <1>1, <1>2, <1>3, <1>4 DEF Next

Matches(l, there) ==
  \E o, i \in there :
    /\ l = <<o.id, i.id>>
    /\ o.name.side = "out" /\ i.name.side = "in"
    /\ o.name.families \intersect i.name.families # {}

\* A hook links ports that are there, an output to an input of its family.
LEMMA MadeMatches ==
  ASSUME Types, Sides, NEW p \in ports, p \in Records, p.name.side \in {"out", "in"},
         NEW f \in Families, f \in p.name.families, NEW raises \in BOOLEAN,
         NEW l \in Made(f, p, raises)
  PROVE  Matches(l, ports)
<1> DEFINE Good(q, side) == q \in ports /\ q.name.side = side /\ f \in q.name.families
<1>1. outs[f] \in Seq(Records) /\ ins[f] \in Seq(Records)
  BY DEF Types
<1>2. \A q \in Reached(outs[f], raises) : Good(q, "out")
  BY <1>1, ReachedThere DEF Sides
<1>3. \A q \in Reached(ins[f], raises) : Good(q, "in")
  BY <1>1, ReachedThere DEF Sides
<1>4. \A q \in Reached(Append(ins[f], p), raises) : q \in ToSet(ins[f]) \union {p} /\ q \in ports
  <2>1. Append(ins[f], p) \in Seq(Records) /\ ToSet(Append(ins[f], p)) = ToSet(ins[f]) \union {p}
    BY <1>1, Lengthened
  <2> QED BY <2>1, ReachedThere
<1>5. PICK o, i : l = <<o.id, i.id>> /\ Good(o, "out") /\ Good(i, "in")
  <2>1. CASE p.name.side = "out"
    BY <1>3, <2>1 DEF Made
  <2>2. CASE p.name.side = "in"
    <3>1. \A q \in Reached(Append(ins[f], p), raises) : Good(q, "in")
      BY <1>4, <2>2 DEF Sides
    <3> QED BY <1>2, <2>2, <3>1 DEF Made
  <2> QED BY <2>1, <2>2
<1> QED BY <1>5 DEF Matches

LEMMA LinksMatchNext ==
  ASSUME Types, Sides, Ages, LinksMatch, [Next]_vars
  PROVE  LinksMatch'
<1>0. \A l \in links : Matches(l, ports)
  BY DEF LinksMatch, Matches
<1> SUFFICES \A l \in links' : Matches(l, ports')
  BY DEF LinksMatch, Matches
<1>1. ASSUME NEW p \in appeared, NEW raises \in BOOLEAN, PortAdded(p, raises)
      PROVE  \A l \in links' : Matches(l, ports')
  <2>1. /\ p \in Records /\ p \in ports /\ p.name.side \in {"out", "in"}
        /\ links' = links \union UNION {Made(f, p, raises) : f \in Served(p, raises)}
        /\ ports' = ports /\ Served(p, raises) \subseteq Families
    BY <1>1, Handle
  <2>2. ASSUME NEW f \in Served(p, raises), NEW l \in Made(f, p, raises)
        PROVE  Matches(l, ports)
    <3>1. f \in Families /\ f \in p.name.families
      BY <2>1 DEF Served
    <3> QED BY <2>1, <3>1, MadeMatches
  <2> QED BY <1>0, <2>1, <2>2
<1>2. ASSUME NEW name \in Names, PortAppears(name)  PROVE \A l \in links' : Matches(l, ports')
  <2>1. ports \subseteq ports' /\ links' = links
    BY <1>2 DEF PortAppears
  <2> QED BY <1>0, <2>1 DEF Matches
<1>3. ASSUME NEW p \in ports, PortDisappears(p)  PROVE \A l \in links' : Matches(l, ports')
  <2>1. ports' = ports \ {p} /\ links' = {l \in links : p.id \notin {l[1], l[2]}}
    BY <1>3 DEF PortDisappears
  <2> TAKE l \in links'
  <2>2. PICK o, i \in ports : /\ l = <<o.id, i.id>>
                              /\ o.name.side = "out" /\ i.name.side = "in"
                              /\ o.name.families \intersect i.name.families # {}
    BY <1>0, <2>1 DEF Matches
  <2>3. o # p /\ i # p
    BY <2>1, <2>2
  <2> QED BY <2>1, <2>2, <2>3 DEF Matches
<1>4. CASE UNCHANGED vars
  BY <1>0, <1>4 DEF vars, surroundings
<1> QED BY <1>1, <1>2, <1>3, <1>4 DEF Next

LEMMA NothingRemembered ==
  ASSUME Init
  PROVE  /\ outs \in [Families -> Seq(Records)] /\ ins \in [Families -> Seq(Records)]
         /\ \A f \in Families : /\ ToSet(outs[f]) = {} /\ Len(outs[f]) = 0
                                /\ ToSet(ins[f]) = {} /\ Len(ins[f]) = 0
         /\ Outs = {} /\ Ins = {}
<1>1. << >> \in Seq(Records) /\ Len(<< >>) = 0 /\ ToSet(<< >>) = {}
  <2>1. << >> \in Seq(Records) /\ Len(<< >>) = 0
    BY EmptySeq
  <2>2. ToSet(<< >>) = {<< >>[i] : i \in 1 .. 0}
    BY <2>1, SetOfList
  <2>3. 1 .. 0 = {}
    OBVIOUS
  <2> QED BY <2>1, <2>2, <2>3
<1>2. \A f \in Families : outs[f] = << >> /\ ins[f] = << >>
  BY DEF Init
<1>3. outs \in [Families -> Seq(Records)] /\ ins \in [Families -> Seq(Records)]
  BY <1>1 DEF Init
<1> QED BY <1>1, <1>2, <1>3 DEF Outs, Ins

LEMMA KnownInit ==
  ASSUME Init
  PROVE  Types /\ Sides /\ LinksMatch /\ Ages
<1>1. Types
  BY NothingRemembered DEF Init, Types
<1>2. Sides
  BY NothingRemembered DEF Sides
<1>3. LinksMatch
  BY DEF Init, LinksMatch
<1>4. Ages
  BY NothingRemembered DEF Init, Ages, Known, Handled
<1> QED BY <1>1, <1>2, <1>3, <1>4

KnownInv == Types /\ Sides /\ LinksMatch /\ Ages

LEMMA KnownSafe == Spec => []KnownInv
<1>1. Init => KnownInv
  BY KnownInit DEF KnownInv
<1>2. KnownInv /\ [Next]_vars => KnownInv'
  BY TypesNext, SidesNext, LinksMatchNext, AgesNext DEF KnownInv
<1> QED BY <1>1, <1>2, PTL DEF Spec

(***************************************************************************)
(* The lists hold outputs or inputs of their family, one at most where a   *)
(* port is replaced, and a link joins two ports of one family that are     *)
(* there.                                                                  *)
(***************************************************************************)
THEOREM TypeCorrect == Spec => []TypeOK
<1>1. KnownInv => TypeOK
  <2> SUFFICES ASSUME KnownInv  PROVE TypeOK
    OBVIOUS
  <2>1. \A p \in ports : p.name \in Names /\ p.id \in 0 .. nextId - 1
    BY DEF KnownInv, Types, Records, Ages, Known
  <2> QED BY <2>1 DEF KnownInv, Types, Sides, LinksMatch, TypeOK
<1> QED BY <1>1, KnownSafe, PTL

-----------------------------------------------------------------------------
(* What is linked *)

\* A list's port q stands behind one that is not there.
Blocked(q, s, there) == \E i, j \in DOMAIN s : j < i /\ s[i] = q /\ s[j] \notin there

FamilyLinked(os, is, made, there) ==
  \A o \in ToSet(os) \intersect there, i \in ToSet(is) \intersect there :
    <<o.id, i.id>> \in made \/ Blocked(o, os, there) \/ Blocked(i, is, there)

LEMMA BlockedIn ==
  ASSUME NEW s \in Seq(Records), NEW there, NEW more, NEW q, Blocked(q, s, there),
         ToSet(s) \intersect more \subseteq there
  PROVE  Blocked(q, s, more)
<1>1. PICK i, j \in 1 .. Len(s) : j < i /\ s[i] = q /\ s[j] \notin there
  BY SetOfList DEF Blocked
<1>2. s[j] \in ToSet(s) /\ i \in DOMAIN s /\ j \in DOMAIN s
  BY <1>1, SetOfList
<1> QED BY <1>1, <1>2 DEF Blocked

LEMMA BlockedAppended ==
  ASSUME NEW s \in Seq(Records), NEW r \in Records, NEW there, NEW q, Blocked(q, s, there)
  PROVE  Blocked(q, Append(s, r), there)
<1>1. PICK i, j \in 1 .. Len(s) : j < i /\ s[i] = q /\ s[j] \notin there
  BY SetOfList DEF Blocked
<1>2. /\ i \in DOMAIN Append(s, r) /\ j \in DOMAIN Append(s, r)
      /\ Append(s, r)[i] = s[i] /\ Append(s, r)[j] = s[j]
  BY <1>1, Lengthened
<1> QED BY <1>1, <1>2 DEF Blocked

LEMMA ReachedOrBlocked ==
  ASSUME NEW s \in Seq(Records), NEW q \in ToSet(s), q \in ports, NEW raises \in BOOLEAN
  PROVE  q \in Reached(s, raises) \/ Blocked(q, s, ports)
BY ReachedOrObstructed DEF Obstructed, Blocked

\* A new output of a family is linked to its inputs.
LEMMA OutputLinked ==
  ASSUME NEW f, NEW os \in Seq(Records), NEW is \in Seq(Records), NEW raises \in BOOLEAN,
         NEW p \in Records, p \in ports, p.name.side = "out", is = ins[f],
         NEW made, Made(f, p, raises) \subseteq made, FamilyLinked(os, is, made, ports)
  PROVE  FamilyLinked(Remember(f, os, p), is, made, ports)
<1> DEFINE new == Remember(f, os, p)
<1> SUFFICES ASSUME NEW o \in ToSet(new) \intersect ports, NEW i \in ToSet(is) \intersect ports
             PROVE  <<o.id, i.id>> \in made \/ Blocked(o, new, ports) \/ Blocked(i, is, ports)
  BY DEF FamilyLinked
<1>1. CASE o = p
  <2>1. i \in Reached(is, raises) \/ Blocked(i, is, ports)
    BY ReachedOrBlocked
  <2>2. ASSUME i \in Reached(is, raises)  PROVE <<o.id, i.id>> \in made
    BY <1>1, <2>2 DEF Made
  <2> QED BY <2>1, <2>2
<1>2. CASE o # p
  <2>1. ~Replaces(f, p.name.side)
    BY <1>2, RememberReplaced
  <2>2. new = Append(os, p) /\ ToSet(new) = ToSet(os) \union {p}
    <3>1. new = Append(os, p)
      BY <2>1, RememberAppended
    <3>2. ToSet(Append(os, p)) = ToSet(os) \union {p}
      BY Lengthened
    <3> QED BY <3>1, <3>2
  <2> HIDE DEF new
  <2>3. <<o.id, i.id>> \in made \/ Blocked(o, os, ports) \/ Blocked(i, is, ports)
    BY <1>2, <2>2 DEF FamilyLinked
  <2>4. ASSUME Blocked(o, os, ports)  PROVE Blocked(o, new, ports)
    BY <2>2, <2>4, BlockedAppended
  <2> QED BY <2>3, <2>4
<1> QED BY <1>1, <1>2

\* A new input of a family is linked to its outputs.
LEMMA InputLinked ==
  ASSUME NEW f, NEW os \in Seq(Records), NEW is \in Seq(Records), NEW raises \in BOOLEAN,
         NEW p \in Records, p \in ports, p.name.side = "in", os = outs[f], is = ins[f],
         NEW made, Made(f, p, raises) \subseteq made, FamilyLinked(os, is, made, ports)
  PROVE  FamilyLinked(os, Remember(f, is, p), made, ports)
<1> DEFINE new == Remember(f, is, p)
<1> SUFFICES ASSUME NEW o \in ToSet(os) \intersect ports, NEW i \in ToSet(new) \intersect ports
             PROVE  <<o.id, i.id>> \in made \/ Blocked(o, os, ports) \/ Blocked(i, new, ports)
  BY DEF FamilyLinked
<1>1. CASE i = p
  <2>1. o \in Reached(os, raises) \/ Blocked(o, os, ports)
    BY ReachedOrBlocked
  <2>2. ASSUME o \in Reached(os, raises)
        PROVE  <<o.id, i.id>> \in made \/ Blocked(i, new, ports)
    <3>1. CASE f \in Matrix
      <4>1. ~Replaces(f, p.name.side)
        BY <3>1 DEF Replaces, Matrix, Singles
      <4>2. new = Append(is, p)
        BY <4>1, RememberAppended
      <4>3. Append(is, p) \in Seq(Records) /\ p \in ToSet(Append(is, p))
        BY Lengthened
      <4>4. p \in Reached(Append(is, p), raises) \/ Blocked(p, Append(is, p), ports)
        BY <4>3, ReachedOrBlocked
      <4>5. ASSUME p \in Reached(Append(is, p), raises)  PROVE <<o.id, i.id>> \in made
        BY <1>1, <2>2, <3>1, <4>5 DEF Made
      <4> QED BY <1>1, <4>2, <4>4, <4>5
    <3>2. CASE f \notin Matrix
      BY <1>1, <2>2, <3>2 DEF Made
    <3> QED BY <3>1, <3>2
  <2> QED BY <2>1, <2>2
<1>2. CASE i # p
  <2>1. ~Replaces(f, p.name.side)
    BY <1>2, RememberReplaced
  <2>2. new = Append(is, p) /\ ToSet(new) = ToSet(is) \union {p}
    <3>1. new = Append(is, p)
      BY <2>1, RememberAppended
    <3>2. ToSet(Append(is, p)) = ToSet(is) \union {p}
      BY Lengthened
    <3> QED BY <3>1, <3>2
  <2> HIDE DEF new
  <2>3. <<o.id, i.id>> \in made \/ Blocked(o, os, ports) \/ Blocked(i, is, ports)
    BY <1>2, <2>2 DEF FamilyLinked
  <2>4. ASSUME Blocked(i, is, ports)  PROVE Blocked(i, new, ports)
    BY <2>2, <2>4, BlockedAppended
  <2> QED BY <2>3, <2>4
<1> QED BY <1>1, <1>2

LEMMA MoreLinked ==
  ASSUME NEW os, NEW is, NEW made, NEW there, NEW more, made \subseteq more,
         FamilyLinked(os, is, made, there)
  PROVE  FamilyLinked(os, is, more, there)
BY DEF FamilyLinked

\* Of the ports of two lists, others come, or some go with their links.
LEMMA OthersChange ==
  ASSUME NEW os \in Seq(Records), NEW is \in Seq(Records), NEW made, NEW less,
         NEW there, NEW left,
         ToSet(os) \intersect left \subseteq there, ToSet(is) \intersect left \subseteq there,
         \A o \in ToSet(os) \intersect left, i \in ToSet(is) \intersect left :
            <<o.id, i.id>> \in made => <<o.id, i.id>> \in less,
         FamilyLinked(os, is, made, there)
  PROVE  FamilyLinked(os, is, less, left)
<1> SUFFICES ASSUME NEW o \in ToSet(os) \intersect left, NEW i \in ToSet(is) \intersect left
             PROVE  <<o.id, i.id>> \in less \/ Blocked(o, os, left) \/ Blocked(i, is, left)
  BY DEF FamilyLinked
<1>1. <<o.id, i.id>> \in made \/ Blocked(o, os, there) \/ Blocked(i, is, there)
  BY DEF FamilyLinked
<1>2. ASSUME Blocked(o, os, there)  PROVE Blocked(o, os, left)
  BY <1>2, BlockedIn
<1>3. ASSUME Blocked(i, is, there)  PROVE Blocked(i, is, left)
  BY <1>3, BlockedIn
<1> QED BY <1>1, <1>2, <1>3

AllLinked == \A f \in Families : FamilyLinked(outs[f], ins[f], links, ports)

LEMMA LinkedNext ==
  ASSUME KnownInv, AllLinked, [Next]_vars
  PROVE  AllLinked'
<1>0. \A f \in Families :
        /\ outs[f] \in Seq(Records) /\ ins[f] \in Seq(Records)
        /\ ToSet(outs[f]) \subseteq Known /\ ToSet(ins[f]) \subseteq Known
        /\ FamilyLinked(outs[f], ins[f], links, ports)
  BY DEF KnownInv, Types, AllLinked, Known, Outs, Ins
<1> SUFFICES ASSUME NEW f \in Families
             PROVE  FamilyLinked(outs'[f], ins'[f], links', ports')
  BY DEF AllLinked
<1>1. ASSUME NEW p \in appeared, NEW raises \in BOOLEAN, PortAdded(p, raises)
      PROVE  FamilyLinked(outs'[f], ins'[f], links', ports')
  <2>1. /\ p \in Records /\ p \in ports /\ p.name.side \in {"out", "in"}
        /\ links' = links \union UNION {Made(g, p, raises) : g \in Served(p, raises)}
        /\ outs'[f] = IF f \in Served(p, raises) /\ p.name.side = "out"
                        THEN Remember(f, outs[f], p) ELSE outs[f]
        /\ ins'[f] = IF f \in Served(p, raises) /\ p.name.side = "in"
                       THEN Remember(f, ins[f], p) ELSE ins[f]
        /\ ports' = ports
    <3>1. Types
      BY DEF KnownInv
    <3> QED BY <1>1, <3>1, Handle
  <2>2. FamilyLinked(outs[f], ins[f], links', ports)
    BY <1>0, <2>1, MoreLinked
  <2>3. CASE f \notin Served(p, raises)
    BY <2>1, <2>2, <2>3
  <2>4. CASE f \in Served(p, raises)
    <3>1. Made(f, p, raises) \subseteq links'
      BY <2>1, <2>4
    <3>2. CASE p.name.side = "out"
      <4>1. FamilyLinked(Remember(f, outs[f], p), ins[f], links', ports)
        BY <1>0, <2>1, <2>2, <3>1, <3>2, OutputLinked
      <4> QED BY <2>1, <2>4, <3>2, <4>1
    <3>3. CASE p.name.side = "in"
      <4>1. FamilyLinked(outs[f], Remember(f, ins[f], p), links', ports)
        BY <1>0, <2>1, <2>2, <3>1, <3>3, InputLinked
      <4> QED BY <2>1, <2>4, <3>3, <4>1
    <3> QED BY <2>1, <3>2, <3>3
  <2> QED BY <2>3, <2>4
<1>2. ASSUME NEW name \in Names, PortAppears(name)
      PROVE  FamilyLinked(outs'[f], ins'[f], links', ports')
  <2> DEFINE n == [id |-> nextId, name |-> name]
  <2>1. /\ ports' = ports \union {n} /\ UNCHANGED <<links, outs, ins>> /\ n.id = nextId
    BY <1>2 DEF PortAppears
  <2> HIDE DEF n
  <2>2. n \notin Known
    BY <2>1 DEF KnownInv, Types, Ages
  <2>3. /\ ToSet(outs[f]) \intersect ports' \subseteq ports
        /\ ToSet(ins[f]) \intersect ports' \subseteq ports
    BY <1>0, <2>1, <2>2
  <2> QED BY <1>0, <2>1, <2>3, OthersChange
<1>3. ASSUME NEW p \in ports, PortDisappears(p)
      PROVE  FamilyLinked(outs'[f], ins'[f], links', ports')
  <2>1. /\ ports' = ports \ {p} /\ links' = {l \in links : p.id \notin {l[1], l[2]}}
        /\ UNCHANGED <<outs, ins>>
    BY <1>3 DEF PortDisappears
  <2>2. \A q \in ports' : q.id # p.id
    BY <2>1 DEF KnownInv, Ages, Known
  <2>3. \A o, i \in ports' : <<o.id, i.id>> \in links => <<o.id, i.id>> \in links'
    BY <2>1, <2>2
  <2> QED BY <1>0, <2>1, <2>3, OthersChange
<1>4. CASE UNCHANGED vars
  BY <1>0, <1>4 DEF vars, surroundings
<1> QED BY <1>1, <1>2, <1>3, <1>4 DEF Next

(***************************************************************************)
(* Two ports of a family that are remembered are linked, whichever came    *)
(* first, unless a port that went stands before one of them in the lists.  *)
(***************************************************************************)
THEOREM LinkedSafe == Spec => []LinkedUnlessObstructed
<1>1. Init => AllLinked
  <2> SUFFICES ASSUME Init  PROVE AllLinked
    OBVIOUS
  <2> QED BY NothingRemembered DEF AllLinked, FamilyLinked
<1>2. KnownInv /\ AllLinked /\ [Next]_vars => AllLinked'
  BY LinkedNext
<1>3. AllLinked => LinkedUnlessObstructed
  BY DEF AllLinked, FamilyLinked, Blocked, Obstructed, LinkedUnlessObstructed
<1> QED BY <1>1, <1>2, <1>3, KnownSafe, PTL DEF Spec

-----------------------------------------------------------------------------
(* What is forgotten *)

Inputs == UNION {ToSet(ins[f]) : f \in Lists}

\* The global that the hooks for inputs leave names the newest of the inputs.
Newest ==
  \/ new_input_port = << >> /\ Inputs = {}
  \/ \E n \in Inputs : new_input_port = <<n>> /\ \A q \in Inputs : q.id <= n.id

\* The last of the inputs that came before q, if any, is not there.
Early(q, inputs, there) ==
  \A a \in inputs : a.id < q.id /\ a \in there => \E r \in inputs : r.id < q.id /\ r.id > a.id

Kept(q, f, seen, inputs, there) ==
  \/ q \in seen
  \/ Replaces(f, q.name.side) /\ \E r \in seen : r.id > q.id
  \/ f \in {"from_sl", "to_sl"} /\ q.name.side = "out" /\ Early(q, inputs, there)

Seen(q, f) == ToSet(IF q.name.side = "out" THEN outs[f] ELSE ins[f])

AllKept ==
  \A q \in ports \ appeared : \A f \in q.name.families : Kept(q, f, Seen(q, f), Inputs, ports)

LEMMA ListsGrow ==
  ASSUME NEW f \in Lists
  PROVE  f \in Families /\ \A side \in {"out", "in"} : ~Replaces(f, side)
BY DEF Families, Lists, Matrix, Singles, Replaces

\* What the handling of a port does to the lists that its error depends on.
LEMMA InputsNext ==
  ASSUME KnownInv, NEW p \in appeared, NEW raises \in BOOLEAN, PortAdded(p, raises)
  PROVE  /\ Inputs \subseteq Inputs' /\ Inputs' \subseteq Inputs \union {p}
         /\ \/ new_input_port' = <<p>> /\ p \in Inputs'
            \/ new_input_port' = new_input_port /\ Inputs' = Inputs
<1>1. Types
  BY DEF KnownInv
<1>2. /\ p \in Records /\ p.name.side \in {"out", "in"} /\ p.name.families \subseteq Families
      /\ \A f \in Families : ins'[f] = IF f \in Served(p, raises) /\ p.name.side = "in"
                                         THEN Remember(f, ins[f], p) ELSE ins[f]
  BY <1>1, Handle
<1>3. new_input_port' = IF p.name.side = "in" /\ p.name.families \intersect Lists # {}
                          THEN <<p>> ELSE new_input_port
  BY DEF PortAdded
<1>4. p.name.side = "in" => Served(p, raises) = p.name.families
  BY DEF Served, Fails
<1>5. ASSUME NEW f \in Lists
      PROVE  ToSet(ins'[f]) = IF f \in p.name.families /\ p.name.side = "in"
                                THEN ToSet(ins[f]) \union {p} ELSE ToSet(ins[f])
  <2>1. f \in Families /\ ins[f] \in Seq(Records)
    BY <1>1, ListsGrow DEF Types
  <2>2. ~Replaces(f, p.name.side)
    BY <1>2, ListsGrow
  <2>3. Remember(f, ins[f], p) = Append(ins[f], p)
    BY <2>2 DEF Remember
  <2>4. ToSet(Append(ins[f], p)) = ToSet(ins[f]) \union {p}
    BY <1>2, <2>1, Lengthened
  <2> QED BY <1>2, <1>4, <2>1, <2>3, <2>4
<1>6. CASE p.name.side = "in" /\ p.name.families \intersect Lists # {}
  <2>1. PICK f \in Lists : f \in p.name.families
    BY <1>6
  <2>2. \A g \in Lists : /\ ToSet(ins[g]) \subseteq ToSet(ins'[g])
                         /\ ToSet(ins'[g]) \subseteq ToSet(ins[g]) \union {p}
    BY <1>5
  <2>3. p \in ToSet(ins'[f])
    BY <1>5, <1>6, <2>1
  <2>4. Inputs \subseteq Inputs'
    BY <2>2 DEF Inputs
  <2>5. Inputs' \subseteq Inputs \union {p} /\ p \in Inputs'
    BY <2>2, <2>3 DEF Inputs
  <2> QED BY <1>3, <1>6, <2>4, <2>5
<1>7. CASE ~(p.name.side = "in" /\ p.name.families \intersect Lists # {})
  <2>1. \A f \in Lists : ToSet(ins'[f]) = ToSet(ins[f])
    BY <1>5, <1>7
  <2>2. Inputs' = Inputs
    BY <2>1 DEF Inputs
  <2> QED BY <1>3, <1>7, <2>2
<1> QED BY <1>6, <1>7

LEMMA InputsKnown ==
  ASSUME KnownInv
  PROVE  /\ Inputs \subseteq Handled /\ Inputs \subseteq Known /\ ports \subseteq Known
         /\ \A q \in Known : q.id \in Nat
<1>1. Inputs \subseteq Ins
  BY DEF Inputs, Ins, Families
<1>2. \A f \in Families : ToSet(outs[f]) \subseteq Records /\ ToSet(ins[f]) \subseteq Records
  BY SetOfList DEF KnownInv, Types
<1>3. Known \subseteq Records
  BY <1>2 DEF KnownInv, Types, Known, Outs, Ins
<1> QED BY <1>1, <1>3 DEF Handled, Known, Records

LEMMA NewestNext ==
  ASSUME KnownInv, Newest, [Next]_vars
  PROVE  Newest'
<1>1. ASSUME NEW p \in appeared, NEW raises \in BOOLEAN, PortAdded(p, raises)  PROVE Newest'
  <2>1. CASE new_input_port' = <<p>> /\ p \in Inputs'
    <3>1. \A q \in Inputs : q.id < p.id
      BY InputsKnown DEF KnownInv, Ages
    <3>2. p.id \in Nat /\ \A q \in Inputs : q.id \in Nat
      BY InputsKnown DEF KnownInv, Types
    <3>3. \A q \in Inputs' : q \in Inputs \/ q = p
      BY <1>1, InputsNext
    <3>4. \A q \in Inputs' : q.id <= p.id
      BY <3>1, <3>2, <3>3
    <3> QED BY <2>1, <3>4 DEF Newest
  <2>2. CASE new_input_port' = new_input_port /\ Inputs' = Inputs
    BY <2>2 DEF Newest
  <2> QED BY <1>1, <2>1, <2>2, InputsNext
<1>2. ASSUME NEW name \in Names, PortAppears(name)  PROVE Newest'
  BY <1>2 DEF PortAppears, Newest, Inputs
<1>3. ASSUME NEW p \in ports, PortDisappears(p)  PROVE Newest'
  BY <1>3 DEF PortDisappears, Newest, Inputs
<1>4. CASE UNCHANGED vars
  BY <1>4 DEF vars, Newest, Inputs
<1> QED BY <1>1, <1>2, <1>3, <1>4 DEF Next

\* The port that is handled is remembered, or its hook fails and it came too early.
LEMMA HandledKept ==
  ASSUME KnownInv, Newest, NEW p \in appeared, NEW raises \in BOOLEAN, PortAdded(p, raises),
         NEW f \in p.name.families
  PROVE  Kept(p, f, Seen(p, f)', Inputs', ports')
<1>1. /\ p \in Records /\ p \in ports /\ p.name.side \in {"out", "in"} /\ f \in Families
      /\ outs'[f] = IF f \in Served(p, raises) /\ p.name.side = "out"
                      THEN Remember(f, outs[f], p) ELSE outs[f]
      /\ ins'[f] = IF f \in Served(p, raises) /\ p.name.side = "in"
                     THEN Remember(f, ins[f], p) ELSE ins[f]
      /\ ports' = ports /\ outs[f] \in Seq(Records) /\ ins[f] \in Seq(Records)
  <2>1. Types
    BY DEF KnownInv
  <2> QED BY <2>1, Handle DEF Types
<1>2. CASE f \in Served(p, raises)
  <2>1. /\ p \in ToSet(Remember(f, outs[f], p)) /\ p \in ToSet(Remember(f, ins[f], p))
    BY <1>1, RememberProperties
  <2>2. p \in Seen(p, f)'
    BY <1>1, <1>2, <2>1 DEF Seen
  <2> QED BY <2>2 DEF Kept
<1>3. CASE f \notin Served(p, raises)
  <2>1. Fails(f, p, raises)
    BY <1>3 DEF Served
  <2>2. /\ f \in {"from_sl", "to_sl"} /\ p.name.side = "out"
        /\ new_input_port = << >> \/ new_input_port[1] \notin ports
    BY <2>1 DEF Fails
  <2>3. \A q \in Inputs' : q.id < p.id => q \in Inputs
    BY InputsKnown, InputsNext DEF KnownInv, Types
  <2>4. Early(p, Inputs', ports)
    <3> SUFFICES ASSUME NEW a \in Inputs', a.id < p.id, a \in ports
                 PROVE  \E r \in Inputs' : r.id < p.id /\ r.id > a.id
      BY DEF Early
    <3>1. a \in Inputs
      BY <2>3
    <3>2. PICK n \in Inputs : new_input_port = <<n>> /\ \A q \in Inputs : q.id <= n.id
      BY <3>1 DEF Newest
    <3>3. n \notin ports
      BY <2>2, <3>2
    <3>4. n.id # a.id
      BY <3>1, <3>3, InputsKnown DEF KnownInv, Ages
    <3>5. n.id \in Nat /\ a.id \in Nat /\ a.id <= n.id
      BY <3>1, <3>2, InputsKnown
    <3>6. n.id < p.id
      BY InputsKnown DEF KnownInv, Ages
    <3>7. n \in Inputs'
      BY InputsNext
    <3> QED BY <3>4, <3>5, <3>6, <3>7
  <2> QED BY <1>1, <2>2, <2>4 DEF Kept
<1> QED BY <1>2, <1>3

\* What was handled before stays, or the new port takes its place.
LEMMA OthersKept ==
  ASSUME KnownInv, NEW p \in appeared, NEW raises \in BOOLEAN, PortAdded(p, raises),
         NEW q \in ports \ appeared, NEW f \in q.name.families,
         Kept(q, f, Seen(q, f), Inputs, ports)
  PROVE  Kept(q, f, Seen(q, f)', Inputs', ports')
<1>0. /\ Types /\ q \in Records /\ q.name \in Names
  BY DEF KnownInv, Types, Records
<1>1. /\ p \in Records /\ f \in Families /\ q.name.side \in {"out", "in"}
      /\ outs'[f] = IF f \in Served(p, raises) /\ p.name.side = "out"
                      THEN Remember(f, outs[f], p) ELSE outs[f]
      /\ ins'[f] = IF f \in Served(p, raises) /\ p.name.side = "in"
                     THEN Remember(f, ins[f], p) ELSE ins[f]
      /\ ports' = ports /\ outs[f] \in Seq(Records) /\ ins[f] \in Seq(Records)
  BY <1>0, Handle, PortsAssumption DEF Types
<1>2. q.id < p.id /\ q.id \in Nat /\ p.id \in Nat
  <2>1. q \in Handled
    BY DEF Handled
  <2> QED BY <1>0, <1>1, <2>1 DEF KnownInv, Ages, Records
<1>3. \A a \in Inputs' : a.id < q.id => a \in Inputs
  BY <1>2, InputsNext
<1>4. Inputs \subseteq Inputs'
  BY InputsNext
<1>5. Early(q, Inputs, ports) => Early(q, Inputs', ports)
  BY <1>3, <1>4 DEF Early
<1>6. \/ Seen(q, f)' = Seen(q, f)
      \/ ~Replaces(f, q.name.side) /\ Seen(q, f) \subseteq Seen(q, f)'
      \/ Replaces(f, q.name.side) /\ p \in Seen(q, f)'
  <2>1. CASE f \in Served(p, raises) /\ p.name.side = q.name.side
    <3> DEFINE s == IF q.name.side = "out" THEN outs[f] ELSE ins[f]
    <3>1. s \in Seq(Records) /\ Seen(q, f) = ToSet(s)
      BY <1>1 DEF Seen
    <3>2. Seen(q, f)' = ToSet(Remember(f, s, p))
      BY <1>1, <2>1 DEF Seen
    <3> HIDE DEF s
    <3>3. p \in ToSet(Remember(f, s, p))
      BY <1>1, <3>1, RememberProperties
    <3>4. ASSUME ~Replaces(f, q.name.side)  PROVE ToSet(s) \subseteq ToSet(Remember(f, s, p))
      <4>1. ~Replaces(f, p.name.side)
        BY <2>1, <3>4
      <4>2. ToSet(Remember(f, s, p)) = ToSet(s) \union {p}
        BY <1>1, <3>1, <4>1, RememberAppended
      <4> QED BY <4>2
    <3> QED BY <3>1, <3>2, <3>3, <3>4
  <2>2. CASE ~(f \in Served(p, raises) /\ p.name.side = q.name.side)
    BY <1>1, <2>2 DEF Seen
  <2> QED BY <2>1, <2>2
<1>7. CASE q \in Seen(q, f)
  BY <1>2, <1>6, <1>7 DEF Kept
<1>8. CASE Replaces(f, q.name.side) /\ \E r \in Seen(q, f) : r.id > q.id
  BY <1>2, <1>6, <1>8 DEF Kept
<1>9. CASE f \in {"from_sl", "to_sl"} /\ q.name.side = "out" /\ Early(q, Inputs, ports)
  BY <1>1, <1>5, <1>9 DEF Kept
<1> QED BY <1>7, <1>8, <1>9 DEF Kept

LEMMA KeptNext ==
  ASSUME KnownInv, Newest, AllKept, [Next]_vars
  PROVE  AllKept'
<1>1. ASSUME NEW p \in appeared, NEW raises \in BOOLEAN, PortAdded(p, raises)  PROVE AllKept'
  <2>1. ports' \ appeared' \subseteq (ports \ appeared) \union {p}
    BY <1>1 DEF PortAdded, surroundings
  <2>2. \A f \in p.name.families : Kept(p, f, Seen(p, f)', Inputs', ports')
    BY <1>1, HandledKept
  <2>3. \A q \in ports \ appeared : \A f \in q.name.families :
          Kept(q, f, Seen(q, f)', Inputs', ports')
    BY <1>1, OthersKept DEF AllKept
  <2> QED BY <2>1, <2>2, <2>3 DEF AllKept
<1>2. ASSUME NEW name \in Names, PortAppears(name)  PROVE AllKept'
  <2> DEFINE n == [id |-> nextId, name |-> name]
  <2>1. /\ ports' = ports \union {n} /\ appeared' = appeared \union {n}
        /\ UNCHANGED <<outs, ins>> /\ n.id = nextId
    BY <1>2 DEF PortAppears
  <2> HIDE DEF n
  <2>2. n \notin Inputs
    BY <2>1, InputsKnown DEF KnownInv, Types, Ages
  <2>3. ports' \ appeared' \subseteq ports \ appeared /\ Inputs' = Inputs
    BY <2>1 DEF Inputs
  <2>4. \A q : Early(q, Inputs, ports) => Early(q, Inputs', ports')
    BY <2>1, <2>2, <2>3 DEF Early
  <2>5. \A q, f : Seen(q, f)' = Seen(q, f)
    BY <2>1 DEF Seen
  <2> QED BY <2>3, <2>4, <2>5 DEF AllKept, Kept
<1>3. ASSUME NEW p \in ports, PortDisappears(p)  PROVE AllKept'
  <2>1. ports' \ appeared' \subseteq ports \ appeared /\ ports' \subseteq ports
    BY <1>3 DEF PortDisappears
  <2>2. Inputs' = Inputs
    BY <1>3 DEF PortDisappears, Inputs
  <2>3. \A q, f : Seen(q, f)' = Seen(q, f)
    BY <1>3 DEF PortDisappears, Seen
  <2>4. \A q : Early(q, Inputs, ports) => Early(q, Inputs', ports')
    BY <2>1, <2>2 DEF Early
  <2> QED BY <2>1, <2>2, <2>3, <2>4 DEF AllKept, Kept
<1>4. CASE UNCHANGED vars
  BY <1>4 DEF vars, surroundings, AllKept, Seen, Inputs
<1> QED BY <1>1, <1>2, <1>3, <1>4 DEF Next

(***************************************************************************)
(* A port that was seen is forgotten only for a newer one, or if it is an  *)
(* output of the looper's that came before the inputs.                     *)
(***************************************************************************)
THEOREM ForgottenSafe == Spec => []ForgottenOnlyIfEarly
<1>1. Init => Newest /\ AllKept
  <2> SUFFICES ASSUME Init  PROVE Newest /\ AllKept
    OBVIOUS
  <2>1. Inputs = {}
    BY NothingRemembered DEF Inputs, Families
  <2> QED BY <2>1 DEF Init, Newest, AllKept
<1>2. KnownInv /\ Newest /\ AllKept /\ [Next]_vars => Newest' /\ AllKept'
  BY NewestNext, KeptNext
<1>3. AllKept => ForgottenOnlyIfEarly
  <2> SUFFICES ASSUME AllKept, NEW p \in ports \ appeared, NEW f \in p.name.families
               PROVE  \/ p \in Seen(p, f)
                      \/ Replaces(f, p.name.side) /\ \E q \in Seen(p, f) : q.id > p.id
                      \/ /\ f \in {"from_sl", "to_sl"} /\ p.name.side = "out"
                         /\ \A q \in InputsBefore(p) :
                              q \in ports => \E r \in InputsBefore(p) : r.id > q.id
    BY DEF ForgottenOnlyIfEarly, Seen
  <2>1. InputsBefore(p) = {q \in Inputs : q.id < p.id}
    BY DEF InputsBefore, Inputs
  <2>2. Early(p, Inputs, ports) =>
          \A q \in InputsBefore(p) : q \in ports => \E r \in InputsBefore(p) : r.id > q.id
    BY <2>1 DEF Early
  <2> QED BY <2>2 DEF AllKept, Kept
<1> QED BY <1>1, <1>2, <1>3, KnownSafe, PTL DEF Spec
=============================================================================
