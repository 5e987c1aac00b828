---------------------------- MODULE TopicProofs ----------------------------
(***************************************************************************)
(* Proofs about Topic, for any number of peers, any view sizes and         *)
(* whatever the peers send: its type invariant, the bound on the passive   *)
(* view, that every connection stored in the active view is open, that     *)
(* messages are backed by what the node knows, and that a peer leaves the  *)
(* active view only for a cause.                                           *)
(*                                                                         *)
(* The first two invariants are inductive together with the type of the    *)
(* passive view; the messages follow from what each handler sends.         *)
(***************************************************************************)
EXTENDS Topic, FiniteSetTheorems, TLAPS

SmallView(P) == P \subseteq Node /\ Cardinality(P) <= MaxPassive

IInv ==
  /\ SmallView(passive)
  /\ DOMAIN active \subseteq Peer
  /\ ActiveLinked

\* The nodes a view may hold are finitely many.
LEMMA NodesFinite == IsFiniteSet(Node)
  BY TopicAssumption, FS_AddElement DEF Node

\* Any part of a view that fits still fits.
LEMMA SmallSubset ==
  ASSUME NEW P, NEW Q, SmallView(P), Q \subseteq P
  PROVE  SmallView(Q)
<1>1. IsFiniteSet(P)
  BY NodesFinite, FS_Subset DEF SmallView
<1>2. Cardinality(Q) <= Cardinality(P) /\ Cardinality(Q) \in Nat /\ Cardinality(P) \in Nat
  BY <1>1, FS_Subset, FS_CardinalityType
<1> QED  BY <1>2, TopicAssumption DEF SmallView

\* add_to_passive_view keeps the bound, whichever peer it evicts.
LEMMA AddToPassiveSmall ==
  ASSUME NEW P, NEW p \in Node, NEW Q \in AddToPassive(P, p), SmallView(P)
  PROVE  SmallView(Q)
<1>1. IsFiniteSet(P) /\ Cardinality(P) \in Nat
  BY NodesFinite, FS_Subset, FS_CardinalityType DEF SmallView
<1>2. CASE p \in P
  BY <1>2 DEF AddToPassive
<1>3. CASE p \notin P
  <2>1. IsFiniteSet(P \union {p}) /\ Cardinality(P \union {p}) = Cardinality(P) + 1
    BY <1>1, <1>3, FS_AddElement
  <2>2. P \union {p} \subseteq Node
    BY DEF SmallView
  <2>3. CASE Cardinality(P \union {p}) > MaxPassive
    <3>1. PICK q \in P \union {p} : Q = (P \union {p}) \ {q}
      BY <1>3, <2>3 DEF AddToPassive
    <3>2. Cardinality(Q) = Cardinality(P \union {p}) - 1
      BY <2>1, <3>1, FS_RemoveElement
    <3> QED  BY <1>1, <2>1, <2>2, <3>1, <3>2, TopicAssumption DEF SmallView
  <2>4. CASE ~(Cardinality(P \union {p}) > MaxPassive)
    <3>1. Q = P \union {p}
      BY <1>3, <2>4 DEF AddToPassive
    <3> QED  BY <1>1, <2>1, <2>2, <2>4, <3>1, TopicAssumption DEF SmallView
  <2> QED  BY <2>3, <2>4
<1> QED  BY <1>2, <1>3

\* A random sample of max_passive_view_size peers keeps the bound.
LEMMA SamplesSmall ==
  ASSUME NEW S, S \subseteq Node, NEW Q \in Samples(S, MaxPassive)
  PROVE  SmallView(Q)
<1>1. CASE Cardinality(S) <= MaxPassive
  BY <1>1 DEF Samples, SmallView
<1>2. CASE ~(Cardinality(S) <= MaxPassive)
  <2>1. Q \subseteq S /\ Cardinality(Q) = MaxPassive
    BY <1>2 DEF Samples, kSubset
  <2> QED  BY <2>1, TopicAssumption DEF SmallView
<1> QED  BY <1>1, <1>2

\* So does the sample of consume_shuffle_reply.
LEMMA ReplySamplesSmall ==
  ASSUME SmallView(passive), NEW peers, NEW Q \in ReplySamples(peers)
  PROVE  SmallView(Q)
  BY DEF ReplySamples, SmallView

\* add_to_active_view over an open connection keeps every active peer linked.
LEMMA AddToActiveLinked ==
  ASSUME NEW p \in Peer, NEW c \in Conn, IInv,
         links \subseteq links', <<p, c>> \in links',
         active' = AddToActive(p, c)
  PROVE  DOMAIN active' \subseteq Peer /\ ActiveLinked'
  BY DEF AddToActive, IInv, ActiveLinked, IsActive

\* Removing a peer from the active view keeps the others linked.
LEMMA WithoutActiveLinked ==
  ASSUME NEW p \in Peer, IInv, links \ {<<p, x>> : x \in Conn} \subseteq links',
         active' = WithoutActive(p)
  PROVE  DOMAIN active' \subseteq Peer /\ ActiveLinked'
<1>1. DOMAIN active' = DOMAIN active \ {p} /\ \A q \in DOMAIN active' : active'[q] = active[q]
  BY DEF WithoutActive, Restrict
<1>2. \A q \in DOMAIN active' : <<q, active[q]>> \in links /\ q # p
  BY <1>1 DEF IInv, ActiveLinked
<1>3. \A q \in DOMAIN active' : <<q, active[q]>> \notin {<<p, x>> : x \in Conn}
  BY <1>2
<1> QED  BY <1>1, <1>2, <1>3 DEF IInv, ActiveLinked

\* Empty views fit and are linked.
LEMMA InitEstablishes == Init => IInv
<1> SUFFICES ASSUME Init PROVE IInv
  OBVIOUS
<1>1. Cardinality({}) = 0
  BY FS_EmptySet
<1> QED  BY <1>1, TopicAssumption DEF Init, IInv, SmallView, ActiveLinked

----------------------------------------------------------------------------
\* Messages leave the set of open connections alone.
LEMMA MessagePreserves ==
  ASSUME IInv, NEW p \in Peer, NEW c \in Conn, MessageReceived(p, c)
  PROVE  IInv'
<1>0. links' = links /\ <<p, c>> \in links
  BY DEF MessageReceived
<1>a. ASSUME UNCHANGED active PROVE DOMAIN active' \subseteq Peer /\ ActiveLinked'
  BY <1>0, <1>a DEF IInv, ActiveLinked
<1>b. ASSUME Ban(p) PROVE IInv'
  <2>1. SmallView(passive')
    BY <1>b, SmallSubset DEF Ban, IInv
  <2>2. DOMAIN active' \subseteq Peer /\ ActiveLinked'
    BY <1>0, <1>b, WithoutActiveLinked DEF Ban
  <2> QED  BY <2>1, <2>2 DEF IInv, SmallView
<1>1. ASSUME NEW node \in Peer, ConsumeJoin(p, c, node) PROVE IInv'
  <2>1. CASE Ban(p)
    BY <1>b, <2>1
  <2>2. CASE passive' \in AddToPassive(passive, node) /\ active' = active
    <3>1. SmallView(passive')
      BY <2>2, AddToPassiveSmall DEF IInv, Node
    <3> QED  BY <1>a, <2>2, <3>1 DEF IInv, SmallView
  <2> QED  BY <1>1, <2>1, <2>2 DEF ConsumeJoin
<1>2. ASSUME NEW node \in Node, NEW hop, ConsumeForwardJoin(p, node, hop) PROVE IInv'
  <2>1. active' = active
    BY <1>2 DEF ConsumeForwardJoin
  <2>2. PICK P \in AddToPassive(passive, node) :
          passive' = P \/ \E r \in DOMAIN active : passive' \in AddToPassive(P, r)
    BY <1>2 DEF ConsumeForwardJoin
  <2>3. SmallView(P)
    BY <2>2, AddToPassiveSmall DEF IInv
  <2>4. SmallView(passive')
    BY <2>2, <2>3, AddToPassiveSmall DEF IInv, Node
  <2> QED  BY <1>a, <2>1, <2>4 DEF IInv, SmallView
<1>3. ASSUME NEW node \in Peer, NEW high, ConsumeNeighbour(p, c, node, high) PROVE IInv'
  <2>1. CASE Ban(p)
    BY <1>b, <2>1
  <2>2. CASE active' = AddToActive(p, c) /\ passive' = PassiveAfterAdd(p)
    <3>1. SmallView(passive')
      BY <2>2, SmallSubset DEF PassiveAfterAdd, IInv
    <3>2. DOMAIN active' \subseteq Peer /\ ActiveLinked'
      BY <1>0, <2>2, AddToActiveLinked
    <3> QED  BY <3>1, <3>2 DEF IInv, SmallView
  <2>3. CASE UNCHANGED views
    BY <1>a, <2>3 DEF views, IInv, SmallView
  <2> QED  BY <1>3, <2>1, <2>2, <2>3 DEF ConsumeNeighbour
<1>4. ASSUME NEW origin, NEW hop, ConsumeShuffle(p, origin, hop) PROVE IInv'
  <2>1. active' = active
    BY <1>4 DEF ConsumeShuffle
  <2>2. PICK received \in Received :
          passive' \in Samples((DOMAIN active \union passive) \union received, MaxPassive)
    BY <1>4 DEF ConsumeShuffle
  <2>3. received \subseteq Node
    BY <2>2, TopicAssumption DEF Received
  <2>4. (DOMAIN active \union passive) \union received \subseteq Node
    BY <2>3 DEF IInv, SmallView, Node
  <2>5. SmallView(passive')
    BY <2>2, <2>4, SamplesSmall
  <2> QED  BY <1>a, <2>1, <2>5 DEF IInv, SmallView
<1>5. ASSUME NEW peers, ConsumeShuffleReply(p, c, peers) PROVE IInv'
  <2>1. active' = active /\ passive' \in ReplySamples(peers)
    BY <1>5 DEF ConsumeShuffleReply
  <2>2. SmallView(passive')
    BY <2>1, ReplySamplesSmall DEF IInv
  <2> QED  BY <1>a, <2>1, <2>2 DEF IInv, SmallView
<1>6. ASSUME ConsumeGossip(p, c) PROVE IInv'
  BY <1>a, <1>6 DEF ConsumeGossip, views, IInv, SmallView
<1>7. Named \subseteq Node
  BY TopicAssumption
<1> QED
  BY <1>1, <1>2, <1>3, <1>4, <1>5, <1>6, <1>7 DEF MessageReceived

\* Every handler, the tick and every expiry keep the invariant.
LEMMA StepPreserves ==
  ASSUME IInv, [Next]_vars
  PROVE  IInv'
<1>1. ASSUME NEW p \in Peer, NEW c \in Conn, NEW h \in Host, PeerConnected(p, c, h)
      PROVE  IInv'
  <2>1. links \subseteq links' /\ <<p, c>> \in links'
    BY <1>1 DEF PeerConnected
  <2>2. CASE p \in neighbours
    <3>1. active' = AddToActive(p, c) /\ passive' = PassiveAfterAdd(p)
      BY <1>1, <2>2 DEF PeerConnected
    <3>2. SmallView(passive')
      BY <3>1, SmallSubset DEF PassiveAfterAdd, IInv
    <3> QED  BY <2>1, <3>1, <3>2, AddToActiveLinked DEF IInv, SmallView
  <2>3. CASE p \notin neighbours
    BY <1>1, <2>1, <2>3 DEF PeerConnected, IInv, SmallView, ActiveLinked
  <2> QED  BY <2>2, <2>3
<1>2. ASSUME NEW p \in Peer, NEW c \in Conn, PeerDisconnected(p, c) PROVE IInv'
  <2>1. links' = links \ {<<p, c>>} /\ active' = WithoutActive(p)
    BY <1>2 DEF PeerDisconnected
  <2>2. SmallView(passive')
    BY <1>2, AddToPassiveSmall DEF PeerDisconnected, IInv, Node
  <2>3. links \ {<<p, x>> : x \in Conn} \subseteq links'
    BY <2>1
  <2>4. DOMAIN active' \subseteq Peer /\ ActiveLinked'
    BY <2>1, <2>3, WithoutActiveLinked
  <2> QED  BY <2>2, <2>4 DEF IInv, SmallView
<1>3. ASSUME NEW p \in Peer, NEW c \in Conn, MessageReceived(p, c) PROVE IInv'
  BY <1>3, MessagePreserves
<1>4. ASSUME UNCHANGED <<active, passive, links>> PROVE IInv'
  BY <1>4 DEF IInv, SmallView, ActiveLinked
<1>5. Tick \/ Gossip \/ UNCHANGED vars => UNCHANGED <<active, passive, links>>
  BY DEF Tick, Gossip, views, vars
<1>6. ExpireDial \/ ExpireNeighbour \/ ExpireJoin \/ ExpireReply \/ ExpireDisconnect
        => UNCHANGED <<active, passive, links>>
  BY DEF ExpireDial, ExpireNeighbour, ExpireJoin, ExpireReply, ExpireDisconnect, views
<1> QED  BY <1>1, <1>2, <1>3, <1>4, <1>5, <1>6 DEF Next

\* Whatever the peers send and in whatever order connections come and go, the
\* passive view never holds more than max_passive_view_size peers.
THEOREM PassiveViewBounded == Spec => []PassiveBounded
<1>1. IInv => PassiveBounded
  BY DEF IInv, SmallView, PassiveBounded
<1> QED  BY InitEstablishes, StepPreserves, <1>1, PTL DEF Spec

\* The connection stored for an active peer is always open: gossip is never
\* sent on a connection the topic was told is closed.
THEOREM ActiveViewLinked == Spec => []ActiveLinked
<1>1. IInv => ActiveLinked
  BY DEF IInv
<1> QED  BY InitEstablishes, StepPreserves, <1>1, PTL DEF Spec

----------------------------------------------------------------------------
(* Types, and what the messages sent are backed by.                         *)

\* What is sent to peers, with a hop count within the walk, is a message.
LEMMA ToAllTypes ==
  ASSUME NEW ps, ps \subseteq Peer, NEW kind \in Kind, NEW hop \in 0 .. WalkLength + 1
  PROVE  ToAll(ps, kind, hop) \subseteq [to : Peer, kind : Kind, hop : 0 .. WalkLength + 1]
  BY DEF ToAll

\* add_to_passive_view and the samples draw from what they are given.
LEMMA PassiveTypes ==
  ASSUME NEW P, P \subseteq Node
  PROVE  /\ \A p \in Node : \A Q \in AddToPassive(P, p) : Q \subseteq Node
         /\ \A k : \A Q \in Samples(P, k) : Q \subseteq Node
  BY DEF AddToPassive, Samples, kSubset

\* try_neighbouring_with adds a node and its addresses.
LEMMA TryNeighbouringTypes ==
  ASSUME TypeOK, NEW cond, NEW p \in Node, TryNeighbouringIf(cond, p)
  PROVE  neighbours' \subseteq Node /\ dials' \subseteq Host
  BY TopicAssumption DEF TypeOK, TryNeighbouringIf

\* Only connections that were announced are being closed: the one a message came
\* from, or the stored one of an active peer.
LEMMA ClosesTypes ==
  ASSUME TypeOK, ActiveLinked, NEW p, NEW c
  PROVE  /\ <<p, c>> \in links => Closes(p, c) \subseteq links
         /\ p \in DOMAIN active => Closes(p, active[p]) \subseteq links
  BY DEF Closes, ActiveLinked

\* add_to_active_view and active_peers.remove() keep the type of the view.
LEMMA ActiveTypes ==
  ASSUME TypeOK, NEW p \in Peer, NEW c \in Conn
  PROVE  /\ DOMAIN AddToActive(p, c) = DOMAIN active \union {p}
         /\ AddToActive(p, c) \in [DOMAIN active \union {p} -> Conn]
         /\ DOMAIN WithoutActive(p) = DOMAIN active \ {p}
         /\ WithoutActive(p) \in [DOMAIN active \ {p} -> Conn]
<1>1. p # Self
  BY TopicAssumption
<1>2. CASE IsActive(p)
  <2>1. AddToActive(p, c) = active /\ DOMAIN active \union {p} = DOMAIN active
    BY <1>2 DEF AddToActive, IsActive
  <2> QED  BY <2>1 DEF TypeOK, WithoutActive, Restrict
<1>3. CASE ~IsActive(p)
  BY <1>1, <1>3 DEF TypeOK, AddToActive, WithoutActive, Restrict
<1> QED  BY <1>2, <1>3

\* The messages a handler sends, given the view it leaves.
Backed(ms, view) ==
  \A m \in ms : /\ m.kind = "neighbour" => m.to \in DOMAIN view
                /\ m.kind \in {"forward", "shuffle"} => m.hop <= WalkLength \/ m.hop = 1

\* Handlers of messages keep the types, and send what is backed.
LEMMA MessageTypes ==
  ASSUME TypeOK, ActiveLinked, NEW p \in Peer, NEW c \in Conn, MessageReceived(p, c)
  PROVE  TypeOK' /\ Backed(out', active')
<1> DEFINE Message == [to : Peer, kind : Kind, hop : 0 .. WalkLength + 1]
<1>0. links' = links /\ <<p, c>> \in links
  BY DEF MessageReceived
<1>t. /\ WalkLength \in Nat /\ 0 \in 0 .. WalkLength + 1 /\ 1 \in 0 .. WalkLength + 1
      /\ Peer \subseteq Node
  BY TopicAssumption DEF Node
<1>a. ASSUME UNCHANGED active PROVE DOMAIN active' \subseteq Peer /\ active' \in [DOMAIN active' -> Conn]
  BY <1>a DEF TypeOK
<1>b. ASSUME Ban(p) PROVE TypeOK' /\ Backed(out', active')
  BY <1>0, <1>b, ActiveTypes DEF Ban, TypeOK, Backed
<1>1. ASSUME NEW node \in Peer, ConsumeJoin(p, c, node) PROVE TypeOK' /\ Backed(out', active')
  <2>1. CASE Ban(p)
    BY <1>b, <2>1
  <2>2. CASE ~Ban(p)
    <3>1. /\ out' = ToAll(DOMAIN active, "forward", 1)
          /\ disconnects' = disconnects \union {p}
          /\ closing' = closing \union Closes(p, c)
          /\ TryNeighbouringIf(~Full, node)
          /\ passive' \in AddToPassive(passive, node)
          /\ UNCHANGED <<active, joins, replies>>
      BY <1>1, <2>2 DEF ConsumeJoin
    <3>2. out' \subseteq Message
      BY <1>t, <3>1, ToAllTypes DEF TypeOK, Kind
    <3>3. passive' \subseteq Node /\ closing' \subseteq links
      BY <1>0, <1>t, <3>1, PassiveTypes, ClosesTypes DEF TypeOK
    <3>4. neighbours' \subseteq Node /\ dials' \subseteq Host
      BY <1>t, <3>1, TryNeighbouringTypes
    <3>5. Backed(out', active')
      BY <3>1 DEF Backed, ToAll
    <3> QED  BY <1>0, <1>a, <3>1, <3>2, <3>3, <3>4, <3>5 DEF TypeOK
  <2> QED  BY <2>1, <2>2
<1>2. ASSUME NEW node \in Node, NEW hop \in 1 .. WalkLength, ConsumeForwardJoin(p, node, hop)
      PROVE  TypeOK' /\ Backed(out', active')
  <2>1. /\ UNCHANGED <<active, joins, replies>>
        /\ \E cond : TryNeighbouringIf(cond, node)
        /\ out' = IF LastHop(hop) THEN {} ELSE ToAll(DOMAIN active \ {p}, "forward", hop + 1)
    BY <1>2 DEF ConsumeForwardJoin
  <2>2. PICK P \in AddToPassive(passive, node) :
          \/ /\ passive' = P
             /\ UNCHANGED <<disconnects, closing>>
          \/ \E r \in DOMAIN active :
               /\ disconnects' = disconnects \union {r}
               /\ closing' = closing \union Closes(r, active[r])
               /\ passive' \in AddToPassive(P, r)
    BY <1>2 DEF ConsumeForwardJoin
  <2>3. P \subseteq Node
    BY <2>2, PassiveTypes DEF TypeOK
  <2>4. passive' \subseteq Node /\ closing' \subseteq links /\ disconnects' \subseteq Peer
    BY <1>t, <2>2, <2>3, PassiveTypes, ClosesTypes DEF TypeOK
  <2>5. neighbours' \subseteq Node /\ dials' \subseteq Host
    BY <2>1, TryNeighbouringTypes
  <2>6. out' \subseteq Message
    BY <1>t, <2>1, ToAllTypes DEF TypeOK, Kind
  <2>7. Backed(out', active')
    BY <1>t, <2>1 DEF Backed, ToAll, LastHop
  <2> QED  BY <1>0, <1>a, <2>1, <2>4, <2>5, <2>6, <2>7 DEF TypeOK
<1>3. ASSUME NEW node \in Peer, NEW high, ConsumeNeighbour(p, c, node, high)
      PROVE  TypeOK' /\ Backed(out', active')
  <2>1. CASE Ban(p)
    BY <1>b, <2>1
  <2>2. CASE /\ active' = AddToActive(p, c) /\ passive' = PassiveAfterAdd(p)
             /\ out' = {} /\ UNCHANGED <<pending, closing>>
    <3>1. /\ DOMAIN active' = DOMAIN active \union {p}
          /\ active' \in [DOMAIN active' -> Conn]
      BY <2>2, ActiveTypes
    <3>2. passive' \subseteq passive
      BY <2>2 DEF PassiveAfterAdd
    <3> QED  BY <1>0, <2>2, <3>1, <3>2 DEF pending, TypeOK, Backed
  <2>3. CASE /\ \E rs \in SUBSET DOMAIN active :
                  /\ disconnects' = disconnects \union rs \union {p}
                  /\ closing' = closing \union Closes(p, c)
                                  \union UNION {Closes(r, active[r]) : r \in rs}
             /\ out' = {}
             /\ UNCHANGED <<views, dials, neighbours, joins, replies>>
    <3>1. PICK rs \in SUBSET DOMAIN active :
            /\ disconnects' = disconnects \union rs \union {p}
            /\ closing' = closing \union Closes(p, c)
                            \union UNION {Closes(r, active[r]) : r \in rs}
      BY <2>3
    <3>2. \A r \in rs : Closes(r, active[r]) \subseteq links
      BY ClosesTypes
    <3>3. closing' \subseteq links
      BY <1>0, <3>1, <3>2, ClosesTypes DEF TypeOK
    <3> QED  BY <1>0, <1>a, <2>3, <3>1, <3>3 DEF views, TypeOK, Backed
  <2> QED  BY <1>3, <2>1, <2>2, <2>3 DEF ConsumeNeighbour
<1>4. ASSUME NEW origin \in Node, NEW hop \in 1 .. WalkLength,
             ConsumeShuffle(p, origin, hop)
      PROVE  TypeOK' /\ Backed(out', active')
  <2>1. PICK received \in Received :
          passive' \in Samples((DOMAIN active \union passive) \union received, MaxPassive)
    BY <1>4 DEF ConsumeShuffle
  <2>2. received \subseteq Node
    BY <2>1, TopicAssumption DEF Received
  <2>3. passive' \subseteq Node
    BY <1>t, <2>1, <2>2, PassiveTypes DEF TypeOK
  <2>4. /\ UNCHANGED <<active, neighbours, joins, disconnects, closing>>
        /\ replies' \subseteq Node /\ dials' \subseteq Host
    BY <1>4, TopicAssumption DEF ConsumeShuffle, TypeOK
  <2>5. out' = (IF IsActive(origin) THEN ToAll({origin}, "reply", 0) ELSE {})
                 \union (IF LastHop(hop) THEN {}
                         ELSE ToAll(DOMAIN active \ {p}, "shuffle", hop + 1))
    BY <1>4 DEF ConsumeShuffle
  <2>6. IsActive(origin) => ToAll({origin}, "reply", 0) \subseteq Message
    BY <1>t, ToAllTypes DEF TypeOK, IsActive, Kind
  <2>7. ToAll(DOMAIN active \ {p}, "shuffle", hop + 1) \subseteq Message
    <3>1. /\ DOMAIN active \ {p} \subseteq Peer /\ "shuffle" \in Kind
          /\ hop + 1 \in 0 .. WalkLength + 1
      BY <1>t DEF TypeOK, Kind
    <3> QED  BY <3>1, ToAllTypes
  <2>8. out' \subseteq Message
    BY <2>5, <2>6, <2>7
  <2>9. Backed(out', active')
    BY <1>t, <2>5 DEF Backed, ToAll, LastHop
  <2> QED  BY <1>0, <1>a, <2>3, <2>4, <2>8, <2>9 DEF TypeOK
<1>5. ASSUME NEW peers, ConsumeShuffleReply(p, c, peers) PROVE TypeOK' /\ Backed(out', active')
  <2>1. passive' \subseteq passive
    BY <1>5 DEF ConsumeShuffleReply, ReplySamples
  <2>2. closing' \subseteq links
    BY <1>0, <1>5, ClosesTypes DEF ConsumeShuffleReply, TypeOK
  <2> QED  BY <1>0, <1>5, <2>1, <2>2 DEF ConsumeShuffleReply, TypeOK, Backed
<1>6. ASSUME ConsumeGossip(p, c) PROVE TypeOK' /\ Backed(out', active')
  <2>1. closing' \subseteq links
    BY <1>0, <1>6, ClosesTypes DEF ConsumeGossip, TypeOK
  <2>2. ToAll(DOMAIN active \ {p}, "gossip", 0) \subseteq Message
    BY <1>t, ToAllTypes DEF TypeOK, Kind
  <2>3. out' \subseteq Message
    BY <1>6, <2>2 DEF ConsumeGossip
  <2>4. Backed(out', active')
    BY <1>6 DEF ConsumeGossip, Backed, ToAll
  <2>5. /\ disconnects' \subseteq Peer /\ UNCHANGED <<dials, neighbours, joins, replies>>
        /\ UNCHANGED active /\ UNCHANGED passive
    BY <1>6 DEF ConsumeGossip, views, TypeOK
  <2> QED  BY <1>0, <1>a, <2>1, <2>3, <2>4, <2>5 DEF TypeOK
<1>7. Named \subseteq Node
  BY TopicAssumption
<1> QED
  BY <1>1, <1>2, <1>3, <1>4, <1>5, <1>6, <1>7 DEF MessageReceived

\* Every handler, the tick and every expiry keep the types, and send what is
\* backed.
LEMMA StepTypes ==
  ASSUME TypeOK, ActiveLinked, Next
  PROVE  TypeOK' /\ Backed(out', active')
<1> DEFINE Message == [to : Peer, kind : Kind, hop : 0 .. WalkLength + 1]
<1>t. /\ WalkLength \in Nat /\ 0 \in 0 .. WalkLength + 1 /\ 1 \in 0 .. WalkLength + 1
      /\ Peer \subseteq Node
  BY TopicAssumption DEF Node
<1>1. ASSUME NEW p \in Peer, NEW c \in Conn, NEW h \in Host, PeerConnected(p, c, h)
      PROVE  TypeOK' /\ Backed(out', active')
  <2>a. /\ DOMAIN AddToActive(p, c) = DOMAIN active \union {p}
        /\ AddToActive(p, c) \in [DOMAIN active \union {p} -> Conn]
    BY ActiveTypes
  <2>1. \A k \in {"join", "neighbour", "reply"} : ToAll({p}, k, 0) \subseteq Message
    BY <1>t, ToAllTypes DEF Kind
  <2>2. out' \subseteq Message
    BY <1>1, <2>1 DEF PeerConnected
  <2>3. DOMAIN active' \subseteq Peer /\ active' \in [DOMAIN active' -> Conn]
    BY <1>1, <2>a DEF PeerConnected, TypeOK
  <2>4. closing' \subseteq links' /\ links' \subseteq Link
    BY <1>1 DEF PeerConnected, Closes, TypeOK, Link
  <2>5. /\ passive' \subseteq Node /\ dials' \subseteq Host /\ neighbours' \subseteq Node
        /\ joins' \subseteq Peer /\ replies' \subseteq Node /\ disconnects' \subseteq Peer
    BY <1>1 DEF PeerConnected, PassiveAfterAdd, TypeOK
  <2>6. p \in neighbours => p \in DOMAIN active'
    BY <1>1, <2>a DEF PeerConnected
  <2>7. Backed(out', active')
    BY <1>1, <2>6 DEF PeerConnected, Backed, ToAll
  <2> QED  BY <2>2, <2>3, <2>4, <2>5, <2>7 DEF TypeOK
<1>2. ASSUME NEW p \in Peer, NEW c \in Conn, PeerDisconnected(p, c)
      PROVE  TypeOK' /\ Backed(out', active')
  <2>1. passive' \subseteq Node
    BY <1>t, <1>2, PassiveTypes DEF PeerDisconnected, TypeOK
  <2> QED  BY <1>2, <2>1, ActiveTypes DEF PeerDisconnected, TypeOK, Backed
<1>3. ASSUME NEW p \in Peer, NEW c \in Conn, MessageReceived(p, c)
      PROVE  TypeOK' /\ Backed(out', active')
  BY <1>3, MessageTypes
<1>4. ASSUME Tick PROVE TypeOK' /\ Backed(out', active')
  <2>1. UNCHANGED <<active, passive, joins, replies, links>>
    BY <1>4 DEF Tick
  <2>2. out' \subseteq Message
    <3>1. \A p \in DOMAIN active : ToAll({p}, "shuffle", 1) \subseteq Message
      BY <1>t, ToAllTypes DEF TypeOK, Kind
    <3> QED  BY <1>4, <3>1 DEF Tick, InitiateShuffle
  <2>3. Backed(out', active')
    BY <1>4 DEF Tick, InitiateShuffle, Backed, ToAll
  <2>4. \/ UNCHANGED <<dials, neighbours, disconnects, closing>>
        \/ Stabilize
    BY <1>4 DEF Tick
  <2>5. CASE Stabilize
    <3>1. neighbours' \subseteq Node /\ dials' \subseteq Host
      BY <2>5, TryNeighbouringTypes, TopicAssumption DEF Stabilize, BootstrapRetry, TypeOK
    <3>2. disconnects' \subseteq Peer /\ closing' \subseteq links
      BY <2>5 DEF Stabilize, TypeOK, ActiveLinked
    <3> QED  BY <2>1, <2>2, <2>3, <3>1, <3>2 DEF TypeOK
  <2>6. CASE UNCHANGED <<dials, neighbours, disconnects, closing>>
    BY <2>1, <2>2, <2>3, <2>6 DEF TypeOK
  <2> QED  BY <2>4, <2>5, <2>6
<1>5. ASSUME Gossip PROVE TypeOK' /\ Backed(out', active')
  <2>1. out' \subseteq Message
    BY <1>5, <1>t, ToAllTypes DEF Gossip, TypeOK, Kind
  <2>2. Backed(out', active')
    BY <1>5 DEF Gossip, Backed, ToAll
  <2> QED  BY <1>5, <2>1, <2>2 DEF Gossip, views, pending, TypeOK
<1>6. ASSUME ExpireDial \/ ExpireNeighbour \/ ExpireJoin \/ ExpireReply \/ ExpireDisconnect
      PROVE  TypeOK' /\ Backed(out', active')
  BY <1>6 DEF ExpireDial, ExpireNeighbour, ExpireJoin, ExpireReply, ExpireDisconnect,
              views, TypeOK, Backed
<1> QED  BY <1>1, <1>2, <1>3, <1>4, <1>5, <1>6 DEF Next

\* The collections of a topic keep their types, and connections are being closed
\* only while they are open, whatever the peers send.
THEOREM TypeCorrect == Spec => []TypeOK
<1>1. Init => TypeOK
  BY TopicAssumption DEF Init, TypeOK
<1>2. TypeOK /\ UNCHANGED vars => TypeOK'
  BY DEF vars, TypeOK
<1>3. TypeOK /\ ActiveLinked /\ [Next]_vars => TypeOK'
  BY <1>2, StepTypes
<1> QED  BY <1>1, <1>3, ActiveViewLinked, PTL DEF Spec

\* A peer that is told NEIGHBOUR is in the active view, and no forwarded message
\* travels further than the configured walk, for any length of it.
THEOREM MessagesBacked == Spec => []SentMessagesAreBacked
<1>1. SentMessagesAreBacked <=> Backed(out, active)
  BY DEF SentMessagesAreBacked, Backed, IsActive
<1>2. Init => Backed(out, active)
  BY DEF Init, Backed
<1>3. Backed(out, active) /\ UNCHANGED vars => Backed(out, active)'
  BY DEF vars, Backed
<1>4. TypeOK /\ ActiveLinked /\ Backed(out, active) /\ [Next]_vars
        => Backed(out, active)'
  BY <1>3, StepTypes DEF Backed
<1> QED  BY <1>1, <1>2, <1>4, TypeCorrect, ActiveViewLinked, PTL DEF Spec

\* What a step may do to the active view.
LossHasCause ==
  \A p \in DOMAIN active \ DOMAIN active' :
    \/ \E c \in Conn : <<p, c>> \in links \ links'
    \/ \A c \in Conn : <<p, c>> \in links => <<p, c>> \in closing'

\* Peers leave the active view in handle_peer_disconnected and in ban only.
LEMMA StepLoss ==
  ASSUME TypeOK, Next
  PROVE  LossHasCause
<1>1. ASSUME DOMAIN active \subseteq DOMAIN active' PROVE LossHasCause
  BY <1>1 DEF LossHasCause
<1>2. ASSUME NEW p \in Peer, NEW c \in Conn, NEW h \in Host, PeerConnected(p, c, h)
      PROVE  LossHasCause
  <2>1. DOMAIN AddToActive(p, c) = DOMAIN active \union {p}
    BY ActiveTypes
  <2> QED  BY <1>1, <1>2, <2>1 DEF PeerConnected
<1>3. ASSUME NEW p \in Peer, NEW c \in Conn, PeerDisconnected(p, c) PROVE LossHasCause
  BY <1>3, ActiveTypes DEF PeerDisconnected, LossHasCause
<1>4. ASSUME NEW p \in Peer, Ban(p) PROVE LossHasCause
  BY <1>4, ActiveTypes DEF Ban, LossHasCause, TypeOK, Link
<1>5. ASSUME NEW p \in Peer, NEW c \in Conn, MessageReceived(p, c) PROVE LossHasCause
  <2>1. \/ Ban(p) \/ active' = active \/ active' = AddToActive(p, c)
    BY <1>5 DEF MessageReceived, ConsumeJoin, ConsumeForwardJoin, ConsumeNeighbour,
                ConsumeShuffle, ConsumeShuffleReply, ConsumeGossip, views
  <2> QED  BY <1>1, <1>4, <2>1, ActiveTypes
<1>6. Tick \/ Gossip => active' = active
  BY DEF Tick, Gossip, views
<1>7. ExpireDial \/ ExpireNeighbour \/ ExpireJoin \/ ExpireReply \/ ExpireDisconnect
        => active' = active
  BY DEF ExpireDial, ExpireNeighbour, ExpireJoin, ExpireReply, ExpireDisconnect, views
<1> QED  BY <1>1, <1>2, <1>3, <1>5, <1>6, <1>7 DEF Next

\* No handler evicts a peer from the active view and leaves its connections open:
\* a peer leaves when a connection was closed, or when all are being closed.
THEOREM LossesHaveCause == Spec => ActiveLossHasCause
<1>1. TypeOK /\ [Next]_vars => [LossHasCause]_vars
  BY StepLoss
<1>2. ActiveLossHasCause <=> [][LossHasCause]_vars
  BY DEF ActiveLossHasCause, LossHasCause
<1> QED  BY <1>1, <1>2, TypeCorrect, PTL DEF Spec
============================================================================
