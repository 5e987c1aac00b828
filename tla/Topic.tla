------------------------------- MODULE Topic -------------------------------
(***************************************************************************)
(* One node's side of the HyParView overlay of a topic (TopicInner of     *)
(* network/src/topic.rs): the active and passive views, the collections of *)
(* operations in flight, and the handlers of the events the network layer  *)
(* injects.  Handlers run one at a time under the topic's write lock, so    *)
(* each is one action.  What the other nodes send and which connections    *)
(* open and close is the environment's choice.                             *)
(*                                                                         *)
(* Abstractions.  Of the addresses of a peer, only the IP addresses are    *)
(* kept, as the pending-dial bookkeeping does.  Views and messages carry   *)
(* lists of them that differ in time (a node starts with none, network.rs: *)
(* 150, and one on localhost never advertises any, behaviour.rs:146), so   *)
(* whenever a peer is dialled it is at one of the lists it may be known    *)
(* by, perhaps an empty one.  An entry of an expiring collection may leave *)
(* it at any time: expired entries are invisible to insert, contains and   *)
(* remove, and is_empty is only asked right after prune_expired.  Random   *)
(* choices of the code are nondeterministic.                               *)
(***************************************************************************)
EXTENDS Naturals, FiniteSets, FiniteSetsExt, Functions

CONSTANTS
  Peer,          \* remote nodes
  Self,          \* this_node
  Conn,          \* connection ids, of all peers; one is reused only once closed
  Host,          \* IP addresses
  Hosts,         \* per node, the sets of IP addresses it may be known by
  Bootstrap,     \* IP addresses of topic_config.bootstrap
  Optimal,       \* optimal_active_view_size
  MinActive,     \* min_active_view_size
  MaxPassive,    \* max_passive_view_size
  SampleSize,    \* shuffle_sample_size
  WalkLength,    \* random_walk_length
  Speech,        \* kinds of messages the other nodes send in this instance
  Named          \* nodes their FORWARDJOINs and SHUFFLEs are about in this instance

Node == Peer \union {Self}
Kind == {"join", "forward", "neighbour", "shuffle", "reply", "gossip"}

ASSUME TopicAssumption ==
  /\ Self \notin Peer
  /\ IsFiniteSet(Peer)
  /\ Hosts \in [Node -> SUBSET SUBSET Host] /\ \A p \in Node : Hosts[p] # {}
  /\ Bootstrap \subseteq Host
  /\ Optimal \in Nat \ {0} /\ MinActive \in Nat /\ MinActive <= Optimal
  /\ MaxPassive \in Nat /\ SampleSize \in Nat /\ WalkLength \in Nat
  /\ Speech \subseteq Kind /\ Named \subseteq Node

VARIABLES
  active,        \* active_peers: peer -> connection
  passive,       \* passive_peers
  dials,         \* pending_dials
  neighbours,    \* pending_neighbours
  joins,         \* pending_joins
  replies,       \* pending_shuffle_replies (by origin)
  disconnects,   \* pending_disconnects
  links,         \* connections announced to this topic and not closed
  closing,       \* those a Disconnect command was sent for
  out            \* messages the last handler sent

views   == <<active, passive>>
pending == <<dials, neighbours, joins, replies, disconnects>>
vars    == <<active, passive, dials, neighbours, joins, replies, disconnects,
             links, closing, out>>

----------------------------------------------------------------------------
(* Helpers of the handlers. *)

IsActive(p)   == p \in DOMAIN active
ActiveLen     == Cardinality(DOMAIN active)
Starved       == ActiveLen < MinActive
Full          == ActiveLen >= Optimal
Overconnected == ActiveLen > Optimal

\* is_pending_dial(), for a peer with the addresses hs.
IsPendingDial(hs) == hs \cap dials # {}

\* Random samples of k elements, or of all of them when there are fewer.
Samples(S, k) == IF Cardinality(S) <= k THEN {S} ELSE kSubset(k, S)

\* Mutant: nothing is evicted from a full passive view
AddToPassiveNoEvict(P, p) == {P \union {p}}

\* The passive views that add_to_passive_view may leave.
AddToPassive(P, p) ==
  IF p \in P THEN {P}
  ELSE IF Cardinality(P \union {p}) > MaxPassive
       THEN {(P \union {p}) \ {q} : q \in P \union {p}}
       ELSE {P \union {p}}

\* Mutants: a full active view is respected; a full active view loses a member
AddToActiveUnlessFull(p, c) ==
  IF IsActive(p) \/ p = Self \/ Full THEN active
  ELSE [q \in DOMAIN active \union {p} |-> IF q = p THEN c ELSE active[q]]
AddToActiveEvicts(p, c) ==
  IF IsActive(p) \/ p = Self THEN active
  ELSE LET kept == IF Full THEN {} ELSE DOMAIN active
       IN  [q \in kept \union {p} |-> IF q = p THEN c ELSE active[q]]

AddToActive(p, c) ==
  IF IsActive(p) \/ p = Self THEN active
  ELSE [q \in DOMAIN active \union {p} |-> IF q = p THEN c ELSE active[q]]

\* remove_from_passive_view at the end of add_to_active_view.
PassiveAfterAdd(p) == IF IsActive(p) \/ p = Self THEN passive ELSE passive \ {p}

\* Mutant: the active view keeps a peer whose connection was closed
WithoutActiveKeeps(p) == active

\* active_peers.remove()
WithoutActive(p) == Restrict(active, DOMAIN active \ {p})

\* Mutant: a command for every connection id the peer could have
ClosesAnyConn(p, c) == IF p \in disconnects THEN {} ELSE {p} \X Conn

\* disconnect(): commands are only sent for peers not yet being disconnected.
Closes(p, c) == IF p \in disconnects THEN {} ELSE {<<p, c>>}

\* try_neighbouring_with(): whether the process starts.
CanNeighbour(p, hs) == ~IsActive(p) /\ ~IsPendingDial(hs) /\ p \notin neighbours

\* Conjuncts setting the collections try_neighbouring_with changes, when the
\* caller's condition holds: the peer is dialled at all its addresses.
TryNeighbouringIf(cond, p) ==
  \E hs \in Hosts[p] :
    LET starts == cond /\ CanNeighbour(p, hs)
    IN  /\ neighbours' = IF starts THEN neighbours \union {p} ELSE neighbours
        /\ dials' = IF starts THEN dials \union hs ELSE dials

\* Whether a message that has travelled this far is not forwarded.
LastHop(hop) == hop >= WalkLength

\* Messages of one kind to a set of peers, on their stored connections or the
\* one just received from.
ToAll(ps, kind, hop) == {[to |-> p, kind |-> kind, hop |-> hop] : p \in ps}

----------------------------------------------------------------------------
(* Topic::new dials every bootstrap node. *)
Init ==
  /\ active = [p \in {} |-> {}]
  /\ passive = {} /\ dials = Bootstrap
  /\ neighbours = {} /\ joins = {} /\ replies = {} /\ disconnects = {}
  /\ links = {} /\ closing = {} /\ out = {}

(* Network events. *)

\* handle_peer_connected: a JOIN for a peer dialled for no known purpose, then
\* the NEIGHBOUR it was dialled for, then the shuffle reply it was dialled for.
\* The event has one address, the remote one of the connection.
PeerConnected(p, c, h) ==
  LET sendsJoin  == /\ ~Full /\ h \in dials
                    /\ p \notin joins /\ p \notin neighbours /\ p \notin replies
      sendsNeigh == p \in neighbours
      sendsReply == p \in replies
      closes     == sendsReply /\ ~IsActive(p) /\ ~sendsNeigh
  IN  /\ \A q \in Peer : <<q, c>> \notin links
      /\ h \in UNION Hosts[p]
      /\ links' = links \union {<<p, c>>}
      /\ joins' = IF sendsJoin THEN joins \union {p} ELSE joins
      /\ neighbours' = neighbours \ {p}
      /\ active' = IF sendsNeigh THEN AddToActive(p, c) ELSE active
      /\ passive' = IF sendsNeigh THEN PassiveAfterAdd(p) ELSE passive
      /\ replies' = replies \ {p}
      /\ disconnects' = IF closes THEN disconnects \union {p} ELSE disconnects
      /\ closing' = IF closes THEN closing \union Closes(p, c) ELSE closing
      /\ dials' = dials \ {h}
      /\ out' = (IF sendsJoin THEN ToAll({p}, "join", 0) ELSE {})
                \union (IF sendsNeigh THEN ToAll({p}, "neighbour", 0) ELSE {})
                \union (IF sendsReply THEN ToAll({p}, "reply", 0) ELSE {})

\* handle_peer_disconnected ignores which connection was closed.
PeerDisconnected(p, c) ==
  /\ <<p, c>> \in links
  /\ links' = links \ {<<p, c>>}
  /\ closing' = closing \ {<<p, c>>}
  /\ active' = WithoutActive(p)
  /\ passive' \in IF IsActive(p) THEN AddToPassive(passive, p) ELSE {passive}
  /\ replies' = replies \ {p}
  /\ disconnects' = disconnects \ {p}
  /\ out' = {}
  /\ UNCHANGED <<dials, neighbours, joins>>

\* Mutant: bootstrap nodes are dialled only once
BootstrapRetryNever == dials

\* Without passive peers, dial the bootstrap nodes unless JOINs are pending.
BootstrapRetry == IF joins = {} THEN Bootstrap ELSE dials

\* try_stabilize_active_view
Stabilize ==
  IF Starved /\ dials = {} /\ neighbours = {}
  THEN /\ IF passive # {}
          THEN \E p \in passive : TryNeighbouringIf(TRUE, p)
          ELSE /\ dials' = BootstrapRetry
               /\ UNCHANGED neighbours
       /\ UNCHANGED <<disconnects, closing>>
  ELSE /\ IF Overconnected /\ disconnects = {}
          THEN \E p \in DOMAIN active :
                 /\ disconnects' = {p}
                 /\ closing' = closing \union {<<p, active[p]>>}
          ELSE UNCHANGED <<disconnects, closing>>
       /\ UNCHANGED <<dials, neighbours>>

\* initiate_shuffle, when it is due and the coin allows it.
InitiateShuffle ==
  \/ out' = {}
  \/ \E p \in DOMAIN active : out' = ToAll({p}, "shuffle", 1)

\* handle_tick; pruning is the Expire actions.
Tick ==
  /\ InitiateShuffle
  /\ IF ~Full /\ dials = {} /\ neighbours = {}
     THEN Stabilize
     ELSE UNCHANGED <<dials, neighbours, disconnects, closing>>
  /\ UNCHANGED <<active, passive, joins, replies, links>>

\* Topic::gossip
Gossip ==
  /\ active # <<>>
  /\ out' = ToAll(DOMAIN active, "gossip", 0)
  /\ UNCHANGED <<views, pending, links, closing>>

----------------------------------------------------------------------------
(* Messages: p is the sender and c the connection. *)

\* ban(): the views forget the peer and the network closes its connections.
Ban(p) ==
  /\ active' = WithoutActive(p)
  /\ passive' = passive \ {p}
  /\ closing' = closing \union {l \in links : l[1] = p}
  /\ out' = {}
  /\ UNCHANGED <<dials, neighbours, joins, replies, disconnects>>

ConsumeJoin(p, c, node) ==
  \/ /\ p # node
     /\ Ban(p)
  \/ /\ p = node /\ ~IsActive(p)
     /\ out' = ToAll(DOMAIN active, "forward", 1)
     /\ disconnects' = disconnects \union {p}
     /\ closing' = closing \union Closes(p, c)
     /\ TryNeighbouringIf(~Full, node)
     /\ passive' \in AddToPassive(passive, node)
     /\ UNCHANGED <<active, joins, replies>>

ConsumeForwardJoin(p, node, hop) ==
  LET last   == LastHop(hop)
      evicts == last /\ node \notin neighbours /\ Full
  IN  /\ IsActive(p) /\ p # node /\ node # Self
      /\ \E P \in AddToPassive(passive, node) :
           IF evicts
           THEN \E r \in DOMAIN active :
                  /\ disconnects' = disconnects \union {r}
                  /\ closing' = closing \union Closes(r, active[r])
                  /\ passive' \in AddToPassive(P, r)
           ELSE /\ passive' = P
                /\ UNCHANGED <<disconnects, closing>>
      /\ TryNeighbouringIf(last \/ ~Full, node)
      /\ out' = IF last THEN {} ELSE ToAll(DOMAIN active \ {p}, "forward", hop + 1)
      /\ UNCHANGED <<active, joins, replies>>

ConsumeNeighbour(p, c, node, high) ==
  /\ ~IsActive(p)
  /\ \/ /\ p # node
        /\ Ban(p)
     \/ /\ p = node /\ ~Full
        /\ active' = AddToActive(p, c)
        /\ passive' = PassiveAfterAdd(p)
        /\ out' = {}
        /\ UNCHANGED <<pending, closing>>
     \/ /\ p = node /\ Full
        /\ \E rs \in IF high THEN {{r} : r \in DOMAIN active} ELSE {{}} :
             /\ disconnects' = disconnects \union rs \union {p}
             /\ closing' = closing \union Closes(p, c)
                             \union UNION {Closes(r, active[r]) : r \in rs}
        /\ out' = {}
        /\ UNCHANGED <<views, dials, neighbours, joins, replies>>

\* What consume_shuffle takes of a SHUFFLE: at most shuffle_sample_size of the
\* peers it carries.
Received == {S \in SUBSET Named : Cardinality(S) <= SampleSize}

ConsumeShuffle(p, origin, hop) ==
  LET local == DOMAIN active \union passive
  IN  /\ IsActive(p)
      /\ passive' \in UNION {Samples(local \union rec, MaxPassive) : rec \in Received}
      /\ IF IsActive(origin)
         THEN UNCHANGED <<replies, dials>>
         ELSE /\ replies' = replies \union {origin}
              /\ \E hs \in Hosts[origin] : dials' = dials \union hs
      /\ out' = (IF IsActive(origin) THEN ToAll({origin}, "reply", 0) ELSE {})
                \union (IF LastHop(hop) THEN {}
                        ELSE ToAll(DOMAIN active \ {p}, "shuffle", hop + 1))
      /\ UNCHANGED <<active, neighbours, joins, disconnects, closing>>

\* consume_shuffle_reply: the sample is drawn from the passive view followed
\* by its members the reply does not mention, so those count twice.  Other
\* peers of the reply are not looked at.
ReplySamples(peers) ==
  LET weight(K) == Cardinality(K) + Cardinality(K \ peers)
  IN  IF weight(passive) <= MaxPassive THEN {passive}
      ELSE {K \in SUBSET passive :
              Cardinality(K) <= MaxPassive /\ MaxPassive <= weight(K)}

ConsumeShuffleReply(p, c, peers) ==
  /\ passive' \in ReplySamples(peers)
  /\ disconnects' = IF IsActive(p) THEN disconnects ELSE disconnects \union {p}
  /\ closing' = IF IsActive(p) THEN closing ELSE closing \union Closes(p, c)
  /\ out' = {}
  /\ UNCHANGED <<active, dials, neighbours, joins, replies>>

ConsumeGossip(p, c) ==
  \/ /\ IsActive(p)
     /\ out' = ToAll(DOMAIN active \ {p}, "gossip", 0)
     /\ UNCHANGED <<disconnects, closing>>
     /\ UNCHANGED <<views, dials, neighbours, joins, replies>>
  \/ /\ ~IsActive(p)
     /\ disconnects' = disconnects \union {p}
     /\ closing' = closing \union Closes(p, c)
     /\ out' = {}
     /\ UNCHANGED <<views, dials, neighbours, joins, replies>>

----------------------------------------------------------------------------
(* handle_message_received, for every message the peers may send. *)
MessageReceived(p, c) ==
  /\ <<p, c>> \in links
  /\ UNCHANGED links
  /\ \/ /\ "join" \in Speech
        /\ \E node \in Peer : ConsumeJoin(p, c, node)
     \/ /\ "forward" \in Speech
        /\ \E node \in Named, hop \in 1 .. WalkLength : ConsumeForwardJoin(p, node, hop)
     \/ /\ "neighbour" \in Speech
        /\ \E node \in Peer, high \in BOOLEAN : ConsumeNeighbour(p, c, node, high)
     \/ /\ "shuffle" \in Speech
        /\ \E origin \in Named, hop \in 1 .. WalkLength : ConsumeShuffle(p, origin, hop)
     \/ /\ "reply" \in Speech
        /\ \E peers \in SUBSET passive : ConsumeShuffleReply(p, c, peers)
     \/ /\ "gossip" \in Speech
        /\ ConsumeGossip(p, c)

\* An entry of an expiring collection gets older than pending_timeout.
ExpireDial ==
  /\ \E h \in dials : dials' = dials \ {h}
  /\ out' = {}
  /\ UNCHANGED <<views, neighbours, joins, replies, disconnects, links, closing>>

ExpireNeighbour ==
  /\ \E p \in neighbours : neighbours' = neighbours \ {p}
  /\ out' = {}
  /\ UNCHANGED <<views, dials, joins, replies, disconnects, links, closing>>

ExpireJoin ==
  /\ \E p \in joins : joins' = joins \ {p}
  /\ out' = {}
  /\ UNCHANGED <<views, dials, neighbours, replies, disconnects, links, closing>>

ExpireReply ==
  /\ \E p \in replies : replies' = replies \ {p}
  /\ out' = {}
  /\ UNCHANGED <<views, dials, neighbours, joins, disconnects, links, closing>>

ExpireDisconnect ==
  /\ \E p \in disconnects : disconnects' = disconnects \ {p}
  /\ out' = {}
  /\ UNCHANGED <<views, dials, neighbours, joins, replies, links, closing>>

Next ==
  \/ \E p \in Peer, c \in Conn :
       \/ \E h \in Host : PeerConnected(p, c, h)
       \/ PeerDisconnected(p, c)
       \/ MessageReceived(p, c)
  \/ Tick
  \/ Gossip
  \/ ExpireDial \/ ExpireNeighbour \/ ExpireJoin \/ ExpireReply \/ ExpireDisconnect

Spec == Init /\ [][Next]_vars

\* The maintenance tick is periodic, and pending neighbours and JOINs get old.
\* Nothing is assumed of the peers, nor that connections are closed in time.
Fairness == WF_vars(Tick) /\ WF_vars(ExpireNeighbour) /\ WF_vars(ExpireJoin)

FairSpec == Spec /\ Fairness

----------------------------------------------------------------------------
(* Properties. *)

Link == Peer \X Conn

\* Every collection holds what its Rust type allows; connections are being
\* closed only while they are open.
TypeOK ==
  /\ DOMAIN active \subseteq Peer
  /\ active \in [DOMAIN active -> Conn]
  /\ passive \subseteq Node /\ dials \subseteq Host
  /\ neighbours \subseteq Node /\ joins \subseteq Peer
  /\ replies \subseteq Node /\ disconnects \subseteq Peer
  /\ links \subseteq Link /\ closing \subseteq links
  /\ out \subseteq [to : Peer, kind : Kind, hop : 0 .. WalkLength + 1]

\* add_to_passive_view, the two shuffle samples and the eviction of a last-hop
\* join (which adds twice) never leave more than max_passive_view_size peers in
\* the passive view.
PassiveBounded == Cardinality(passive) <= MaxPassive

\* The connection stored for an active peer, on which gossip and forwarded
\* messages are sent, is one the network announced and has not closed.
ActiveLinked == \A p \in DOMAIN active : <<p, active[p]>> \in links

\* A peer that is told NEIGHBOUR, and so adds this node to its active view, is
\* in this node's active view (handle_pending_neighbours), and a forwarded
\* message never travels further than the configured walk.
SentMessagesAreBacked ==
  \A m \in out : /\ m.kind = "neighbour" => IsActive(m.to)
                 /\ m.kind \in {"forward", "shuffle"} => m.hop <= WalkLength \/ m.hop = 1

\* A peer only leaves the active view when one of its connections was closed
\* or when all of them are being closed (a ban): no handler evicts a peer from
\* the view and leaves its connections open.
ActiveLossHasCause ==
  [][\A p \in DOMAIN active \ DOMAIN active' :
       \/ \E c \in Conn : <<p, c>> \in links \ links'
       \/ \A c \in Conn : <<p, c>> \in links => <<p, c>> \in closing']_vars

\* A node without active peers dials again, whatever its peers do: from the
\* passive view or, when that is empty, the bootstrap nodes, once the pending
\* joins have expired (try_stabilize_active_view).  The exception is a peer
\* that may be known by no dialable address: picked from the passive view, or
\* waiting in pending_neighbours after a JOIN or a FORWARDJOIN, it makes nobody
\* be dialled and keeps the bootstrap nodes from being tried again.
IsolatedNodeDials ==
  (active = <<>>) ~> \/ active # <<>> \/ dials # {}
                     \/ \E p \in passive \union neighbours : {} \in Hosts[p]

============================================================================
