------------------------------ MODULE Network ------------------------------
(***************************************************************************)
(* The multiplexer between the swarm and the topics of one node: Network   *)
(* (network/src/network.rs) and its Muxer (network/src/muxer.rs).  The      *)
(* network task handles one command or event at a time, so each is one     *)
(* action; events of the swarm arrive in order and are handled in order.   *)
(*                                                                         *)
(* Abstractions.  An address is reachable at one peer; its host is the IP  *)
(* address that IpAddress keeps of it.  A message is its hash.  The swarm  *)
(* is external: a dial it was given may connect, fail or stay in progress, *)
(* and a connection may be closed at any time, on command or not.  Entries *)
(* of the expiring collections may leave them at any time, since they are  *)
(* only asked for keys; in particular while the dial they stand for is in  *)
(* progress: pending_timeout limits how long a transport connects, not the *)
(* upgrades that follow (runloop.rs:115-118), and an entry is older than   *)
(* its dial.                                                               *)
(***************************************************************************)
EXTENDS Naturals, Sequences, FiniteSets, Functions

CONSTANTS
  Topic,        \* joined topics
  Peer, Addr,   \* remote peers and the addresses they are dialled at
  Host,         \* IP addresses
  PeerAt,       \* [Addr -> Peer]
  HostOf,       \* [Addr -> Host]
  Msg,          \* messages
  TopicOf,      \* [Msg -> Topic]
  Dedupe,       \* whether config.dedupe_interval is set
  MaxDials,     \* bound on the dials requested by topics
  MaxConns      \* bound on the connections ever established

ASSUME NetworkAssumption ==
  /\ PeerAt \in [Addr -> Peer] /\ HostOf \in [Addr -> Host]
  /\ TopicOf \in [Msg -> Topic] /\ "none" \notin Topic
  /\ Dedupe \in BOOLEAN
  /\ MaxDials \in Nat /\ MaxConns \in Nat

VARIABLES
  requested,    \* requested_dials: records of host, topic and exact address
  ongoing,      \* ongoing_dials: host -> topic
  dialing,      \* dials of the swarm in progress: [Addr -> [Topic -> Nat]]
  conns,        \* peers of the connections established so far, by id
  open,         \* connections not closed
  unassigned,   \* unassigned: connections whose topic is unknown
  assigned,     \* assigned: connection -> topic
  told,         \* per topic: connections announced to it and not withdrawn
  wanted,       \* per connection: the topic and host of its dial (history)
  late,         \* hosts a dial of which has outlived its entry (history)
  history,      \* message hashes remembered for deduplication
  banned,       \* peers the swarm was told to ban
  budget,       \* dials still to be requested
  panicked      \* which panic was reached, or "no"

vars == <<requested, ongoing, dialing, conns, open, unassigned, assigned, told,
          wanted, late, history, banned, budget, panicked>>
dialVars == <<requested, ongoing, dialing, late>>
connVars == <<conns, open, unassigned, assigned, told, wanted>>

----------------------------------------------------------------------------
(* Muxer. *)

ConnId == DOMAIN conns

\* put_dial: one exact address per host and topic, the last one.
PutDial(R, a, t) ==
  {r \in R : <<r.host, r.topic>> # <<HostOf[a], t>>}
    \union {[host |-> HostOf[a], topic |-> t, addr |-> a]}

\* Mutant: dials to the same host are not serialised
MayDialParallel(R, O, h, t) == \E r \in R : r.host = h /\ r.topic = t

\* next_dial: may topic t dial host h now, given the requests R and the dials O
\* in progress?
MayDial(R, O, h, t) ==
  h \notin DOMAIN O /\ \E r \in R : r.host = h /\ r.topic = t

TakeRequest(R, h, t) == {r \in R : <<r.host, r.topic>> # <<h, t>>}
WithDial(O, h, t)    == [x \in DOMAIN O \union {h} |-> IF x = h THEN t ELSE O[x]]

\* Mutant: a finished dial keeps its entry
WithoutDialKeeps(O, h) == O

WithoutDial(O, h) == Restrict(O, DOMAIN O \ {h})

\* next_dial followed by the swarm's Connect command: the requests R and the
\* dials O in progress are those the caller left.
NextDial(R, O, D, a, t) ==
  IF MayDial(R, O, HostOf[a], t)
  THEN /\ requested' = TakeRequest(R, HostOf[a], t)
       /\ ongoing' = WithDial(O, HostOf[a], t)
       /\ dialing' = [D EXCEPT ![a][t] = @ + 1]
  ELSE requested' = R /\ ongoing' = O /\ dialing' = D

\* Mutant: the connection stays assigned
MuxerDisconnectKeeps(c) ==
  /\ unassigned' = unassigned \ {c}
  /\ UNCHANGED assigned

\* disconnect(): the connections of a peer with assigned connections are only
\* looked up among those.
MuxerDisconnect(c) ==
  IF \E d \in DOMAIN assigned : conns[d] = conns[c]
  THEN /\ assigned' = Restrict(assigned, DOMAIN assigned \ {c})
       /\ UNCHANGED unassigned
  ELSE /\ unassigned' = unassigned \ {c}
       /\ UNCHANGED assigned

----------------------------------------------------------------------------
Init ==
  /\ requested = {} /\ ongoing = [h \in {} |-> {}]
  /\ dialing = [a \in Addr |-> [t \in Topic |-> 0]]
  /\ conns = <<>> /\ open = {} /\ unassigned = {}
  /\ assigned = [c \in {} |-> {}]
  /\ told = [t \in Topic |-> {}] /\ wanted = [c \in {} |-> {}]
  /\ late = {} /\ history = {} /\ banned = {}
  /\ budget = MaxDials /\ panicked = "no"

Running == panicked = "no"

\* begin_connect, on a topic's Connect command.
BeginConnect(t, a) ==
  /\ Running /\ budget > 0
  /\ budget' = budget - 1
  /\ NextDial(PutDial(requested, a, t), ongoing, dialing, a, t)
  /\ UNCHANGED <<connVars, late, history, banned, panicked>>

\* Mutant: any topic gets the connection
MatchDialAny(h) == CHOOSE t \in Topic : TRUE

\* match_dial: the topic a connection to host h was dialled for.
MatchDial(h) == ongoing[h]

\* complete_connect for a connection this node dialled: match_dial assigns it,
\* and the topic's next request for that host is dialled, at the address of
\* this connection.
CompleteDial(a, t) ==
  LET h == HostOf[a]
      c == Len(conns) + 1
      D == [dialing EXCEPT ![a][t] = @ - 1]
  IN  /\ Running /\ dialing[a][t] > 0 /\ c <= MaxConns
      /\ PeerAt[a] \notin banned
      /\ conns' = Append(conns, PeerAt[a])
      /\ open' = open \union {c}
      /\ wanted' = [x \in DOMAIN wanted \union {c} |->
                      IF x = c THEN [topic |-> t, host |-> h] ELSE wanted[x]]
      /\ IF h \in DOMAIN ongoing
         THEN LET topic == MatchDial(h)
              IN  /\ assigned' = [x \in DOMAIN assigned \union {c} |->
                                    IF x = c THEN topic ELSE assigned[x]]
                  /\ told' = [told EXCEPT ![topic] = @ \union {c}]
                  /\ NextDial(requested, WithoutDial(ongoing, h), D, a, topic)
                  /\ UNCHANGED panicked
         ELSE /\ panicked' = "unreachable"
              /\ dialing' = D
              /\ UNCHANGED <<assigned, told, requested, ongoing>>
      /\ UNCHANGED <<unassigned, late, history, banned, budget>>

\* complete_connect for a connection a peer opened: register.
AcceptConnection(p) ==
  LET c == Len(conns) + 1
  IN  /\ Running /\ c <= MaxConns /\ p \notin banned
      /\ conns' = Append(conns, p)
      /\ open' = open \union {c}
      /\ unassigned' = unassigned \union {c}
      /\ UNCHANGED <<dialVars, assigned, told, wanted, history, banned,
                     budget, panicked>>

\* A dial of the swarm fails: an error the run loop does not forward.
DialFails(a, t) ==
  /\ Running /\ dialing[a][t] > 0
  /\ dialing' = [dialing EXCEPT ![a][t] = @ - 1]
  /\ UNCHANGED <<requested, ongoing, late, connVars, history, banned, budget, panicked>>

\* Mutant: an assigned connection is not removed from the unassigned ones
StillUnassignedAll(c) == unassigned

\* assign(): the connections left unassigned.
StillUnassigned(c) == unassigned \ {c}

\* Mutant: the topic is looked up before the connection is assigned
TopicBeforeAssign(c, t) == IF c \in DOMAIN assigned THEN assigned[c] ELSE "none"

\* The topic of a connection once assign() was called for a message on t.
TopicAfterAssign(c, t) ==
  IF c \in unassigned THEN t
  ELSE IF c \in DOMAIN assigned THEN assigned[c] ELSE "none"

\* accept_message, for a message of a joined topic.
AcceptMessage(c, m) ==
  LET t     == TopicOf[m]
      first == c \in unassigned
      owner == TopicAfterAssign(c, t)
  IN  /\ Running /\ c \in open
      /\ \/ /\ Dedupe /\ m \in history
            /\ UNCHANGED <<unassigned, assigned, told, history, banned, panicked>>
         \/ /\ ~(Dedupe /\ m \in history)
            /\ history' = IF Dedupe THEN history \union {m} ELSE history
            /\ unassigned' = StillUnassigned(c)
            /\ assigned' = IF first
                           THEN [x \in DOMAIN assigned \union {c} |->
                                   IF x = c THEN t ELSE assigned[x]]
                           ELSE assigned
            /\ told' = IF first THEN [told EXCEPT ![t] = @ \union {c}] ELSE told
            /\ panicked' = IF owner = "none" THEN "unmapped" ELSE "no"
            /\ banned' = IF owner \in {t, "none"} THEN banned
                         ELSE banned \union {conns[c]}
      /\ UNCHANGED <<dialVars, conns, open, wanted, budget>>

\* complete_disconnect: the topic of the connection is told, if it has one.
CompleteDisconnect(c) ==
  /\ Running /\ c \in open
  /\ open' = open \ {c}
  /\ told' = IF c \in DOMAIN assigned
             THEN [told EXCEPT ![assigned[c]] = @ \ {c}] ELSE told
  /\ MuxerDisconnect(c)
  /\ UNCHANGED <<dialVars, conns, wanted, history, banned, budget, panicked>>

\* The tick, for the multiplexer: one requested dial is tried.
Tick ==
  /\ Running
  /\ \E r \in requested : NextDial(requested, ongoing, dialing, r.addr, r.topic)
  /\ UNCHANGED <<connVars, late, history, banned, budget, panicked>>

\* pending_timeout passes for an entry, whatever its dial does.
ExpireDial(h) ==
  /\ Running /\ h \in DOMAIN ongoing
  /\ ongoing' = WithoutDial(ongoing, h)
  /\ late' = IF \E a \in Addr, t \in Topic : HostOf[a] = h /\ dialing[a][t] > 0
             THEN late \union {h} ELSE late
  /\ UNCHANGED <<requested, dialing, connVars, history, banned, budget, panicked>>

\* dedupe_interval passes for a message.
ExpireMessage(m) ==
  /\ Running /\ m \in history
  /\ history' = history \ {m}
  /\ UNCHANGED <<dialVars, connVars, banned, budget, panicked>>

Next ==
  \/ \E t \in Topic, a \in Addr :
       BeginConnect(t, a) \/ CompleteDial(a, t) \/ DialFails(a, t)
  \/ \E p \in Peer : AcceptConnection(p)
  \/ \E c \in 1 .. MaxConns : CompleteDisconnect(c)
  \/ \E c \in 1 .. MaxConns, m \in Msg : AcceptMessage(c, m)
  \/ Tick
  \/ \E h \in Host : ExpireDial(h)
  \/ \E m \in Msg : ExpireMessage(m)

\* The interval keeps ticking and its time-outs pass; the swarm ends every dial.
Fairness ==
  /\ WF_vars(Tick)
  /\ \A h \in Host : WF_vars(ExpireDial(h))
  /\ \A a \in Addr : \A t \in Topic : WF_vars(CompleteDial(a, t) \/ DialFails(a, t))

Spec == Init /\ [][Next]_vars
FairSpec == Spec /\ Fairness

----------------------------------------------------------------------------
(* Properties. *)

\* Every collection holds what its Rust type allows; a connection is waiting
\* for its topic or has one, never both (Muxer::assign, match_dial).
TypeOK ==
  /\ requested \subseteq [host : Host, topic : Topic, addr : Addr]
  /\ DOMAIN ongoing \subseteq Host /\ ongoing \in [DOMAIN ongoing -> Topic]
  /\ dialing \in [Addr -> [Topic -> Nat]]
  /\ conns \in Seq(Peer) /\ open \subseteq ConnId /\ unassigned \subseteq ConnId
  /\ DOMAIN assigned \subseteq ConnId /\ assigned \in [DOMAIN assigned -> Topic]
  /\ unassigned \cap DOMAIN assigned = {}
  /\ told \in [Topic -> SUBSET ConnId]
  /\ DOMAIN wanted \subseteq ConnId /\ wanted \in [DOMAIN wanted -> [topic : Topic, host : Host]]
  /\ late \subseteq Host /\ history \subseteq Msg /\ banned \subseteq Peer
  /\ budget \in 0 .. MaxDials
  /\ panicked \in {"no", "unreachable", "unmapped"}

\* PeerConnected and PeerDisconnected give every topic exactly the connections
\* the muxer routes to it, all of them open.
TopicsToldTheTruth ==
  /\ DOMAIN assigned \subseteq open
  /\ \A t \in Topic : told[t] = {c \in DOMAIN assigned : assigned[c] = t}

\* Dials in progress D, but for those of the hosts L, have their entry in O, and
\* no two are to the same host.
Tracked(O, D, L) ==
  \A a \in Addr, t \in Topic : D[a][t] > 0 /\ HostOf[a] \notin L =>
    /\ HostOf[a] \in DOMAIN O /\ O[HostOf[a]] = t
    /\ D[a][t] = 1
    /\ \A b \in Addr, u \in Topic :
         D[b][u] > 0 /\ HostOf[b] = HostOf[a] => b = a /\ u = t

\* The swarm dials a host for one topic at a time, and ongoing_dials knows for
\* which one (next_dial, match_dial), until a dial of that host outlives its
\* entry.
DialsTracked == Tracked(ongoing, dialing, late)

\* A connection that was dialled for a topic is announced to that topic, even
\* when several topics dial the same host (match_dial), unless a dial of that
\* host had outlived its entry.
AnnouncedToDialer ==
  \A c \in DOMAIN wanted \cap DOMAIN assigned :
    assigned[c] = wanted[c].topic \/ wanted[c].host \in late

\* "bug: a dialed address is not tracked by the muxer" (network.rs:251) and
\* "The connection ID should be mapped by now" (network.rs:342): neither unreachable!() in
\* complete_connect nor expect() in accept_message is reached.
NoPanic == panicked = "no"

\* A message never arrives on a connection the muxer does not know (the expect()
\* in accept_message), and the unreachable!() in complete_connect has one cause
\* only: a dial that outlived its entry in ongoing_dials.
OnlyLateDialsPanic ==
  panicked # "no" => panicked = "unreachable" /\ late # {}

\* A dial that has to wait, because another topic is dialling the host, is not
\* forgotten (poll_dial, next_dial): whether that dial connects, fails, which
\* the network task is not told, or outlives its entry, unless it then ends the
\* task.
RequestsServed ==
  \A h \in Host : \A t \in Topic :
    (\E r \in requested : r.host = h /\ r.topic = t)
      ~> ~(\E r \in requested : r.host = h /\ r.topic = t) \/ ~Running

============================================================================
