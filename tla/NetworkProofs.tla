--------------------------- MODULE NetworkProofs ---------------------------
(***************************************************************************)
(* Proofs about Network, for any topics, peers, addresses and messages:    *)
(* its type invariant, that topics are told of exactly the connections the *)
(* muxer routes to them, that the multiplexer panics for no other reason   *)
(* than a dial that outlived its entry in ongoing_dials, and that a        *)
(* connection is announced to the topic that dialled it unless a dial of   *)
(* its host did so.                                                        *)
(*                                                                         *)
(* The inductive invariant says what the two panics depend on: every dial  *)
(* in progress is recorded under its host or is to a host with a late      *)
(* dial, and every open connection is known to the muxer.                  *)
(***************************************************************************)
EXTENDS Network, TLAPS

DialTypes(O, D) ==
  /\ DOMAIN O \subseteq Host /\ \A h \in DOMAIN O : O[h] \in Topic
  /\ D \in [Addr -> [Topic -> Nat]]

RequestTypes(R) == \A r \in R : r.topic \in Topic /\ r.addr \in Addr

\* While the task runs, every open connection can be found by resolve_topic or
\* assign.
OpenKnown ==
  /\ Running => open \subseteq unassigned \union DOMAIN assigned
  /\ \A c \in DOMAIN assigned : assigned[c] \in Topic

IInv ==
  /\ RequestTypes(requested) /\ DialTypes(ongoing, dialing)
  /\ DialsTracked
  /\ OpenKnown
  /\ OnlyLateDialsPanic

\* A dial that next_dial lets through is recorded, and was the only one to its
\* host, unless an earlier one outlived its entry (Muxer::next_dial, the Connect
\* command).
LEMMA NextDialTracks ==
  ASSUME NEW R, NEW O, NEW D, NEW L, NEW a \in Addr, NEW t \in Topic,
         RequestTypes(R), DialTypes(O, D), Tracked(O, D, L),
         NextDial(R, O, D, a, t)
  PROVE  RequestTypes(requested') /\ DialTypes(ongoing', dialing')
           /\ Tracked(ongoing', dialing', L)
<1>1. HostOf[a] \in Host
  BY NetworkAssumption
<1>2. CASE ~MayDial(R, O, HostOf[a], t)
  BY <1>2 DEF NextDial
<1>3. CASE MayDial(R, O, HostOf[a], t)
  <2>1. /\ requested' = TakeRequest(R, HostOf[a], t)
        /\ ongoing' = WithDial(O, HostOf[a], t)
        /\ dialing' = [D EXCEPT ![a][t] = @ + 1]
        /\ HostOf[a] \notin DOMAIN O
    BY <1>3 DEF NextDial, MayDial
  <2>2. RequestTypes(requested')
    BY <2>1 DEF RequestTypes, TakeRequest
  <2>3. DialTypes(ongoing', dialing')
    BY <1>1, <2>1 DEF DialTypes, WithDial
  <2>4. HostOf[a] \in L \/ D[a][t] = 0
    BY <2>1 DEF DialTypes, Tracked
  <2>5. \A b \in Addr, u \in Topic :
          dialing'[b][u] = IF b = a /\ u = t THEN D[a][t] + 1 ELSE D[b][u]
    BY <2>1 DEF DialTypes
  <2>6. \A b \in Addr, u \in Topic :
          D[b][u] > 0 /\ HostOf[b] \notin L => HostOf[b] # HostOf[a]
    BY <2>1 DEF Tracked
  <2>7. \A h \in DOMAIN O : h \in DOMAIN ongoing' /\ ongoing'[h] = O[h]
    BY <2>1 DEF WithDial
  <2>8. HostOf[a] \in DOMAIN ongoing' /\ ongoing'[HostOf[a]] = t
    BY <2>1 DEF WithDial
  <2>9. Tracked(ongoing', dialing', L)
    BY <2>4, <2>5, <2>6, <2>7, <2>8 DEF Tracked
  <2> QED  BY <2>2, <2>3, <2>9
<1> QED  BY <1>2, <1>3

\* Of the dials D the dials E remain, none of them to host h, except of hosts in L.
Remain(D, E, h, L) ==
  \A b \in Addr, u \in Topic : E[b][u] > 0 /\ HostOf[b] \notin L =>
    E[b][u] = D[b][u] /\ HostOf[b] # h

\* A dial that ends, and its host's entry removed, leave the others recorded
\* (Muxer::match_dial, ExpireDial).
LEMMA EndOfDialTracks ==
  ASSUME NEW O, NEW D, NEW E, NEW h, NEW L,
         DialTypes(O, D), Tracked(O, D, L), E \in [Addr -> [Topic -> Nat]],
         Remain(D, E, h, L)
  PROVE  DialTypes(WithoutDial(O, h), E) /\ Tracked(WithoutDial(O, h), E, L)
<1>1. DialTypes(WithoutDial(O, h), E)
  BY DEF DialTypes, WithoutDial, Restrict
<1>2. \A b \in Addr, u \in Topic : E[b][u] > 0 /\ HostOf[b] \notin L =>
        /\ D[b][u] > 0 /\ D[b][u] = 1
        /\ HostOf[b] \in DOMAIN O \ {h} /\ O[HostOf[b]] = u
  BY DEF Tracked, Remain
<1>3. DOMAIN WithoutDial(O, h) = DOMAIN O \ {h}
      /\ \A x \in DOMAIN O \ {h} : WithoutDial(O, h)[x] = O[x]
  BY DEF WithoutDial, Restrict
<1>4. Tracked(WithoutDial(O, h), E, L)
  BY <1>2, <1>3 DEF Tracked, Remain
<1> QED  BY <1>1, <1>4

\* One dial less to a host: the only one to it, or one of a host with a late dial.
LEMMA OneDialLess ==
  ASSUME NEW O, NEW D, NEW L, NEW a \in Addr, NEW t \in Topic,
         DialTypes(O, D), Tracked(O, D, L), D[a][t] > 0
  PROVE  LET E == [D EXCEPT ![a][t] = @ - 1]
         IN  E \in [Addr -> [Topic -> Nat]] /\ Remain(D, E, HostOf[a], L)
<1> DEFINE E == [D EXCEPT ![a][t] = @ - 1]
<1>1. E \in [Addr -> [Topic -> Nat]]
  BY DEF DialTypes
<1>2. \A b \in Addr, u \in Topic :
        E[b][u] = IF b = a /\ u = t THEN D[a][t] - 1 ELSE D[b][u]
  BY DEF DialTypes
<1>3. HostOf[a] \notin L => D[a][t] = 1
  BY DEF Tracked
<1>4. ASSUME NEW b \in Addr, NEW u \in Topic, E[b][u] > 0, HostOf[b] \notin L
      PROVE  E[b][u] = D[b][u] /\ HostOf[b] # HostOf[a]
  <2>1. ~(b = a /\ u = t)
    BY <1>2, <1>3, <1>4
  <2>2. E[b][u] = D[b][u]
    BY <1>2, <2>1
  <2>3. HostOf[b] # HostOf[a]
    BY <1>4, <2>1, <2>2 DEF Tracked
  <2> QED  BY <2>2, <2>3
<1> QED  BY <1>1, <1>4 DEF Remain

\* Both together: the dial that completes, and the entry of its host.
LEMMA EndedDialTracks ==
  ASSUME NEW O, NEW D, NEW L, NEW a \in Addr, NEW t \in Topic,
         DialTypes(O, D), Tracked(O, D, L), D[a][t] > 0
  PROVE  LET E == [D EXCEPT ![a][t] = @ - 1]
         IN  /\ DialTypes(WithoutDial(O, HostOf[a]), E)
             /\ Tracked(WithoutDial(O, HostOf[a]), E, L)
<1> DEFINE E == [D EXCEPT ![a][t] = @ - 1]
           h == HostOf[a]
<1>1. E \in [Addr -> [Topic -> Nat]] /\ Remain(D, E, h, L)
  BY OneDialLess
<1>2. DialTypes(WithoutDial(O, h), E) /\ Tracked(WithoutDial(O, h), E, L)
  <2> HIDE DEF E, h
  <2> QED  BY <1>1, EndOfDialTracks
<1> QED  BY <1>2

\* Without connections and dials nothing has to be recorded.
LEMMA InitEstablishes == Init => IInv
<1> SUFFICES ASSUME Init PROVE IInv
  OBVIOUS
<1>1. RequestTypes(requested) /\ OpenKnown /\ OnlyLateDialsPanic
  BY DEF Init, RequestTypes, OpenKnown, OnlyLateDialsPanic
<1>2. DialTypes(ongoing, dialing) /\ DialsTracked
  BY DEF Init, DialTypes, DialsTracked, Tracked
<1> QED  BY <1>1, <1>2 DEF IInv

\* Every event the network task handles keeps the invariant, one case per action.
LEMMA StepPreserves ==
  ASSUME IInv, [Next]_vars
  PROVE  IInv'
<1> USE DEF IInv, DialsTracked
<1>1. ASSUME NEW t \in Topic, NEW a \in Addr, BeginConnect(t, a) PROVE IInv'
  <2>1. RequestTypes(PutDial(requested, a, t))
    BY DEF RequestTypes, PutDial
  <2>2. NextDial(PutDial(requested, a, t), ongoing, dialing, a, t) /\ late' = late
    BY <1>1 DEF BeginConnect
  <2>3. RequestTypes(requested') /\ DialTypes(ongoing', dialing')
          /\ Tracked(ongoing', dialing', late')
    BY <2>1, <2>2, NextDialTracks
  <2>4. OpenKnown' /\ OnlyLateDialsPanic'
    BY <1>1 DEF BeginConnect, connVars, OpenKnown, OnlyLateDialsPanic, Running
  <2> QED  BY <2>3, <2>4 DEF RequestTypes, DialTypes, Tracked
<1>2. ASSUME NEW t \in Topic, NEW a \in Addr, CompleteDial(a, t) PROVE IInv'
  <2> DEFINE h == HostOf[a]
             D == [dialing EXCEPT ![a][t] = @ - 1]
  <2>1. dialing[a][t] > 0 /\ late' = late /\ Running
    BY <1>2 DEF CompleteDial
  <2>2. D \in [Addr -> [Topic -> Nat]]
        /\ Remain(dialing, D, h, late)
    BY <2>1, OneDialLess
  <2>3. CASE h \in DOMAIN ongoing
    <3> DEFINE topic == ongoing[h]
    <3>1. topic \in Topic
      BY <2>3 DEF DialTypes
    <3>2. DialTypes(WithoutDial(ongoing, h), D) /\ Tracked(WithoutDial(ongoing, h), D, late)
      BY <2>1, EndedDialTracks
    <3>3. NextDial(requested, WithoutDial(ongoing, h), D, a, topic) /\ UNCHANGED panicked
      BY <1>2, <2>3 DEF CompleteDial, MatchDial
    <3>4. RequestTypes(requested') /\ DialTypes(ongoing', dialing')
            /\ Tracked(ongoing', dialing', late)
      <4> HIDE DEF D, h, topic
      <4> QED  BY <3>1, <3>2, <3>3, NextDialTracks
    <3>5. OpenKnown'
      BY <1>2, <2>3, <3>1 DEF CompleteDial, MatchDial, OpenKnown, Running
    <3> QED  BY <2>1, <3>3, <3>4, <3>5
             DEF RequestTypes, DialTypes, Tracked, OnlyLateDialsPanic
  <2>4. CASE h \notin DOMAIN ongoing
    <3>1. /\ panicked' = "unreachable" /\ dialing' = D
          /\ UNCHANGED <<assigned, requested, ongoing>>
      BY <1>2, <2>4 DEF CompleteDial
    <3>2. h \in late
      BY <2>1, <2>4 DEF Tracked
    <3>3. OpenKnown' /\ OnlyLateDialsPanic'
      BY <2>1, <3>1, <3>2 DEF OpenKnown, Running, OnlyLateDialsPanic
    <3>4. DialTypes(ongoing', dialing')
      BY <2>2, <3>1 DEF DialTypes
    <3>5. Tracked(ongoing', dialing', late')
      <4> HIDE DEF D, h
      <4> QED  BY <2>1, <2>2, <3>1 DEF Tracked, Remain
    <3> QED  BY <3>1, <3>3, <3>4, <3>5 DEF RequestTypes, DialTypes, Tracked
  <2> QED  BY <2>3, <2>4
<1>3. ASSUME NEW t \in Topic, NEW a \in Addr, DialFails(a, t) PROVE IInv'
  <2> DEFINE D == [dialing EXCEPT ![a][t] = @ - 1]
  <2>1. /\ dialing[a][t] > 0 /\ dialing' = D
        /\ UNCHANGED <<requested, ongoing, late>>
    BY <1>3 DEF DialFails
  <2>2. D \in [Addr -> [Topic -> Nat]]
        /\ Remain(dialing, D, HostOf[a], late)
    BY <2>1, OneDialLess
  <2>3. DialTypes(ongoing', dialing')
    BY <2>1, <2>2 DEF DialTypes
  <2>4. Tracked(ongoing', dialing', late')
    <3> HIDE DEF D
    <3> QED  BY <2>1, <2>2 DEF Tracked, Remain
  <2>5. OpenKnown' /\ OnlyLateDialsPanic'
    BY <1>3 DEF DialFails, connVars, OpenKnown, OnlyLateDialsPanic, Running
  <2> QED  BY <2>1, <2>3, <2>4, <2>5 DEF RequestTypes, DialTypes, Tracked
<1>4. ASSUME NEW p \in Peer, AcceptConnection(p) PROVE IInv'
  BY <1>4 DEF AcceptConnection, dialVars, OpenKnown, OnlyLateDialsPanic, Running
<1>5. ASSUME NEW c \in 1 .. MaxConns, CompleteDisconnect(c) PROVE IInv'
  <2>1. OpenKnown'
    BY <1>5 DEF CompleteDisconnect, MuxerDisconnect, Restrict, OpenKnown, Running
  <2> QED  BY <1>5, <2>1 DEF CompleteDisconnect, dialVars, OnlyLateDialsPanic
<1>6. ASSUME NEW c \in 1 .. MaxConns, NEW m \in Msg, AcceptMessage(c, m) PROVE IInv'
  <2>1. TopicOf[m] \in Topic /\ "none" \notin Topic
    BY NetworkAssumption
  <2>2. UNCHANGED <<requested, ongoing, dialing, late, open>>
    BY <1>6 DEF AcceptMessage, dialVars
  <2>3. OpenKnown'
    BY <1>6, <2>1 DEF AcceptMessage, StillUnassigned, OpenKnown, Running
  <2>4. panicked' = "no"
    BY <1>6, <2>1 DEF AcceptMessage, TopicAfterAssign, OpenKnown, Running
  <2> QED  BY <2>2, <2>3, <2>4 DEF OnlyLateDialsPanic
<1>7. ASSUME Tick PROVE IInv'
  <2>1. PICK r \in requested : NextDial(requested, ongoing, dialing, r.addr, r.topic)
    BY <1>7 DEF Tick
  <2>2. r.addr \in Addr /\ r.topic \in Topic /\ late' = late
    BY <1>7 DEF RequestTypes, Tick
  <2>3. RequestTypes(requested') /\ DialTypes(ongoing', dialing')
          /\ Tracked(ongoing', dialing', late')
    BY <2>1, <2>2, NextDialTracks
  <2>4. OpenKnown' /\ OnlyLateDialsPanic'
    BY <1>7 DEF Tick, connVars, OpenKnown, OnlyLateDialsPanic, Running
  <2> QED  BY <2>3, <2>4 DEF RequestTypes, DialTypes, Tracked
<1>8. ASSUME NEW h \in Host, ExpireDial(h) PROVE IInv'
  <2>1. /\ ongoing' = WithoutDial(ongoing, h)
        /\ UNCHANGED <<requested, dialing>> /\ late \subseteq late'
    BY <1>8 DEF ExpireDial
  <2>2. Remain(dialing, dialing, h, late')
    BY <1>8 DEF ExpireDial, Remain
  <2>3. Tracked(ongoing, dialing, late')
    BY <2>1 DEF Tracked
  <2>4. DialTypes(WithoutDial(ongoing, h), dialing)
        /\ Tracked(WithoutDial(ongoing, h), dialing, late')
    BY <2>2, <2>3, EndOfDialTracks DEF DialTypes
  <2>5. OpenKnown' /\ OnlyLateDialsPanic'
    BY <1>8 DEF ExpireDial, connVars, OpenKnown, OnlyLateDialsPanic, Running
  <2> QED  BY <2>1, <2>4, <2>5 DEF RequestTypes, DialTypes, Tracked
<1>9. ASSUME NEW m \in Msg, ExpireMessage(m) PROVE IInv'
  BY <1>9 DEF ExpireMessage, dialVars, connVars, OpenKnown, OnlyLateDialsPanic, Running
<1>10. ASSUME UNCHANGED vars PROVE IInv'
  BY <1>10 DEF vars, OpenKnown, OnlyLateDialsPanic, Running
<1> QED
  BY <1>1, <1>2, <1>3, <1>4, <1>5, <1>6, <1>7, <1>8, <1>9, <1>10 DEF Next

\* The swarm dials every host for one topic at a time, recorded in ongoing_dials,
\* until a dial of the host outlives its entry.
THEOREM DialsAlwaysTracked == Spec => []DialsTracked
<1>1. IInv /\ [Next]_vars => IInv'
  BY StepPreserves
<1>2. IInv => DialsTracked
  BY DEF IInv
<1> QED  BY InitEstablishes, <1>1, <1>2, PTL DEF Spec

\* The expect() of accept_message is never reached, and the unreachable!() of
\* complete_connect only after a dial outlived its entry.
THEOREM OnlyLateDialsReachPanic == Spec => []OnlyLateDialsPanic
<1>1. IInv /\ [Next]_vars => IInv'
  BY StepPreserves
<1>2. IInv => OnlyLateDialsPanic
  BY DEF IInv
<1> QED  BY InitEstablishes, <1>1, <1>2, PTL DEF Spec

----------------------------------------------------------------------------
(* What topics are told.  None of this depends on the time dials take.      *)

\* A step of next_dial keeps the types of the dial bookkeeping.
LEMMA NextDialTypes ==
  ASSUME NEW R \in SUBSET [host : Host, topic : Topic, addr : Addr],
         NEW O, DOMAIN O \subseteq Host, O \in [DOMAIN O -> Topic],
         NEW D \in [Addr -> [Topic -> Nat]], NEW a \in Addr, NEW t \in Topic,
         NextDial(R, O, D, a, t)
  PROVE  /\ requested' \subseteq [host : Host, topic : Topic, addr : Addr]
         /\ DOMAIN ongoing' \subseteq Host /\ ongoing' \in [DOMAIN ongoing' -> Topic]
         /\ dialing' \in [Addr -> [Topic -> Nat]]
<1>1. HostOf[a] \in Host
  BY NetworkAssumption
<1>2. CASE ~MayDial(R, O, HostOf[a], t)
  BY <1>2 DEF NextDial
<1>3. CASE MayDial(R, O, HostOf[a], t)
  <2>1. /\ requested' = TakeRequest(R, HostOf[a], t)
        /\ ongoing' = WithDial(O, HostOf[a], t)
        /\ dialing' = [D EXCEPT ![a][t] = @ + 1]
    BY <1>3 DEF NextDial
  <2>2. requested' \subseteq R
    BY <2>1 DEF TakeRequest
  <2>3. DOMAIN ongoing' \subseteq Host /\ ongoing' \in [DOMAIN ongoing' -> Topic]
    BY <1>1, <2>1 DEF WithDial
  <2>4. dialing' \in [Addr -> [Topic -> Nat]]
    BY <2>1
  <2> QED  BY <2>2, <2>3, <2>4
<1> QED  BY <1>2, <1>3

\* The types of the dial bookkeeping, and of the rest.
DialsOK ==
  /\ requested \subseteq [host : Host, topic : Topic, addr : Addr]
  /\ DOMAIN ongoing \subseteq Host /\ ongoing \in [DOMAIN ongoing -> Topic]
  /\ dialing \in [Addr -> [Topic -> Nat]]

ConnsOK ==
  /\ conns \in Seq(Peer) /\ open \subseteq ConnId /\ unassigned \subseteq ConnId
  /\ DOMAIN assigned \subseteq ConnId /\ assigned \in [DOMAIN assigned -> Topic]
  /\ unassigned \cap DOMAIN assigned = {}
  /\ told \in [Topic -> SUBSET ConnId]
  /\ DOMAIN wanted \subseteq ConnId /\ wanted \in [DOMAIN wanted -> [topic : Topic, host : Host]]

RestOK ==
  /\ late \subseteq Host /\ history \subseteq Msg /\ banned \subseteq Peer
  /\ budget \in 0 .. MaxDials
  /\ panicked \in {"no", "unreachable", "unmapped"}

\* Every event keeps the types of the dial bookkeeping.
LEMMA StepDialsOK ==
  ASSUME TypeOK, [Next]_vars
  PROVE  DialsOK'
<1> DEFINE Req == [host : Host, topic : Topic, addr : Addr]
<1>0. DialsOK
  BY DEF TypeOK, DialsOK
<1> USE DEF DialsOK
<1>1. ASSUME NEW t \in Topic, NEW a \in Addr, BeginConnect(t, a) PROVE DialsOK'
  <2>1. PutDial(requested, a, t) \in SUBSET Req
    BY <1>0, NetworkAssumption DEF PutDial
  <2>2. NextDial(PutDial(requested, a, t), ongoing, dialing, a, t)
    BY <1>1 DEF BeginConnect
  <2> QED  BY <1>0, <2>1, <2>2, NextDialTypes
<1>2. ASSUME NEW t \in Topic, NEW a \in Addr, CompleteDial(a, t) PROVE DialsOK'
  <2> DEFINE h == HostOf[a]
             D == [dialing EXCEPT ![a][t] = @ - 1]
  <2>1. D \in [Addr -> [Topic -> Nat]]
    BY <1>0, <1>2 DEF CompleteDial
  <2>2. CASE h \in DOMAIN ongoing
    <3>1. NextDial(requested, WithoutDial(ongoing, h), D, a, ongoing[h])
      BY <1>2, <2>2 DEF CompleteDial, MatchDial
    <3>2. /\ DOMAIN WithoutDial(ongoing, h) \subseteq Host
          /\ WithoutDial(ongoing, h) \in [DOMAIN WithoutDial(ongoing, h) -> Topic]
      BY <1>0 DEF WithoutDial, Restrict
    <3>3. ongoing[h] \in Topic /\ requested \in SUBSET Req
      BY <1>0, <2>2
    <3> HIDE DEF D, h
    <3> QED  BY <2>1, <3>1, <3>2, <3>3, NextDialTypes
  <2>3. CASE h \notin DOMAIN ongoing
    BY <1>0, <1>2, <2>1, <2>3 DEF CompleteDial
  <2> QED  BY <2>2, <2>3
<1>3. ASSUME NEW t \in Topic, NEW a \in Addr, DialFails(a, t) PROVE DialsOK'
  BY <1>0, <1>3 DEF DialFails
<1>4. ASSUME Tick PROVE DialsOK'
  <2>1. PICK r \in requested : NextDial(requested, ongoing, dialing, r.addr, r.topic)
    BY <1>4 DEF Tick
  <2>2. r.addr \in Addr /\ r.topic \in Topic /\ requested \in SUBSET Req
    BY <1>0
  <2> QED  BY <1>0, <2>1, <2>2, NextDialTypes
<1>5. ASSUME NEW h \in Host, ExpireDial(h) PROVE DialsOK'
  BY <1>0, <1>5 DEF ExpireDial, WithoutDial, Restrict
<1>6. ASSUME UNCHANGED dialVars PROVE DialsOK'
  BY <1>0, <1>6 DEF dialVars
<1>7. ASSUME NEW p \in Peer, AcceptConnection(p) PROVE UNCHANGED dialVars
  BY <1>7 DEF AcceptConnection
<1>8. ASSUME NEW c \in 1 .. MaxConns, CompleteDisconnect(c) PROVE UNCHANGED dialVars
  BY <1>8 DEF CompleteDisconnect
<1>9. ASSUME NEW c \in 1 .. MaxConns, NEW m \in Msg, AcceptMessage(c, m)
      PROVE  UNCHANGED dialVars
  BY <1>9 DEF AcceptMessage
<1>10. ASSUME NEW m \in Msg, ExpireMessage(m) PROVE UNCHANGED dialVars
  BY <1>10 DEF ExpireMessage
<1>11. ASSUME UNCHANGED vars PROVE UNCHANGED dialVars
  BY <1>11 DEF vars, dialVars
<1> QED
  BY <1>1, <1>2, <1>3, <1>4, <1>5, <1>6, <1>7, <1>8, <1>9, <1>10, <1>11 DEF Next

\* What CompleteDial and AcceptConnection do to the ids: one more.
LEMMA NewConn ==
  ASSUME NEW s \in Seq(Peer), NEW p \in Peer
  PROVE  /\ Append(s, p) \in Seq(Peer)
         /\ DOMAIN s = 1 .. Len(s) /\ Len(s) \in Nat
         /\ DOMAIN Append(s, p) = DOMAIN s \union {Len(s) + 1}
         /\ Len(s) + 1 \notin DOMAIN s
         /\ \A c \in DOMAIN s : Append(s, p)[c] = s[c]
  OBVIOUS

\* Every event keeps the types of the connections, and what topics were told.
LEMMA StepConnsOK ==
  ASSUME TypeOK, TopicsToldTheTruth, [Next]_vars
  PROVE  ConnsOK' /\ TopicsToldTheTruth'
<1>0. ConnsOK /\ DialsOK /\ RestOK
  BY DEF TypeOK, ConnsOK, DialsOK, RestOK
<1>1. ASSUME UNCHANGED connVars PROVE ConnsOK' /\ TopicsToldTheTruth'
  BY <1>0, <1>1 DEF connVars, ConnsOK, ConnId, TopicsToldTheTruth
<1>2. ASSUME NEW t \in Topic, NEW a \in Addr, CompleteDial(a, t)
      PROVE  ConnsOK' /\ TopicsToldTheTruth'
  <2> DEFINE h == HostOf[a]
             c == Len(conns) + 1
  <2>1. PeerAt[a] \in Peer /\ conns \in Seq(Peer)
    BY <1>0, NetworkAssumption DEF ConnsOK
  <2>2. /\ conns' \in Seq(Peer) /\ ConnId' = ConnId \union {c} /\ c \notin ConnId
        /\ open' = open \union {c} /\ unassigned' = unassigned
        /\ wanted' = [x \in DOMAIN wanted \union {c} |->
                        IF x = c THEN [topic |-> t, host |-> h] ELSE wanted[x]]
    BY <1>2, <2>1, NewConn DEF CompleteDial, ConnId
  <2>3. /\ DOMAIN wanted' \subseteq ConnId'
        /\ wanted' \in [DOMAIN wanted' -> [topic : Topic, host : Host]]
    BY <1>0, <2>2, NetworkAssumption DEF ConnsOK
  <2>4. CASE h \in DOMAIN ongoing
    <3> DEFINE u == ongoing[h]
    <3>1. u \in Topic
      BY <1>0, <2>4 DEF DialsOK
    <3>2. /\ assigned' = [x \in DOMAIN assigned \union {c} |->
                            IF x = c THEN u ELSE assigned[x]]
          /\ told' = [told EXCEPT ![u] = @ \union {c}]
      BY <1>2, <2>4 DEF CompleteDial, MatchDial
    <3> HIDE DEF u, c, h
    <3>3. ConnsOK'
      BY <1>0, <2>2, <2>3, <3>1, <3>2 DEF ConnsOK
    <3>4. TopicsToldTheTruth'
      BY <1>0, <2>2, <3>1, <3>2 DEF ConnsOK, TopicsToldTheTruth
    <3> QED  BY <3>3, <3>4
  <2>5. CASE h \notin DOMAIN ongoing
    <3>1. assigned' = assigned /\ told' = told
      BY <1>2, <2>5 DEF CompleteDial
    <3> HIDE DEF c, h
    <3> QED  BY <1>0, <2>2, <2>3, <3>1 DEF ConnsOK, TopicsToldTheTruth
  <2> QED  BY <2>4, <2>5
<1>3. ASSUME NEW p \in Peer, AcceptConnection(p) PROVE ConnsOK' /\ TopicsToldTheTruth'
  <2> DEFINE c == Len(conns) + 1
  <2>1. conns \in Seq(Peer)
    BY <1>0 DEF ConnsOK
  <2>2. /\ conns' \in Seq(Peer) /\ ConnId' = ConnId \union {c} /\ c \notin ConnId
        /\ open' = open \union {c} /\ unassigned' = unassigned \union {c}
        /\ UNCHANGED <<assigned, told, wanted>>
    BY <1>3, <2>1, NewConn DEF AcceptConnection, ConnId
  <2> HIDE DEF c
  <2> QED  BY <1>0, <2>2 DEF ConnsOK, TopicsToldTheTruth
<1>4. ASSUME NEW c \in 1 .. MaxConns, CompleteDisconnect(c)
      PROVE  ConnsOK' /\ TopicsToldTheTruth'
  <2>1. /\ c \in open /\ open' = open \ {c} /\ ConnId' = ConnId
        /\ conns' = conns /\ wanted' = wanted
        /\ told' = IF c \in DOMAIN assigned
                   THEN [told EXCEPT ![assigned[c]] = @ \ {c}] ELSE told
    BY <1>4 DEF CompleteDisconnect, ConnId
  <2>2. /\ DOMAIN assigned' = DOMAIN assigned \ {c}
        /\ \A d \in DOMAIN assigned' : assigned'[d] = assigned[d]
        /\ assigned' \in [DOMAIN assigned' -> Topic]
        /\ unassigned' \subseteq unassigned
    BY <1>0, <1>4 DEF CompleteDisconnect, MuxerDisconnect, Restrict, ConnsOK
  <2>3. CASE c \in DOMAIN assigned
    BY <1>0, <2>1, <2>2, <2>3 DEF ConnsOK, TopicsToldTheTruth
  <2>4. CASE c \notin DOMAIN assigned
    BY <1>0, <2>1, <2>2, <2>4 DEF ConnsOK, TopicsToldTheTruth
  <2> QED  BY <2>3, <2>4
<1>5. ASSUME NEW c \in 1 .. MaxConns, NEW m \in Msg, AcceptMessage(c, m)
      PROVE  ConnsOK' /\ TopicsToldTheTruth'
  <2>1. TopicOf[m] \in Topic
    BY NetworkAssumption
  <2>2. /\ c \in open /\ open' = open /\ ConnId' = ConnId
        /\ conns' = conns /\ wanted' = wanted
    BY <1>5 DEF AcceptMessage, ConnId
  <2>3. CASE UNCHANGED <<unassigned, assigned, told>>
    BY <1>0, <2>2, <2>3 DEF ConnsOK, TopicsToldTheTruth
  <2>4. CASE /\ c \in unassigned /\ unassigned' = unassigned \ {c}
             /\ assigned' = [x \in DOMAIN assigned \union {c} |->
                               IF x = c THEN TopicOf[m] ELSE assigned[x]]
             /\ told' = [told EXCEPT ![TopicOf[m]] = @ \union {c}]
    <3>1. c \notin DOMAIN assigned /\ c \in ConnId
      BY <1>0, <2>4 DEF ConnsOK
    <3> QED  BY <1>0, <2>1, <2>2, <2>4, <3>1 DEF ConnsOK, TopicsToldTheTruth
  <2>5. CASE c \notin unassigned /\ unassigned' = unassigned \ {c}
             /\ UNCHANGED <<assigned, told>>
    BY <1>0, <2>2, <2>5 DEF ConnsOK, TopicsToldTheTruth
  <2> QED  BY <1>5, <2>3, <2>4, <2>5 DEF AcceptMessage, StillUnassigned
<1>6. ASSUME NEW t \in Topic, NEW a \in Addr, BeginConnect(t, a) \/ DialFails(a, t)
      PROVE  UNCHANGED connVars
  BY <1>6 DEF BeginConnect, DialFails
<1>7. Tick => UNCHANGED connVars
  BY DEF Tick
<1>8. ASSUME NEW h \in Host, ExpireDial(h) PROVE UNCHANGED connVars
  BY <1>8 DEF ExpireDial
<1>9. ASSUME NEW m \in Msg, ExpireMessage(m) PROVE UNCHANGED connVars
  BY <1>9 DEF ExpireMessage
<1>10. UNCHANGED vars => UNCHANGED connVars
  BY DEF vars, connVars
<1> QED
  BY <1>1, <1>2, <1>3, <1>4, <1>5, <1>6, <1>7, <1>8, <1>9, <1>10 DEF Next

\* Every event keeps the types of what remains.
LEMMA StepRestOK ==
  ASSUME TypeOK, [Next]_vars
  PROVE  RestOK'
<1>0. RestOK
  BY DEF TypeOK, RestOK
<1>1. ASSUME NEW t \in Topic, NEW a \in Addr, BeginConnect(t, a) PROVE RestOK'
  BY <1>0, <1>1, NetworkAssumption DEF BeginConnect, RestOK
<1>2. ASSUME NEW t \in Topic, NEW a \in Addr, CompleteDial(a, t) PROVE RestOK'
  BY <1>0, <1>2 DEF CompleteDial, RestOK
<1>3. ASSUME NEW c \in 1 .. MaxConns, NEW m \in Msg, AcceptMessage(c, m) PROVE RestOK'
  <2>1. c \in DOMAIN conns /\ conns \in Seq(Peer)
    BY <1>3 DEF AcceptMessage, TypeOK, ConnId
  <2>2. conns[c] \in Peer
    BY <2>1
  <2> QED  BY <1>0, <1>3, <2>2 DEF AcceptMessage, dialVars, RestOK
<1>4. ASSUME NEW m \in Msg, ExpireMessage(m) PROVE RestOK'
  BY <1>0, <1>4 DEF ExpireMessage, dialVars, RestOK
<1>5. ASSUME UNCHANGED <<late, history, banned, budget, panicked>> PROVE RestOK'
  BY <1>0, <1>5 DEF RestOK
<1>6. ASSUME NEW t \in Topic, NEW a \in Addr, DialFails(a, t)
      PROVE  UNCHANGED <<late, history, banned, budget, panicked>>
  BY <1>6 DEF DialFails
<1>7. ASSUME NEW p \in Peer, AcceptConnection(p)
      PROVE  UNCHANGED <<late, history, banned, budget, panicked>>
  BY <1>7 DEF AcceptConnection, dialVars
<1>8. ASSUME NEW c \in 1 .. MaxConns, CompleteDisconnect(c)
      PROVE  UNCHANGED <<late, history, banned, budget, panicked>>
  BY <1>8 DEF CompleteDisconnect, dialVars
<1>9. Tick \/ UNCHANGED vars => UNCHANGED <<late, history, banned, budget, panicked>>
  BY DEF Tick, vars
<1>10. ASSUME NEW h \in Host, ExpireDial(h) PROVE RestOK'
  BY <1>0, <1>10 DEF ExpireDial, RestOK
<1> QED
  BY <1>1, <1>2, <1>3, <1>4, <1>5, <1>6, <1>7, <1>8, <1>9, <1>10 DEF Next

\* At the start nothing is dialled, connected or told.
LEMMA InitTypes == Init => TypeOK /\ TopicsToldTheTruth
<1> SUFFICES ASSUME Init PROVE TypeOK /\ TopicsToldTheTruth
  OBVIOUS
<1>1. DialsOK
  BY DEF Init, DialsOK
<1>2. ConnsOK /\ TopicsToldTheTruth
  BY DEF Init, ConnsOK, ConnId, TopicsToldTheTruth
<1>3. RestOK
  BY NetworkAssumption DEF Init, RestOK
<1> QED  BY <1>1, <1>2, <1>3 DEF TypeOK, DialsOK, ConnsOK, RestOK

\* The types and what topics were told, together: match_dial and assign pick a
\* topic for a connection, so what is told has its type only if the rest has.
LEMMA StepTold ==
  ASSUME TypeOK, TopicsToldTheTruth, [Next]_vars
  PROVE  TypeOK' /\ TopicsToldTheTruth'
<1>1. DialsOK' /\ ConnsOK' /\ RestOK' /\ TopicsToldTheTruth'
  BY StepDialsOK, StepConnsOK, StepRestOK
<1> QED  BY <1>1 DEF TypeOK, DialsOK, ConnsOK, RestOK

\* The collections of the network task keep their types, whatever the swarm does
\* and however late a dial completes; no connection is at once waiting for its
\* topic and assigned to one.
THEOREM TypeCorrect == Spec => []TypeOK
<1>1. TypeOK /\ TopicsToldTheTruth /\ [Next]_vars => TypeOK' /\ TopicsToldTheTruth'
  BY StepTold
<1> QED  BY InitTypes, <1>1, PTL DEF Spec

\* Every topic has been announced exactly the connections the muxer routes to
\* it, all of them open, however late a dial completes.
THEOREM TopicsAlwaysTold == Spec => []TopicsToldTheTruth
<1>1. TypeOK /\ TopicsToldTheTruth /\ [Next]_vars => TypeOK' /\ TopicsToldTheTruth'
  BY StepTold
<1> QED  BY InitTypes, <1>1, PTL DEF Spec

\* A dialled connection never waits for its first message to find its topic.
DialledAssigned == DOMAIN wanted \cap unassigned = {}

\* A dial completes for the topic that its host's entry names, and no message
\* assigns the connection again; a host with a late dial keeps it on record.
LEMMA StepAnnounced ==
  ASSUME TypeOK, DialsTracked, DialledAssigned, AnnouncedToDialer, [Next]_vars
  PROVE  DialledAssigned' /\ AnnouncedToDialer'
<1> USE DEF DialledAssigned, AnnouncedToDialer
<1>1. ASSUME NEW t \in Topic, NEW a \in Addr, CompleteDial(a, t)
      PROVE  DialledAssigned' /\ AnnouncedToDialer'
  <2> DEFINE c == Len(conns) + 1
             h == HostOf[a]
  <2>1. c \notin unassigned /\ c \notin DOMAIN assigned /\ late' = late
    BY <1>1 DEF TypeOK, ConnId, CompleteDial
  <2>2. h \in late \/ (h \in DOMAIN ongoing /\ ongoing[h] = t)
    BY <1>1 DEF CompleteDial, DialsTracked, Tracked
  <2>3. /\ wanted' = [x \in DOMAIN wanted \union {c} |->
                        IF x = c THEN [topic |-> t, host |-> h] ELSE wanted[x]]
        /\ \/ assigned' = assigned
           \/ assigned' = [x \in DOMAIN assigned \union {c} |->
                             IF x = c THEN ongoing[h] ELSE assigned[x]]
        /\ unassigned' = unassigned
    BY <1>1 DEF CompleteDial, MatchDial
  <2> HIDE DEF c, h
  <2>4. ASSUME NEW x \in DOMAIN wanted' \cap DOMAIN assigned'
        PROVE  assigned'[x] = wanted'[x].topic \/ wanted'[x].host \in late'
    <3>1. CASE x = c
      BY <2>1, <2>2, <2>3, <3>1
    <3>2. CASE x # c
      <4>1. /\ x \in DOMAIN wanted \cap DOMAIN assigned
            /\ wanted'[x] = wanted[x] /\ assigned'[x] = assigned[x]
        BY <2>3, <2>4, <3>2
      <4> QED  BY <2>1, <4>1
    <3> QED  BY <3>1, <3>2
  <2> QED  BY <2>1, <2>3, <2>4
<1>2. ASSUME NEW p \in Peer, AcceptConnection(p) PROVE DialledAssigned' /\ AnnouncedToDialer'
  <2>1. Len(conns) + 1 \notin DOMAIN wanted
    BY DEF TypeOK, ConnId
  <2> QED  BY <1>2, <2>1 DEF AcceptConnection, dialVars
<1>3. ASSUME NEW c \in 1 .. MaxConns, CompleteDisconnect(c)
      PROVE  DialledAssigned' /\ AnnouncedToDialer'
  BY <1>3 DEF CompleteDisconnect, MuxerDisconnect, Restrict, dialVars
<1>4. ASSUME NEW c \in 1 .. MaxConns, NEW m \in Msg, AcceptMessage(c, m)
      PROVE  DialledAssigned' /\ AnnouncedToDialer'
  BY <1>4 DEF AcceptMessage, StillUnassigned, dialVars
<1>5. ASSUME UNCHANGED connVars, late \subseteq late' PROVE DialledAssigned' /\ AnnouncedToDialer'
  BY <1>5 DEF connVars
<1>6. ASSUME NEW t \in Topic, NEW a \in Addr, BeginConnect(t, a) \/ DialFails(a, t)
      PROVE  UNCHANGED <<connVars, late>>
  BY <1>6 DEF BeginConnect, DialFails
<1>7. Tick \/ UNCHANGED vars => UNCHANGED <<connVars, late>>
  BY DEF Tick, vars, connVars
<1>8. ASSUME NEW h \in Host, ExpireDial(h) PROVE UNCHANGED connVars /\ late \subseteq late'
  BY <1>8 DEF ExpireDial
<1>9. ASSUME NEW m \in Msg, ExpireMessage(m) PROVE UNCHANGED <<connVars, late>>
  BY <1>9 DEF ExpireMessage, dialVars
<1> QED
  BY <1>1, <1>2, <1>3, <1>4, <1>5, <1>6, <1>7, <1>8, <1>9 DEF Next

\* A dialled connection is announced to the topic that asked for it, however many
\* topics dial the host, unless a dial of that host outlived its entry.
THEOREM DialledConnsAnnounced == Spec => []AnnouncedToDialer
<1>1. Init => DialledAssigned /\ AnnouncedToDialer
  BY DEF Init, DialledAssigned, AnnouncedToDialer
<1>2. TypeOK /\ DialsTracked /\ (DialledAssigned /\ AnnouncedToDialer) /\ [Next]_vars
        => (DialledAssigned /\ AnnouncedToDialer)'
  BY StepAnnounced
<1> QED  BY <1>1, <1>2, DialsAlwaysTracked, TypeCorrect, PTL DEF Spec
============================================================================
