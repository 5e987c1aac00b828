---------------------------- MODULE ConnectionProofs ----------------------------
(***************************************************************************)
(* Proofs about Connection, for any numbers of messages, commands and      *)
(* faults: its type invariant, the order of its events, that no message is *)
(* lost while it is up, and that each direction implements Pipe.           *)
(*                                                                         *)
(* The steps that matter are those that move messages or events (Moves).   *)
(* The inductive invariant Inv describes, for each side, the log of its    *)
(* events (LogOK) and where its messages are (PipeOK); types come first.   *)
(***************************************************************************)
EXTENDS Connection, SequenceTheorems, WellFoundedInduction, TLAPS

--------------------------------------------------------------------------------
(* Induction over the naturals, for sets.                                  *)

\* Every set of naturals that has an element has a least one.
LEMMA LeastNatural ==
  ASSUME NEW T, T \subseteq Nat, T # {}
  PROVE  \E x \in T : \A y \in T : x <= y
<1> DEFINE R == {ss \in Nat \X Nat : ss[1] < ss[2]}
<1>1. IsWellFoundedOn(R, Nat)
  BY NatLessThanWellFounded DEF OpToRel
<1>2. \A x, y \in Nat : y < x => <<y, x>> \in R
  OBVIOUS
<1> HIDE DEF R
<1>3. PICK x \in T : \A y \in T : <<y, x>> \notin R
  BY <1>1, WFMin
<1>4. ASSUME NEW y \in T PROVE x <= y
  <2>1. x \in Nat /\ y \in Nat
    OBVIOUS
  <2>2. ~(y < x)
    BY <1>2, <1>3, <2>1
  <2> QED  BY <2>1, <2>2
<1> QED  BY <1>4

\* A set that contains 0 and the successors of its elements has all naturals.
LEMMA NatSetInduction ==
  ASSUME NEW S, 0 \in S, \A n \in Nat : n \in S => n + 1 \in S
  PROVE  \A n \in Nat : n \in S
<1> DEFINE T == Nat \ S
<1> SUFFICES ASSUME T # {} PROVE FALSE
  OBVIOUS
<1>1. T \subseteq Nat
  OBVIOUS
<1>2. PICK x \in T : \A y \in T : x <= y
  <2> HIDE DEF T
  <2> QED  BY <1>1, LeastNatural
<1>3. x \in Nat /\ x # 0 /\ x - 1 \in Nat /\ x - 1 \notin T
  BY <1>2
<1> QED  BY <1>3

--------------------------------------------------------------------------------
(* Types.                                                                  *)

\* Messages are numbered from 1: 0 stands for none.
Message == Nat \ {0}
EventSet == [kind : {"established", "message", "closed"}, msg : Nat]

QueuesOK ==
  /\ outmsgs \in [Side -> Seq(Message)]
  /\ disconnects \in [Side -> Nat] /\ closes \in 0..MaxClose
  /\ disconnects["dialer"] + disconnects["listener"] <= closes
  /\ events \in [Side -> Seq(EventSet)] /\ told \in [Side -> Seq(EventSet)]
  /\ sent \in [Side -> Nat] /\ faults \in 0..MaxFaults

HandlersOK ==
  /\ link \in [Side -> {"up", "closing", "closed"}]
  /\ inbound \in [Side -> {"none", "reading", "closing", "poisoned"}]
  /\ outbound \in [Side -> {"none", "requested", "writable", "write", "flush",
                            "poisoned"}]
  /\ keep \in [Side -> BOOLEAN] /\ poll \in [Side -> {"idle", "outbound"}]
  /\ offer \in [Side -> {"none", "open", "done"}]
  /\ \A s \in Side : poll[s] # "idle" => Live(s)

TransitOK ==
  /\ writing \in [Side -> Nat] /\ queue \in [Side -> Seq(Message)]
  /\ wire \in [Side -> Seq(Message)]
  /\ \A s \in Side : /\ writing[s] # 0 <=> outbound[s] = "write"
                     /\ wire[s] \in Seq(Message \ Oversized[s])

TypeInv == QueuesOK /\ HandlersOK /\ TransitOK

LEMMA TypesInit == Init => TypeInv
<1> SUFFICES ASSUME Init PROVE TypeInv
  OBVIOUS
<1>1. QueuesOK
  <2>1. <<Event("established", 0)>> \in Seq(EventSet)
    BY DEF Event, EventSet
  <2> QED  BY <2>1, ConnectionAssumption DEF Init, QueuesOK, Side
<1>2. HandlersOK
  BY DEF Init, HandlersOK, Live
<1>3. TransitOK
  BY DEF Init, TransitOK
<1> QED  BY <1>1, <1>2, <1>3 DEF TypeInv

\* A poll that returns Pending leaves keep_alive at some value.
LEMMA PendingPoll ==
  ASSUME HandlersOK, NEW s \in Side, WriteNotReady(s) \/ NothingToWrite(s)
  PROVE  poll[s] = "outbound" /\ \E k \in BOOLEAN : PollPending(s, k)
BY DEF HandlersOK, WriteNotReady, NothingToWrite, Polling, KeepPoisoned

LEMMA HandlersStep ==
  ASSUME TypeInv, [Next]_vars PROVE HandlersOK'
<1> USE DEF TypeInv, HandlersOK, Live, handlerVars
<1>0. ASSUME NEW s \in Side, Live(s), Dropped(s), UNCHANGED offer PROVE HandlersOK'
  BY <1>0 DEF Dropped
<1> SUFFICES ASSUME NEW s \in Side,
                    \/ Send(s) \/ Disconnect(s) \/ BanPeer(s)
                    \/ ForwardEvent(s) \/ CloseConnection(s) \/ NotifyHandler(s)
                    \/ EndClose(s) \/ TransportFails(s)
                    \/ NegotiatedOutbound(s) \/ UpgradeError(s)
                    \/ NegotiatedInbound(s) \/ InboundRefused(s)
                    \/ Poll(s)
             PROVE  HandlersOK'
  BY DEF Next, vars
<1>1. CASE Send(s) \/ Disconnect(s) \/ ForwardEvent(s) \/ NotifyHandler(s)
  BY <1>1 DEF Send, Disconnect, ForwardEvent, NotifyHandler
<1>2. CASE BanPeer(s) \/ CloseConnection(s)
  BY <1>2 DEF BanPeer, CloseConnection, Closing
<1>3. CASE EndClose(s) \/ TransportFails(s)
  BY <1>0, <1>3 DEF EndClose, TransportFails
<1>4. CASE NegotiatedOutbound(s) \/ UpgradeError(s)
  BY <1>4 DEF NegotiatedOutbound, UpgradeError
<1>5. CASE NegotiatedInbound(s) \/ InboundRefused(s)
  BY <1>5 DEF NegotiatedInbound, InboundRefused
<1>6. CASE ReadMessage(s)
  BY <1>6 DEF ReadMessage
<1>7. CASE ReadError(s) \/ ReadEnd(s) \/ ReadNothing(s)
  <2>1. /\ Live(s)
        /\ \E i \in {"none", "reading", "closing", "poisoned"}, k \in BOOLEAN :
             InboundPending(s, i, k)
    <3>1. CASE ReadError(s)
      BY <3>1 DEF ReadError, KeepPoisoned
    <3>2. CASE ReadEnd(s)
      BY <3>2 DEF ReadEnd
    <3>3. CASE ReadNothing(s)
      BY <3>3 DEF ReadNothing, KeepPoisoned
    <3> QED  BY <1>7, <3>1, <3>2, <3>3
  <2> QED  BY <2>1 DEF InboundPending
<1>8. CASE RequestSubstream(s) \/ TakeMessage(s) \/ WriteMessage(s) \/ Flush(s)
  BY <1>8 DEF RequestSubstream, TakeMessage, WriteMessage, Flush, OutboundTurn, Polling,
              AfterFlush
<1>9. CASE WriteError(s)
  BY <1>0, <1>9 DEF WriteError
<1>10. CASE WriteNotReady(s) \/ NothingToWrite(s)
  <2>1. poll[s] = "outbound" /\ \E k \in BOOLEAN : PollPending(s, k)
    BY <1>10, PendingPoll
  <2>2. PICK k \in BOOLEAN : PollPending(s, k)
    BY <2>1
  <2>3. CASE k \/ outbound[s] = "requested" \/ offer[Other(s)] = "open"
    BY <2>2, <2>3 DEF PollPending
  <2>4. CASE ~(k \/ outbound[s] = "requested" \/ offer[Other(s)] = "open")
    BY <1>0, <2>1, <2>2, <2>4 DEF PollPending
  <2> QED  BY <2>3, <2>4
<1> QED  BY <1>1, <1>2, <1>3, <1>4, <1>5, <1>6, <1>7, <1>8, <1>9, <1>10 DEF Poll

\* The steps that move messages or events; all others leave them where they are.
Quiet ==
  /\ UNCHANGED <<told, events, wire, writing, queue, outmsgs, sent>>
  /\ \A t \in Side : link'[t] = link[t] \/ (link[t] = "up" /\ link'[t] = "closing")

Drops(s) ==
  Live(s) /\ Dropped(s) /\ UNCHANGED <<told, wire, outmsgs, sent, offer, disconnects, closes>>

Moves(s) ==
  \/ Send(s) \/ NotifyHandler(s) \/ ForwardEvent(s) \/ Drops(s)
  \/ ReadMessage(s) \/ TakeMessage(s) \/ WriteMessage(s)

LEMMA Shapes ==
  ASSUME TypeInv, [Next]_vars PROVE Quiet \/ \E s \in Side : Moves(s)
<1> USE DEF TypeInv, HandlersOK, TransitOK, Live, handlerVars, queueVars
<1>0. CASE UNCHANGED vars
  BY <1>0 DEF vars, Quiet
<1> SUFFICES ASSUME NEW s \in Side,
                    \/ Send(s) \/ Disconnect(s) \/ BanPeer(s)
                    \/ ForwardEvent(s) \/ CloseConnection(s) \/ NotifyHandler(s)
                    \/ EndClose(s) \/ TransportFails(s)
                    \/ NegotiatedOutbound(s) \/ UpgradeError(s)
                    \/ NegotiatedInbound(s) \/ InboundRefused(s)
                    \/ Poll(s)
             PROVE  Quiet \/ Moves(s)
  BY <1>0 DEF Next
<1>1. CASE Send(s) \/ NotifyHandler(s) \/ ForwardEvent(s) \/ ReadMessage(s)
             \/ TakeMessage(s) \/ WriteMessage(s)
  BY <1>1 DEF Moves
<1>2. CASE Disconnect(s) \/ BanPeer(s) \/ CloseConnection(s)
  BY <1>2 DEF BanPeer, CloseConnection, Closing, Disconnect, Quiet
<1>3. CASE EndClose(s) \/ TransportFails(s) \/ WriteError(s)
  BY <1>3 DEF EndClose, TransportFails, WriteError, Moves, Drops
<1>4. CASE NegotiatedOutbound(s) \/ UpgradeError(s)
  BY <1>4 DEF NegotiatedOutbound, UpgradeError, Quiet
<1>5. CASE NegotiatedInbound(s) \/ InboundRefused(s)
  BY <1>5 DEF NegotiatedInbound, InboundRefused, Quiet
<1>6. CASE ReadError(s) \/ ReadEnd(s) \/ ReadNothing(s)
  BY <1>6 DEF ReadError, ReadEnd, ReadNothing, InboundPending, Quiet
<1>7. CASE RequestSubstream(s) \/ Flush(s)
  <2>1. writing[s] = 0 /\ writing' = [writing EXCEPT ![s] = 0]
    BY <1>7 DEF RequestSubstream, Flush, OutboundTurn, Polling
  <2>2. writing' = writing
    BY <2>1
  <2> QED  BY <1>7, <2>2 DEF RequestSubstream, Flush, OutboundTurn, Quiet
<1>8. CASE WriteNotReady(s) \/ NothingToWrite(s)
  <2>1. poll[s] = "outbound" /\ \E k \in BOOLEAN : PollPending(s, k)
    BY <1>8, PendingPoll
  <2>2. PICK k \in BOOLEAN : PollPending(s, k)
    BY <2>1
  <2>3. CASE k \/ outbound[s] = "requested" \/ offer[Other(s)] = "open"
    BY <2>2, <2>3 DEF PollPending, Quiet
  <2>4. CASE ~(k \/ outbound[s] = "requested" \/ offer[Other(s)] = "open")
    BY <2>1, <2>2, <2>4 DEF PollPending, Moves, Drops
  <2> QED  BY <2>3, <2>4
<1> QED  BY <1>1, <1>2, <1>3, <1>4, <1>5, <1>6, <1>7, <1>8 DEF Poll

LEMMA QueuesStep ==
  ASSUME TypeInv, [Next]_vars PROVE QueuesOK'
<1> USE DEF TypeInv, queueVars
<1>0. CASE UNCHANGED vars
  BY <1>0 DEF vars, QueuesOK
<1> DEFINE Same == UNCHANGED <<outmsgs, disconnects, told, sent, closes>>
<1>1. ASSUME NEW s \in Side, Fault(s) PROVE faults' \in 0..MaxFaults
  <2>1. faults \in 0..MaxFaults /\ MaxFaults \in Nat
    BY ConnectionAssumption DEF QueuesOK
  <2>2. faults' = faults \/ (faults < MaxFaults /\ faults' = faults + 1)
    BY <1>1 DEF Fault
  <2> QED  BY <2>1, <2>2
<1>2. ASSUME NEW s \in Side, Dropped(s), Same, faults' \in 0..MaxFaults PROVE QueuesOK'
  <2>1. Append(events[s], Event("closed", 0)) \in Seq(EventSet)
    <3>1. Event("closed", 0) \in EventSet /\ events[s] \in Seq(EventSet)
      BY DEF Event, EventSet, QueuesOK
    <3> QED  BY <3>1, AppendProperties
  <2>2. events' \in [Side -> Seq(EventSet)]
    BY <1>2, <2>1 DEF QueuesOK, Dropped, ClosedEvent
  <2> QED  BY <1>2, <2>2 DEF QueuesOK
<1>3. ASSUME Same, events' = events, faults' \in 0..MaxFaults PROVE QueuesOK'
  BY <1>3 DEF QueuesOK
<1>4. faults \in 0..MaxFaults
  BY DEF QueuesOK
<1> SUFFICES ASSUME NEW s \in Side,
                    \/ Send(s) \/ Disconnect(s) \/ BanPeer(s)
                    \/ ForwardEvent(s) \/ CloseConnection(s) \/ NotifyHandler(s)
                    \/ EndClose(s) \/ TransportFails(s)
                    \/ NegotiatedOutbound(s) \/ UpgradeError(s)
                    \/ NegotiatedInbound(s) \/ InboundRefused(s)
                    \/ Poll(s)
             PROVE  QueuesOK'
  BY <1>0 DEF Next
<1>5. CASE Send(s)
  <2>1. sent[s] + 1 \in Message /\ outmsgs[s] \in Seq(Message)
    <3>1. sent[s] \in Nat /\ outmsgs[s] \in Seq(Message)
      BY DEF QueuesOK
    <3> QED  BY <3>1 DEF Message
  <2>2. Append(outmsgs[s], sent[s] + 1) \in Seq(Message)
    BY <2>1, AppendProperties
  <2>3. outmsgs' \in [Side -> Seq(Message)]
    BY <1>5, <2>2 DEF Send, QueuesOK
  <2>4. sent' \in [Side -> Nat]
    <3>1. sent \in [Side -> Nat] /\ sent' = [sent EXCEPT ![s] = sent[s] + 1]
      BY <1>5 DEF Send, QueuesOK
    <3>2. sent[s] + 1 \in Nat
      BY <2>1 DEF Message
    <3> QED  BY <3>1, <3>2
  <2> QED  BY <1>5, <2>3, <2>4 DEF Send, QueuesOK
<1>6. CASE Disconnect(s)
  <2>1. /\ disconnects \in [Side -> Nat] /\ closes \in 0..MaxClose /\ MaxClose \in Nat
        /\ disconnects["dialer"] + disconnects["listener"] <= closes
        /\ disconnects["dialer"] \in Nat /\ disconnects["listener"] \in Nat
    BY ConnectionAssumption DEF QueuesOK, Side
  <2>2. /\ closes < MaxClose /\ closes' = closes + 1
        /\ disconnects' = [disconnects EXCEPT ![s] = disconnects[s] + 1]
    BY <1>6 DEF Disconnect
  <2>3. disconnects' \in [Side -> Nat] /\ closes' \in 0..MaxClose
    BY <2>1, <2>2
  <2>4. CASE s = "dialer"
    <3>1. /\ disconnects'["dialer"] = disconnects["dialer"] + 1
          /\ disconnects'["listener"] = disconnects["listener"]
      BY <2>1, <2>2, <2>4 DEF Side
    <3>2. disconnects'["dialer"] + disconnects'["listener"] <= closes'
      BY <2>1, <2>2, <3>1
    <3> QED  BY <1>6, <2>3, <3>2 DEF Disconnect, QueuesOK
  <2>5. CASE s = "listener"
    <3>1. /\ disconnects'["listener"] = disconnects["listener"] + 1
          /\ disconnects'["dialer"] = disconnects["dialer"]
      BY <2>1, <2>2, <2>5 DEF Side
    <3>2. disconnects'["dialer"] + disconnects'["listener"] <= closes'
      BY <2>1, <2>2, <3>1
    <3> QED  BY <1>6, <2>3, <3>2 DEF Disconnect, QueuesOK
  <2> QED  BY <2>4, <2>5 DEF Side
<1>7. CASE BanPeer(s)
  BY <1>7, ConnectionAssumption DEF BanPeer, QueuesOK, Side
<1>8. CASE CloseConnection(s)
  BY <1>8 DEF CloseConnection, QueuesOK, Side
<1>9. CASE ForwardEvent(s)
  <2>1. /\ events[s] \in Seq(EventSet) /\ events[s] # <<>> /\ told[s] \in Seq(EventSet)
    BY <1>9 DEF ForwardEvent, QueuesOK
  <2>2. Head(events[s]) \in EventSet /\ Tail(events[s]) \in Seq(EventSet)
    BY <2>1
  <2>3. Append(told[s], Head(events[s])) \in Seq(EventSet)
    BY <2>1, <2>2, AppendProperties
  <2> QED  BY <1>9, <2>2, <2>3 DEF ForwardEvent, QueuesOK
<1>10. CASE NotifyHandler(s)
  <2>1. outmsgs[s] \in Seq(Message) /\ outmsgs[s] # <<>>
    BY <1>10 DEF NotifyHandler, QueuesOK
  <2>2. Tail(outmsgs[s]) \in Seq(Message)
    BY <2>1
  <2> QED  BY <1>10, <2>2 DEF NotifyHandler, QueuesOK
<1>11. CASE EndClose(s) \/ TransportFails(s) \/ WriteError(s)
  BY <1>1, <1>2, <1>4, <1>11 DEF EndClose, TransportFails, WriteError
<1>12. CASE NegotiatedOutbound(s) \/ UpgradeError(s) \/ NegotiatedInbound(s) \/ InboundRefused(s)
  BY <1>1, <1>3, <1>4, <1>12
  DEF NegotiatedOutbound, UpgradeError, NegotiatedInbound, InboundRefused
<1>13. CASE ReadMessage(s)
  <2>1. /\ events[s] \in Seq(EventSet) /\ Other(s) \in Side
        /\ wire[Other(s)] \in Seq(Message) /\ wire[Other(s)] # <<>>
    BY <1>13 DEF ReadMessage, QueuesOK, TransitOK, Other, Side
  <2>2. Event("message", Head(wire[Other(s)])) \in EventSet
    BY <2>1 DEF Event, EventSet, Message
  <2>3. Append(events[s], Event("message", Head(wire[Other(s)]))) \in Seq(EventSet)
    BY <2>1, <2>2, AppendProperties
  <2>4. events' \in [Side -> Seq(EventSet)]
    BY <1>13, <2>3 DEF ReadMessage, QueuesOK
  <2> QED  BY <1>13, <2>4 DEF ReadMessage, QueuesOK
<1>14. CASE ReadError(s) \/ ReadEnd(s) \/ ReadNothing(s)
  BY <1>1, <1>3, <1>4, <1>14 DEF ReadError, ReadEnd, ReadNothing, InboundPending
<1>15. CASE RequestSubstream(s) \/ TakeMessage(s) \/ WriteMessage(s) \/ Flush(s)
  BY <1>3, <1>4, <1>15 DEF RequestSubstream, TakeMessage, WriteMessage, Flush, OutboundTurn
<1>16. CASE WriteNotReady(s) \/ NothingToWrite(s)
  <2>1. PICK k \in BOOLEAN : PollPending(s, k)
    BY <1>16, PendingPoll
  <2> QED  BY <1>2, <1>3, <1>4, <2>1 DEF PollPending
<1> QED  BY <1>5, <1>6, <1>7, <1>8, <1>9, <1>10, <1>11, <1>12, <1>13, <1>14, <1>15, <1>16
         DEF Poll

LEMMA TransitStep ==
  ASSUME TypeInv, [Next]_vars PROVE TransitOK'
<1> USE DEF TypeInv, queueVars, handlerVars
<1> DEFINE Same == UNCHANGED <<writing, queue, wire>>
<1>1. ASSUME Same, \A t \in Side : outbound'[t] = "write" <=> outbound[t] = "write"
      PROVE  TransitOK'
  BY <1>1 DEF TransitOK
<1>2. ASSUME NEW s \in Side, Dropped(s), wire' = wire PROVE TransitOK'
  <2>1. /\ writing' = [writing EXCEPT ![s] = 0]
        /\ queue' = [queue EXCEPT ![s] = <<>>]
        /\ outbound' = [outbound EXCEPT ![s] = "none"]
    BY <1>2 DEF Dropped
  <2>2. writing' \in [Side -> Nat] /\ queue' \in [Side -> Seq(Message)]
    BY <2>1 DEF TransitOK
  <2>3. \A t \in Side : writing'[t] # 0 <=> outbound'[t] = "write"
    BY <2>1 DEF TransitOK, HandlersOK
  <2> QED  BY <1>2, <2>2, <2>3 DEF TransitOK
<1>0. CASE UNCHANGED vars
  BY <1>0, <1>1 DEF vars
<1> SUFFICES ASSUME NEW s \in Side,
                    \/ Send(s) \/ Disconnect(s) \/ BanPeer(s)
                    \/ ForwardEvent(s) \/ CloseConnection(s) \/ NotifyHandler(s)
                    \/ EndClose(s) \/ TransportFails(s)
                    \/ NegotiatedOutbound(s) \/ UpgradeError(s)
                    \/ NegotiatedInbound(s) \/ InboundRefused(s)
                    \/ Poll(s)
             PROVE  TransitOK'
  BY <1>0 DEF Next
<1>3. CASE Send(s) \/ Disconnect(s) \/ BanPeer(s) \/ ForwardEvent(s) \/ CloseConnection(s)
  BY <1>1, <1>3 DEF Send, Disconnect, BanPeer, ForwardEvent, CloseConnection
<1>4. CASE NotifyHandler(s)
  <2>1. outmsgs[s] \in Seq(Message) /\ outmsgs[s] # <<>> /\ queue[s] \in Seq(Message)
    BY <1>4 DEF NotifyHandler, QueuesOK, TransitOK
  <2>2. Append(queue[s], Head(outmsgs[s])) \in Seq(Message)
    BY <2>1, AppendProperties
  <2> QED  BY <1>4, <2>2 DEF NotifyHandler, TransitOK, Queued
<1>5. CASE EndClose(s) \/ TransportFails(s) \/ WriteError(s)
  BY <1>2, <1>5 DEF EndClose, TransportFails, WriteError
<1>6. CASE NegotiatedOutbound(s) \/ UpgradeError(s) \/ NegotiatedInbound(s) \/ InboundRefused(s)
  BY <1>1, <1>6 DEF NegotiatedOutbound, UpgradeError, NegotiatedInbound, InboundRefused,
                    HandlersOK
<1>7. CASE ReadMessage(s)
  <2>1. /\ Other(s) \in Side /\ wire[Other(s)] # <<>>
        /\ wire[Other(s)] \in Seq(Message \ Oversized[Other(s)])
        /\ wire[Other(s)] \in Seq(Message)
    BY <1>7 DEF ReadMessage, TransitOK, Other, Side
  <2>2. /\ Tail(wire[Other(s)]) \in Seq(Message \ Oversized[Other(s)])
        /\ Tail(wire[Other(s)]) \in Seq(Message)
    BY <2>1
  <2> QED  BY <1>7, <2>1, <2>2 DEF ReadMessage, TransitOK, Unread
<1>8. CASE ReadError(s) \/ ReadEnd(s) \/ ReadNothing(s)
  BY <1>1, <1>8 DEF ReadError, ReadEnd, ReadNothing, InboundPending
<1>9. CASE RequestSubstream(s) \/ Flush(s)
  <2>1. writing[s] = 0 /\ writing' = [writing EXCEPT ![s] = 0]
    BY <1>9 DEF RequestSubstream, Flush, OutboundTurn, Polling, TransitOK
  <2>2. writing' = writing
    BY <2>1 DEF TransitOK
  <2> QED  BY <1>1, <1>9, <2>2
           DEF RequestSubstream, Flush, OutboundTurn, Polling, AfterFlush, HandlersOK
<1>10. CASE TakeMessage(s)
  <2>1. queue[s] \in Seq(Message) /\ queue[s] # <<>>
    BY <1>10 DEF TakeMessage, TransitOK
  <2>2. Tail(queue[s]) \in Seq(Message) /\ Head(queue[s]) \in Message
    BY <2>1
  <2> QED  BY <1>10, <2>2 DEF TakeMessage, OutboundTurn, TransitOK, HandlersOK, Message
<1>11. CASE WriteMessage(s)
  <2>1. /\ writing[s] \in Message /\ wire[s] \in Seq(Message)
        /\ wire[s] \in Seq(Message \ Oversized[s])
    BY <1>11 DEF WriteMessage, Polling, TransitOK, Message
  <2>2. CASE writing[s] \in Oversized[s]
    <3>1. /\ writing' = [writing EXCEPT ![s] = 0] /\ UNCHANGED <<wire, queue>>
          /\ outbound' = [outbound EXCEPT ![s] = "writable"]
      BY <1>11, <2>2 DEF WriteMessage, OutboundTurn
    <3>2. writing' \in [Side -> Nat]
      BY <3>1 DEF TransitOK
    <3>3. \A t \in Side : writing'[t] # 0 <=> outbound'[t] = "write"
      BY <3>1 DEF TransitOK, HandlersOK
    <3> QED  BY <3>1, <3>2, <3>3 DEF TransitOK
  <2>3. CASE writing[s] \notin Oversized[s]
    <3>1. /\ Append(wire[s], writing[s]) \in Seq(Message)
          /\ Append(wire[s], writing[s]) \in Seq(Message \ Oversized[s])
      BY <2>1, <2>3, AppendProperties
    <3>2. /\ writing' = [writing EXCEPT ![s] = 0] /\ queue' = queue
          /\ wire' = [wire EXCEPT ![s] = Append(wire[s], writing[s])]
          /\ outbound' = [outbound EXCEPT ![s] = "flush"]
      BY <1>11, <2>3 DEF WriteMessage, OutboundTurn
    <3>3. writing' \in [Side -> Nat] /\ wire' \in [Side -> Seq(Message)]
      BY <3>1, <3>2 DEF TransitOK
    <3>4. \A t \in Side : writing'[t] # 0 <=> outbound'[t] = "write"
      BY <3>2 DEF TransitOK, HandlersOK
    <3>5. \A t \in Side : wire'[t] \in Seq(Message \ Oversized[t])
      BY <3>1, <3>2 DEF TransitOK
    <3> QED  BY <3>2, <3>3, <3>4, <3>5 DEF TransitOK
  <2> QED  BY <2>2, <2>3
<1>12. CASE WriteNotReady(s) \/ NothingToWrite(s)
  <2>1. PICK k \in BOOLEAN : PollPending(s, k)
    BY <1>12, PendingPoll
  <2> QED  BY <1>1, <1>2, <2>1 DEF PollPending
<1> QED  BY <1>3, <1>4, <1>5, <1>6, <1>7, <1>8, <1>9, <1>10, <1>11, <1>12 DEF Poll

LEMMA TypesStep == TypeInv /\ [Next]_vars => TypeInv'
BY HandlersStep, QueuesStep, TransitStep DEF TypeInv

(***************************************************************************)
(* The variables of both ends stay in their types; a handler is polled only*)
(* while the connection task has it, and a substream holds a message       *)
(* exactly while it is writing it (stream.rs, PendingWrite).               *)
(***************************************************************************)
THEOREM TypeCorrect == Spec => []TypeOK
<1>1. TypeInv => TypeOK
  <2> SUFFICES ASSUME TypeInv PROVE TypeOK
    OBVIOUS
  <2>1. ASSUME NEW s \in Side
        PROVE  outmsgs[s] \in Seq(Nat) /\ queue[s] \in Seq(Nat) /\ wire[s] \in Seq(Nat)
    <3>1. Seq(Message) \subseteq Seq(Nat)
      BY DEF Message
    <3> QED  BY <3>1 DEF TypeInv, QueuesOK, TransitOK
  <2>2. disconnects \in [Side -> 0..MaxClose]
    BY ConnectionAssumption DEF TypeInv, QueuesOK, Side
  <2> QED  BY <2>1, <2>2 DEF TypeInv, TypeOK, QueuesOK, HandlersOK, TransitOK
<1> QED  BY <1>1, TypesInit, TypesStep, PTL DEF Spec

--------------------------------------------------------------------------------
(* Selection from sequences.                                               *)

LEMMA ConcatAppend ==
  ASSUME NEW A, NEW u \in Seq(A), NEW v \in Seq(A), NEW m \in A
  PROVE  u \o v \in Seq(A) /\ u \o Append(v, m) = Append(u \o v, m)
OBVIOUS

\* f[i] is what is selected from the first i elements of ms.
Selects(ms, X, f) ==
  f = [i \in 0..Len(ms) |-> IF i = 0 THEN <<>>
                            ELSE IF ms[i] \in X THEN Append(f[i - 1], ms[i]) ELSE f[i - 1]]

LEMMA SelectsExists ==
  ASSUME NEW A, NEW ms \in Seq(A), NEW X
  PROVE  \E f \in [0..Len(ms) -> Seq(A \cap X)] : Selects(ms, X, f)
<1> DEFINE L == Len(ms)
           T == Seq(A \cap X)
           Val(f, i) == IF i = 0 THEN <<>>
                        ELSE IF ms[i] \in X THEN Append(f[i - 1], ms[i]) ELSE f[i - 1]
           Upto(n) == \E f \in [0..n -> T] : \A i \in 0..n : f[i] = Val(f, i)
           S == {n \in Nat : n <= L => Upto(n)}
<1>0. L \in Nat /\ (\A i \in 1..L : ms[i] \in A) /\ <<>> \in T
      /\ \A q \in T, m \in A \cap X : Append(q, m) \in T
  BY AppendProperties
<1> HIDE DEF L, T
<1>1. 0 \in S
  <2> DEFINE f == [i \in 0..0 |-> <<>>]
  <2>1. f \in [0..0 -> T]
    BY <1>0
  <2>2. \A i \in 0..0 : i = 0 /\ f[i] = <<>>
    OBVIOUS
  <2>3. \A i \in 0..0 : f[i] = Val(f, i)
    BY <2>2
  <2>4. Upto(0)
    <3> HIDE DEF f, Val
    <3> QED  BY <2>1, <2>3
  <2> HIDE DEF Upto
  <2> QED  BY <2>4
<1>2. ASSUME NEW n \in Nat, n \in S PROVE n + 1 \in S
  <2>1. SUFFICES ASSUME n + 1 <= L PROVE Upto(n + 1)
    <3> HIDE DEF Upto
    <3> QED  OBVIOUS
  <2>2. Upto(n)
    <3> HIDE DEF Upto
    <3> QED  BY <1>0, <1>2, <2>1
  <2>3. PICK f \in [0..n -> T] : \A i \in 0..n : f[i] = Val(f, i)
    <3> HIDE DEF Val
    <3> QED  BY <2>2
  <2>4. n \in 0..n /\ n + 1 \in 1..L /\ (n + 1) - 1 = n /\ n + 1 # 0
    BY <1>0, <2>1
  <2>5. PICK last \in T : last = IF ms[n + 1] \in X THEN Append(f[n], ms[n + 1]) ELSE f[n]
    BY <1>0, <2>4
  <2>6. PICK g \in [0..(n + 1) -> T] : g[n + 1] = last /\ \A i \in 0..n : g[i] = f[i]
    <3> DEFINE gg == [i \in 0..(n + 1) |-> IF i = n + 1 THEN last ELSE f[i]]
    <3>1. gg \in [0..(n + 1) -> T]
      OBVIOUS
    <3>2. gg[n + 1] = last /\ \A i \in 0..n : gg[i] = f[i]
      OBVIOUS
    <3> HIDE DEF gg
    <3> QED  BY <3>1, <3>2
  <2>7. ASSUME NEW i \in 0..(n + 1) PROVE g[i] = Val(g, i)
    <3>1. CASE i \in 0..n
      <4>1. i # 0 => i - 1 \in 0..n
        BY <3>1
      <4>2. Val(g, i) = Val(f, i)
        BY <2>6, <4>1
      <4> HIDE DEF Val
      <4> QED  BY <2>3, <2>6, <3>1, <4>2
    <3>2. CASE i = n + 1
      <4>1. g[i - 1] = f[n] /\ i # 0
        BY <2>4, <2>6, <3>2
      <4> QED  BY <2>5, <2>6, <3>2, <4>1
    <3>3. i \in 0..n \/ i = n + 1
      OBVIOUS
    <3> QED  BY <3>1, <3>2, <3>3
  <2> HIDE DEF Val
  <2> QED  BY <2>7
<1>3. \A n \in Nat : n \in S
  <2> HIDE DEF S
  <2> QED  BY <1>1, <1>2, NatSetInduction
<1>4. Upto(L)
  <2> HIDE DEF Upto
  <2> QED  BY <1>0, <1>3
<1>5. PICK f \in [0..L -> T] : \A i \in 0..L : f[i] = Val(f, i)
  <2> HIDE DEF Val
  <2> QED  BY <1>4
<1>6. f = [i \in 0..L |-> Val(f, i)]
  <2> HIDE DEF Val
  <2> QED  BY <1>5
<1>7. Selects(ms, X, f)
  BY <1>6 DEF Selects, L
<1> QED  BY <1>7 DEF L, T

\* All such functions agree, also on a longer sequence.
LEMMA SelectsAgree ==
  ASSUME NEW A, NEW ms \in Seq(A), NEW X, NEW f, Selects(ms, X, f),
         NEW ns \in Seq(A), NEW g, Selects(ns, X, g),
         Len(ms) <= Len(ns), \A i \in 1..Len(ms) : ns[i] = ms[i]
  PROVE  \A n \in 0..Len(ms) : g[n] = f[n]
<1>0. Len(ms) \in Nat /\ Len(ns) \in Nat
  OBVIOUS
<1>1. /\ \A i \in 0..Len(ms) : f[i] = IF i = 0 THEN <<>>
                                ELSE IF ms[i] \in X THEN Append(f[i - 1], ms[i]) ELSE f[i - 1]
      /\ \A i \in 0..Len(ns) : g[i] = IF i = 0 THEN <<>>
                                ELSE IF ns[i] \in X THEN Append(g[i - 1], ns[i]) ELSE g[i - 1]
  BY DEF Selects
<1> DEFINE S == {n \in Nat : n <= Len(ms) => g[n] = f[n]}
<1>2. 0 \in S
  BY <1>0, <1>1
<1>3. ASSUME NEW n \in Nat, n \in S PROVE n + 1 \in S
  <2> SUFFICES ASSUME n + 1 <= Len(ms) PROVE g[n + 1] = f[n + 1]
    OBVIOUS
  <2>1. /\ n + 1 \in 0..Len(ms) /\ n + 1 \in 0..Len(ns) /\ n + 1 \in 1..Len(ms)
        /\ n + 1 # 0 /\ (n + 1) - 1 = n /\ g[n] = f[n]
    BY <1>0, <1>3
  <2>2. ns[n + 1] = ms[n + 1]
    BY <2>1
  <2>3. f[n + 1] = IF ms[n + 1] \in X THEN Append(f[n], ms[n + 1]) ELSE f[n]
    BY <1>1, <2>1
  <2>4. g[n + 1] = IF ns[n + 1] \in X THEN Append(g[n], ns[n + 1]) ELSE g[n]
    BY <1>1, <2>1
  <2> QED  BY <2>1, <2>2, <2>3, <2>4
<1>4. \A n \in Nat : n \in S
  <2> HIDE DEF S
  <2> QED  BY <1>2, <1>3, NatSetInduction
<1> QED  BY <1>0, <1>4

\* The selection from a sequence, element by element.
LEMMA AmongProperties ==
  ASSUME NEW A, NEW X
  PROVE  /\ Among(<<>>, X) = <<>>
         /\ \A ms \in Seq(A) : Among(ms, X) \in Seq(A \cap X) /\ Among(ms, X) \in Seq(A)
         /\ \A ms \in Seq(A), m \in A :
              Among(Append(ms, m), X)
                = IF m \in X THEN Append(Among(ms, X), m) ELSE Among(ms, X)
<1> DEFINE Sel(ms) == CHOOSE f : Selects(ms, X, f)
<1>1. \A ms : Among(ms, X) = Sel(ms)[Len(ms)]
  BY DEF Among, Selects
<1>2. ASSUME NEW ms \in Seq(A) PROVE Selects(ms, X, Sel(ms))
  <2>1. \E f : Selects(ms, X, f)
    BY SelectsExists
  <2> QED  BY <2>1
<1> HIDE DEF Sel
<1>3. Among(<<>>, X) = <<>>
  <2>1. <<>> \in Seq(A) /\ Len(<<>>) = 0 /\ 0 \in 0..0
    OBVIOUS
  <2>2. Selects(<<>>, X, Sel(<<>>))
    BY <1>2, <2>1
  <2>3. Sel(<<>>)[0] = <<>>
    BY <2>1, <2>2 DEF Selects
  <2> QED  BY <1>1, <2>1, <2>3
<1>4. ASSUME NEW ms \in Seq(A)
      PROVE  Among(ms, X) \in Seq(A \cap X) /\ Among(ms, X) \in Seq(A)
  <2>1. PICK f \in [0..Len(ms) -> Seq(A \cap X)] : Selects(ms, X, f)
    BY SelectsExists
  <2>2. Len(ms) \in Nat /\ Len(ms) \in 0..Len(ms)
    OBVIOUS
  <2>3. Sel(ms)[Len(ms)] = f[Len(ms)]
    BY <1>2, <2>1, <2>2, SelectsAgree
  <2>4. Among(ms, X) \in Seq(A \cap X)
    BY <1>1, <2>2, <2>3
  <2>5. Seq(A \cap X) \subseteq Seq(A)
    OBVIOUS
  <2> QED  BY <2>4, <2>5
<1>5. ASSUME NEW ms \in Seq(A), NEW m \in A
      PROVE  Among(Append(ms, m), X)
               = IF m \in X THEN Append(Among(ms, X), m) ELSE Among(ms, X)
  <2>1. PICK ns \in Seq(A) :
          /\ ns = Append(ms, m) /\ Len(ns) = Len(ms) + 1 /\ Len(ms) \in Nat
          /\ ns[Len(ms) + 1] = m /\ \A i \in 1..Len(ms) : ns[i] = ms[i]
    <3>1. Append(ms, m) \in Seq(A) /\ Len(ms) \in Nat
      BY AppendProperties
    <3>2. /\ Len(Append(ms, m)) = Len(ms) + 1 /\ Append(ms, m)[Len(ms) + 1] = m
          /\ \A i \in 1..Len(ms) : Append(ms, m)[i] = ms[i]
      BY AppendProperties
    <3> QED  BY <3>1, <3>2
  <2>2. PICK g : g = Sel(ns) /\ Selects(ns, X, g)
    BY <1>2
  <2>3. PICK f : f = Sel(ms) /\ Selects(ms, X, f)
    BY <1>2
  <2>4. Len(ms) \in 0..Len(ms) /\ Len(ms) <= Len(ns)
    BY <2>1
  <2>5. g[Len(ms)] = f[Len(ms)]
    <3>1. \A i \in 1..Len(ms) : ns[i] = ms[i]
      BY <2>1
    <3>2. \A n \in 0..Len(ms) : g[n] = f[n]
      BY <2>2, <2>3, <2>4, <3>1, SelectsAgree
    <3> QED  BY <2>4, <3>2
  <2>6. Len(ms) + 1 \in 0..Len(ns) /\ Len(ms) + 1 # 0 /\ (Len(ms) + 1) - 1 = Len(ms)
    BY <2>1
  <2>7. g[Len(ms) + 1] = IF ns[Len(ms) + 1] \in X
                         THEN Append(g[Len(ms)], ns[Len(ms) + 1]) ELSE g[Len(ms)]
    BY <2>2, <2>6 DEF Selects
  <2> QED  BY <1>1, <2>1, <2>2, <2>3, <2>5, <2>7
<1> QED  BY <1>3, <1>4, <1>5

\* The selection from a concatenation.
LEMMA AmongConcat ==
  ASSUME NEW A, NEW X, NEW a \in Seq(A), NEW b \in Seq(A)
  PROVE  Among(a \o b, X) = Among(a, X) \o Among(b, X)
<1> DEFINE P(c) == Among(a \o c, X) = Among(a, X) \o Among(c, X)
           S == {n \in Nat : \A c \in Seq(A) : Len(c) = n => P(c)}
<1>1. 0 \in S
  <2>1. ASSUME NEW c \in Seq(A), Len(c) = 0 PROVE P(c)
    <3>1. c = <<>> /\ a \o c = a
      BY <2>1
    <3>2. Among(c, X) = <<>> /\ Among(a, X) \in Seq(A \cap X)
      BY <3>1, AmongProperties
    <3> QED  BY <3>1, <3>2
  <2> HIDE DEF P
  <2> QED  BY <2>1
<1>2. ASSUME NEW n \in Nat, n \in S PROVE n + 1 \in S
  <2>1. ASSUME NEW c \in Seq(A), Len(c) = n + 1 PROVE P(c)
    <3>0. \A q \in Seq(A), x \in A :
            Among(Append(q, x), X) = IF x \in X THEN Append(Among(q, X), x) ELSE Among(q, X)
      BY AmongProperties
    <3>1. PICK d \in Seq(A), m \in A : Len(d) = n /\ c = Append(d, m)
      <4> DEFINE d == [i \in 1..n |-> c[i]]
                 m == c[n + 1]
      <4>1. d \in Seq(A) /\ Len(d) = n /\ m \in A
        BY <2>1
      <4>2. c = Append(d, m)
        BY <2>1
      <4> QED  BY <4>1, <4>2
    <3>2. P(d)
      <4> HIDE DEF P
      <4> QED  BY <1>2, <3>1
    <3>3. a \o c = Append(a \o d, m) /\ a \o d \in Seq(A)
      BY <3>1, ConcatAppend
    <3>4. Among(a \o c, X) = IF m \in X THEN Append(Among(a \o d, X), m) ELSE Among(a \o d, X)
      BY <3>0, <3>3
    <3>5. Among(c, X) = IF m \in X THEN Append(Among(d, X), m) ELSE Among(d, X)
      BY <3>0, <3>1
    <3>6. PICK u \in Seq(A), v \in Seq(A) : u = Among(a, X) /\ v = Among(d, X)
      BY AmongProperties
    <3>7. u \o Append(v, m) = Append(u \o v, m)
      BY ConcatAppend
    <3> QED  BY <3>2, <3>4, <3>5, <3>6, <3>7
  <2> HIDE DEF P
  <2> QED  BY <2>1
<1>3. \A n \in Nat : n \in S
  <2> HIDE DEF S
  <2> QED  BY <1>1, <1>2, NatSetInduction
<1>4. Len(b) \in Nat
  OBVIOUS
<1>5. P(b)
  <2> HIDE DEF P
  <2> QED  BY <1>3, <1>4
<1> QED  BY <1>5

--------------------------------------------------------------------------------
(* The events of a connection.                                             *)

\* What Network has been told of a connection and will be told of it.
Log(s) == told[s] \o events[s]

\* The first event of a connection is "established", no other one is, and its
\* last one is "closed" if and only if the swarm's connection is over.
LogOK(s) ==
  /\ Log(s) \in Seq(EventSet) /\ Len(Log(s)) >= 1
  /\ \A i \in 1..Len(Log(s)) :
       /\ Log(s)[i].kind = "established" <=> i = 1
       /\ Log(s)[i].kind = "closed" <=> i = Len(Log(s)) /\ link[s] = "closed"

LEMMA ForwardConcat ==
  ASSUME NEW A, NEW u \in Seq(A), NEW v \in Seq(A), v # <<>>
  PROVE  Append(u, Head(v)) \o Tail(v) = u \o v
<1>1. PICK w \in Seq(A), h \in A : w = Tail(v) /\ h = Head(v)
  BY HeadTailProperties
<1>2. v = <<h>> \o w
  BY <1>1
<1>3. Append(u, h) = u \o <<h>> /\ <<h>> \in Seq(A)
  OBVIOUS
<1>4. (u \o <<h>>) \o w = u \o (<<h>> \o w)
  BY <1>3, ConcatAssociative
<1> QED  BY <1>1, <1>2, <1>3, <1>4

\* What the steps do to the events of a side.
LEMMA LogAppend ==
  \A u, v \in Seq(EventSet), e \in EventSet : u \o Append(v, e) = Append(u \o v, e)
BY ConcatAppend

LEMMA ForwardLog ==
  ASSUME TypeInv, NEW s \in Side, ForwardEvent(s), NEW t \in Side
  PROVE  Log(t)' = Log(t) /\ link' = link
<1>0. /\ told[t] \in Seq(EventSet) /\ events[t] \in Seq(EventSet)
      /\ told \in [Side -> Seq(EventSet)] /\ events \in [Side -> Seq(EventSet)]
  BY DEF TypeInv, QueuesOK
<1>1. CASE s = t
  <2>1. /\ events[t] # <<>> /\ link' = link
        /\ told'[t] = Append(told[t], Head(events[t])) /\ events'[t] = Tail(events[t])
    BY <1>0, <1>1 DEF ForwardEvent
  <2> QED  BY <1>0, <2>1, ForwardConcat DEF Log
<1>2. CASE s # t
  BY <1>0, <1>2 DEF ForwardEvent, Log
<1> QED  BY <1>1, <1>2

LEMMA ReadLog ==
  ASSUME TypeInv, NEW s \in Side, ReadMessage(s)
  PROVE  /\ Live(s) /\ link' = link
         /\ Event("message", Head(wire[Other(s)])) \in EventSet
         /\ Log(s)' = Append(Log(s), Event("message", Head(wire[Other(s)])))
         /\ \A t \in Side \ {s} : Log(t)' = Log(t)
<1>0. /\ told[s] \in Seq(EventSet) /\ events[s] \in Seq(EventSet)
      /\ events \in [Side -> Seq(EventSet)]
  BY DEF TypeInv, QueuesOK
<1>1. PICK m : m = Head(wire[Other(s)])
  OBVIOUS
<1>2. /\ Live(s) /\ link' = link /\ told' = told
      /\ events' = [events EXCEPT ![s] = Append(events[s], Event("message", m))]
  BY <1>1 DEF ReadMessage, queueVars
<1>3. m \in Nat
  <2>1. Other(s) \in Side /\ wire[Other(s)] # <<>>
    BY DEF ReadMessage, Other, Side
  <2>2. wire[Other(s)] \in Seq(Message)
    BY <2>1 DEF TypeInv, TransitOK
  <2>3. m \in Message
    BY <1>1, <2>1, <2>2
  <2> QED  BY <2>3 DEF Message
<1>4. Event("message", m) \in EventSet
  BY <1>3 DEF Event, EventSet
<1>5. Log(s)' = Append(Log(s), Event("message", m))
  <2>1. told[s] \o Append(events[s], Event("message", m))
          = Append(told[s] \o events[s], Event("message", m))
    BY <1>0, <1>4, LogAppend
  <2>2. events'[s] = Append(events[s], Event("message", m))
    BY <1>0, <1>2
  <2> QED  BY <1>2, <2>1, <2>2 DEF Log
<1>6. \A t \in Side \ {s} : Log(t)' = Log(t)
  BY <1>0, <1>2 DEF Log
<1> QED  BY <1>1, <1>2, <1>4, <1>5, <1>6

LEMMA DropLog ==
  ASSUME TypeInv, NEW s \in Side, Drops(s)
  PROVE  /\ Live(s) /\ link'[s] = "closed" /\ Event("closed", 0) \in EventSet
         /\ Log(s)' = Append(Log(s), Event("closed", 0))
         /\ \A t \in Side \ {s} : Log(t)' = Log(t) /\ link'[t] = link[t]
<1>0. /\ told[s] \in Seq(EventSet) /\ events[s] \in Seq(EventSet)
      /\ events \in [Side -> Seq(EventSet)]
      /\ link \in [Side -> {"up", "closing", "closed"}]
  BY DEF TypeInv, QueuesOK, HandlersOK
<1>1. /\ Live(s) /\ link' = [link EXCEPT ![s] = "closed"] /\ told' = told
      /\ events' = [events EXCEPT ![s] = Append(events[s], Event("closed", 0))]
  BY DEF Drops, Dropped, ClosedEvent
<1>2. Event("closed", 0) \in EventSet
  BY DEF Event, EventSet
<1>3. Log(s)' = Append(Log(s), Event("closed", 0))
  <2>1. told[s] \o Append(events[s], Event("closed", 0))
          = Append(told[s] \o events[s], Event("closed", 0))
    BY <1>0, <1>2, LogAppend
  <2>2. events'[s] = Append(events[s], Event("closed", 0))
    BY <1>0, <1>1
  <2> QED  BY <1>1, <2>1, <2>2 DEF Log
<1>4. \A t \in Side \ {s} : Log(t)' = Log(t) /\ link'[t] = link[t]
  BY <1>0, <1>1 DEF Log
<1> QED  BY <1>0, <1>1, <1>2, <1>3, <1>4

LEMMA OtherLog ==
  ASSUME NEW s \in Side, NEW t \in Side,
         Send(s) \/ NotifyHandler(s) \/ TakeMessage(s) \/ WriteMessage(s)
  PROVE  Log(t)' = Log(t) /\ link' = link
BY DEF Send, NotifyHandler, TakeMessage, WriteMessage, OutboundTurn, queueVars, Log

\* One event more, of a connection that is not closed yet.
LEMMA LogPush ==
  ASSUME NEW L \in Seq(EventSet), Len(L) >= 1, NEW e \in EventSet, e.kind # "established",
         \A i \in 1..Len(L) : (L[i].kind = "established" <=> i = 1) /\ L[i].kind # "closed",
         NEW M, M = Append(L, e)
  PROVE  /\ M \in Seq(EventSet) /\ Len(M) >= 1
         /\ \A i \in 1..Len(M) : /\ M[i].kind = "established" <=> i = 1
                                 /\ M[i].kind = "closed" <=> i = Len(M) /\ e.kind = "closed"
<1>1. /\ M \in Seq(EventSet) /\ Len(M) = Len(L) + 1 /\ Len(L) \in Nat
      /\ M[Len(L) + 1] = e /\ \A i \in 1..Len(L) : M[i] = L[i]
  BY AppendProperties
<1>2. ASSUME NEW i \in 1..Len(M)
      PROVE  /\ M[i].kind = "established" <=> i = 1
             /\ M[i].kind = "closed" <=> i = Len(M) /\ e.kind = "closed"
  <2>1. CASE i = Len(L) + 1
    <3>1. M[i] = e /\ i # 1 /\ i = Len(M)
      BY <1>1, <2>1
    <3> QED  BY <3>1
  <2>2. CASE i \in 1..Len(L)
    <3>1. M[i] = L[i] /\ i # Len(M)
      BY <1>1, <2>2
    <3> QED  BY <2>2, <3>1
  <2>3. i = Len(L) + 1 \/ i \in 1..Len(L)
    BY <1>1
  <2> QED  BY <2>1, <2>2, <2>3
<1> QED  BY <1>1, <1>2

LEMMA LogsInit == Init => \A s \in Side : LogOK(s)
<1> SUFFICES ASSUME Init, NEW s \in Side PROVE LogOK(s)
  OBVIOUS
<1>1. Event("established", 0) \in EventSet /\ Event("established", 0).kind = "established"
  BY DEF Event, EventSet
<1>2. Log(s) = <<Event("established", 0)>> /\ link[s] = "up"
  <2>1. <<>> \o <<Event("established", 0)>> = <<Event("established", 0)>>
    BY <1>1
  <2> QED  BY <2>1 DEF Init, Log
<1>3. Len(Log(s)) = 1 /\ Log(s)[1] = Event("established", 0) /\ Log(s) \in Seq(EventSet)
  BY <1>1, <1>2
<1> QED  BY <1>1, <1>2, <1>3 DEF LogOK

LEMMA LogsStep ==
  ASSUME TypeInv, NEW s \in Side, LogOK(s), [Next]_vars PROVE LogOK(s)'
<1>0. link[s] \in {"up", "closing", "closed"}
  BY DEF TypeInv, HandlersOK
<1>1. ASSUME Log(s)' = Log(s), link'[s] = "closed" <=> link[s] = "closed" PROVE LogOK(s)'
  BY <1>1 DEF LogOK
<1>2. ASSUME NEW e \in EventSet, e.kind # "established", Live(s),
             Log(s)' = Append(Log(s), e), link'[s] = "closed" <=> e.kind = "closed"
      PROVE  LogOK(s)'
  <2>1. PICK L : L = Log(s)
    OBVIOUS
  <2>2. PICK M : M = Log(s)'
    OBVIOUS
  <2>3. link[s] # "closed"
    BY <1>2 DEF Live
  <2>4. /\ L \in Seq(EventSet) /\ Len(L) >= 1
        /\ \A i \in 1..Len(L) : (L[i].kind = "established" <=> i = 1) /\ L[i].kind # "closed"
    BY <2>1, <2>3 DEF LogOK
  <2>5. /\ M \in Seq(EventSet) /\ Len(M) >= 1
        /\ \A i \in 1..Len(M) : /\ M[i].kind = "established" <=> i = 1
                                /\ M[i].kind = "closed" <=> i = Len(M) /\ e.kind = "closed"
    <3>1. M = Append(L, e)
      BY <1>2, <2>1, <2>2
    <3> QED  BY <1>2, <2>4, <3>1, LogPush
  <2> QED  BY <1>2, <2>2, <2>5 DEF LogOK
<1>3. CASE Quiet
  BY <1>0, <1>1, <1>3 DEF Quiet, Log
<1>4. ASSUME NEW t \in Side, Send(t) \/ NotifyHandler(t) \/ TakeMessage(t) \/ WriteMessage(t)
      PROVE  LogOK(s)'
  BY <1>1, <1>4, OtherLog
<1>5. ASSUME NEW t \in Side, ForwardEvent(t) PROVE LogOK(s)'
  BY <1>1, <1>5, ForwardLog
<1>6. ASSUME NEW t \in Side, t # s, ReadMessage(t) \/ Drops(t) PROVE LogOK(s)'
  <2>1. Log(s)' = Log(s) /\ link'[s] = link[s]
    BY <1>6, ReadLog, DropLog
  <2> QED  BY <1>1, <2>1
<1>7. CASE ReadMessage(s)
  <2>1. PICK e \in EventSet : e = Event("message", Head(wire[Other(s)]))
    BY <1>7, ReadLog
  <2>2. e.kind = "message"
    BY <2>1 DEF Event
  <2>3. Live(s) /\ link' = link /\ Log(s)' = Append(Log(s), e)
    BY <1>7, <2>1, ReadLog
  <2> QED  BY <1>2, <2>2, <2>3 DEF Live
<1>8. CASE Drops(s)
  <2>1. PICK e \in EventSet : e = Event("closed", 0)
    BY <1>8, DropLog
  <2>2. e.kind = "closed"
    BY <2>1 DEF Event
  <2>3. Live(s) /\ link'[s] = "closed" /\ Log(s)' = Append(Log(s), e)
    BY <1>8, <2>1, DropLog
  <2> QED  BY <1>2, <2>2, <2>3
<1>9. Quiet \/ \E t \in Side : Moves(t)
  BY Shapes
<1> QED  BY <1>3, <1>4, <1>5, <1>6, <1>7, <1>8, <1>9 DEF Moves

(***************************************************************************)
(* The Network task hears of a connection first that it is established,    *)
(* last that it is closed, and nothing after that, whichever way closing   *)
(* races with reading.                                                     *)
(***************************************************************************)
THEOREM EventsAreBracketed == Spec => []EventsBracketed
<1> DEFINE Inv == TypeInv /\ \A s \in Side : LogOK(s)
<1>1. Init => Inv
  BY TypesInit, LogsInit
<1>2. Inv /\ [Next]_vars => Inv'
  BY TypesStep, LogsStep
<1>3. Inv => EventsBracketed
  <2> SUFFICES ASSUME Inv, NEW s \in Side,
                      NEW i \in DOMAIN (told[s] \o events[s])
               PROVE  /\ (told[s] \o events[s])[i].kind = "established" <=> i = 1
                      /\ (told[s] \o events[s])[i].kind = "closed"
                           => i = Len(told[s] \o events[s])
    BY DEF EventsBracketed
  <2>1. i \in 1..Len(Log(s))
    <3>1. Log(s) \in Seq(EventSet)
      BY DEF LogOK
    <3>2. DOMAIN Log(s) = 1..Len(Log(s))
      BY <3>1, LenProperties
    <3> QED  BY <3>2 DEF Log
  <2> QED  BY <2>1 DEF LogOK, Log
<1> QED  BY <1>1, <1>2, <1>3, PTL DEF Spec

--------------------------------------------------------------------------------
(* The messages of a connection.                                           *)

\* What the codec accepts of a sequence of messages.
LEMMA FittingProperties ==
  ASSUME NEW s \in Side
  PROVE  /\ Fitting(s, <<>>) = <<>>
         /\ \A ms \in Seq(Nat) : Fitting(s, ms) \in Seq(Nat)
         /\ \A m \in Nat : Fitting(s, <<m>>) = IF m \in Oversized[s] THEN <<>> ELSE <<m>>
         /\ \A ms \in Seq(Nat), m \in Nat :
              Fitting(s, Append(ms, m)) = Fitting(s, ms) \o Fitting(s, <<m>>)
         /\ \A ms \in Seq(Nat) :
              ms # <<>> => Fitting(s, ms) = Fitting(s, <<Head(ms)>>) \o Fitting(s, Tail(ms))
<1> DEFINE X == Nat \ Oversized[s]
<1>0. \A ms : Fitting(s, ms) = Among(ms, X)
  BY DEF Fitting
<1>1. \A m \in Nat : m \in X <=> m \notin Oversized[s]
  OBVIOUS
<1> HIDE DEF X
<1>2. /\ Among(<<>>, X) = <<>>
      /\ \A ms \in Seq(Nat) : Among(ms, X) \in Seq(Nat)
      /\ \A ms \in Seq(Nat), m \in Nat :
           Among(Append(ms, m), X) = IF m \in X THEN Append(Among(ms, X), m) ELSE Among(ms, X)
  BY AmongProperties
<1>3. \A a, b \in Seq(Nat) : Among(a \o b, X) = Among(a, X) \o Among(b, X)
  BY AmongConcat
<1>4. ASSUME NEW m \in Nat
      PROVE  Fitting(s, <<m>>) = IF m \in Oversized[s] THEN <<>> ELSE <<m>>
  <2>1. <<m>> = Append(<<>>, m) /\ <<>> \in Seq(Nat)
    OBVIOUS
  <2>2. Among(<<m>>, X) = IF m \in X THEN Append(<<>>, m) ELSE <<>>
    BY <1>2, <2>1
  <2> QED  BY <1>0, <1>1, <2>1, <2>2
<1>5. ASSUME NEW ms \in Seq(Nat), NEW m \in Nat
      PROVE  Fitting(s, Append(ms, m)) = Fitting(s, ms) \o Fitting(s, <<m>>)
  <2>1. PICK h \in Seq(Nat) : h = <<m>> /\ Append(ms, m) = ms \o h
    <3>1. <<m>> \in Seq(Nat) /\ Append(ms, m) = ms \o <<m>>
      OBVIOUS
    <3> QED  BY <3>1
  <2>2. Among(ms \o h, X) = Among(ms, X) \o Among(h, X)
    BY ONLY <1>3, ms \in Seq(Nat), h \in Seq(Nat)
  <2>3. Fitting(s, Append(ms, m)) = Fitting(s, ms) \o Fitting(s, h)
    BY <2>1, <2>2 DEF Fitting, X
  <2> QED  BY <2>1, <2>3
<1>6. ASSUME NEW ms \in Seq(Nat), ms # <<>>
      PROVE  Fitting(s, ms) = Fitting(s, <<Head(ms)>>) \o Fitting(s, Tail(ms))
  <2>1. Head(ms) \in Nat /\ Tail(ms) \in Seq(Nat)
    BY <1>6, HeadTailProperties
  <2>2. PICK h \in Seq(Nat), w \in Seq(Nat) :
          h = <<Head(ms)>> /\ w = Tail(ms) /\ ms = h \o w
    <3>1. ms = <<Head(ms)>> \o Tail(ms) /\ <<Head(ms)>> \in Seq(Nat)
      BY <1>6, <2>1
    <3> QED  BY <2>1, <3>1
  <2>3. Among(h \o w, X) = Among(h, X) \o Among(w, X)
    BY ONLY <1>3, h \in Seq(Nat), w \in Seq(Nat)
  <2>4. Fitting(s, ms) = Fitting(s, h) \o Fitting(s, w)
    BY <2>2, <2>3 DEF Fitting, X
  <2> QED  BY <2>2, <2>4
<1> QED  BY <1>0, <1>2, <1>4, <1>5, <1>6

\* The messages among some events, event by event.
LEMMA MessagesInProperties ==
  /\ MessagesIn(<<>>) = <<>>
  /\ \A es \in Seq(EventSet) : MessagesIn(es) \in Seq(Nat)
  /\ \A es \in Seq(EventSet), e \in EventSet :
       MessagesIn(Append(es, e)) = IF e.kind = "message" THEN Append(MessagesIn(es), e.msg)
                                   ELSE MessagesIn(es)
<1> DEFINE X == [kind : {"message"}, msg : Nat]
           Msgs(q) == [i \in DOMAIN q |-> q[i].msg]
<1>0. \A es : MessagesIn(es) = Msgs(Among(es, X))
  BY DEF MessagesIn
<1>1. \A e \in EventSet : (e \in X <=> e.kind = "message") /\ e.msg \in Nat
  BY DEF EventSet
<1>2. ASSUME NEW q \in Seq(EventSet)
      PROVE  /\ Msgs(q) \in Seq(Nat) /\ Len(Msgs(q)) = Len(q)
             /\ \A i \in 1..Len(q) : Msgs(q)[i] = q[i].msg
  <2>1. DOMAIN q = 1..Len(q) /\ Len(q) \in Nat /\ \A i \in 1..Len(q) : q[i] \in EventSet
    OBVIOUS
  <2>2. \A i \in 1..Len(q) : q[i].msg \in Nat
    BY <1>1, <2>1
  <2> QED  BY <2>1, <2>2
<1>3. ASSUME NEW q \in Seq(EventSet), NEW e \in EventSet
      PROVE  Msgs(Append(q, e)) = Append(Msgs(q), e.msg)
  <2>1. PICK r \in Seq(EventSet) :
          /\ r = Append(q, e) /\ Len(r) = Len(q) + 1 /\ Len(q) \in Nat
          /\ r[Len(q) + 1] = e /\ \A i \in 1..Len(q) : r[i] = q[i]
    <3>1. Append(q, e) \in Seq(EventSet) /\ Len(q) \in Nat
      BY AppendProperties
    <3>2. /\ Len(Append(q, e)) = Len(q) + 1 /\ Append(q, e)[Len(q) + 1] = e
          /\ \A i \in 1..Len(q) : Append(q, e)[i] = q[i]
      BY AppendProperties
    <3> QED  BY <3>1, <3>2
  <2>2. PICK u \in Seq(Nat) :
          u = Msgs(q) /\ Len(u) = Len(q) /\ \A i \in 1..Len(q) : u[i] = q[i].msg
    BY <1>2
  <2>3. PICK v \in Seq(Nat) :
          v = Msgs(r) /\ Len(v) = Len(r) /\ \A i \in 1..Len(r) : v[i] = r[i].msg
    BY <1>2
  <2>4. PICK w \in Seq(Nat) : /\ w = Append(u, e.msg) /\ Len(w) = Len(u) + 1
                              /\ w[Len(u) + 1] = e.msg /\ \A i \in 1..Len(u) : w[i] = u[i]
    <3>1. Append(u, e.msg) \in Seq(Nat)
      BY <1>1, AppendProperties
    <3>2. /\ Len(Append(u, e.msg)) = Len(u) + 1 /\ Append(u, e.msg)[Len(u) + 1] = e.msg
          /\ \A i \in 1..Len(u) : Append(u, e.msg)[i] = u[i]
      BY <1>1, AppendProperties
    <3> QED  BY <3>1, <3>2
  <2>5. ASSUME NEW i \in 1..Len(v) PROVE v[i] = w[i]
    <3>1. CASE i = Len(q) + 1
      BY <2>1, <2>2, <2>3, <2>4, <3>1
    <3>2. CASE i \in 1..Len(q)
      BY <2>1, <2>2, <2>3, <2>4, <3>2
    <3>3. i = Len(q) + 1 \/ i \in 1..Len(q)
      BY <2>1, <2>3
    <3> QED  BY <3>1, <3>2, <3>3
  <2>6. Len(v) = Len(w)
    BY <2>1, <2>2, <2>3, <2>4
  <2>7. v = w
    BY <2>5, <2>6, SeqEqual
  <2> HIDE DEF Msgs
  <2> QED  BY <2>1, <2>2, <2>3, <2>4, <2>7
<1>4. Msgs(<<>>) = <<>>
  OBVIOUS
<1> HIDE DEF X, Msgs
<1>5. /\ Among(<<>>, X) = <<>>
      /\ \A es \in Seq(EventSet) : Among(es, X) \in Seq(EventSet)
      /\ \A es \in Seq(EventSet), e \in EventSet :
           Among(Append(es, e), X) = IF e \in X THEN Append(Among(es, X), e) ELSE Among(es, X)
  BY AmongProperties
<1> QED  BY <1>0, <1>1, <1>2, <1>3, <1>4, <1>5

\* The messages of a side that the other side has read.
Heard(s) == MessagesIn(Log(Other(s)))

\* The message a substream is writing, if any.
Writing(s) == IF writing[s] = 0 THEN <<>> ELSE <<writing[s]>>

\* Concatenation, kept folded: the provers then rearrange it by its laws alone.
Join(u, v) == u \o v

(***************************************************************************)
(* The messages of a side that fit are, in this order: read by the other   *)
(* side, on the wire, in the substream, in the handler's queue, and the    *)
(* rest.  While the connection is up the rest is in the behaviour's queue; *)
(* afterwards it is lost, but what is still delivered remains a prefix.    *)
(***************************************************************************)
PipeOK(s) ==
  \E rest \in Seq(Nat) :
    /\ Accepted(s) = Join(Heard(s), Join(Fitting(s, wire[s]),
                       Join(Fitting(s, Writing(s)), Join(Fitting(s, queue[s]), rest))))
    /\ link[s] = "up" => rest = Fitting(s, outmsgs[s])

\* One message more to send.
LEMMA SendAccepts ==
  ASSUME NEW s \in Side, sent[s] \in Nat, sent'[s] = sent[s] + 1
  PROVE  /\ Accepted(s) \in Seq(Nat)
         /\ Accepted(s)' = Accepted(s) \o Fitting(s, <<sent[s] + 1>>)
<1> DEFINE C(n) == [i \in 1..n |-> i]
<1>1. \A n \in Nat : C(n) \in Seq(Nat) /\ Len(C(n)) = n
  OBVIOUS
<1>2. ASSUME NEW n \in Nat PROVE C(n + 1) = Append(C(n), n + 1)
  OBVIOUS
<1>3. Accepted(s) = Fitting(s, C(sent[s])) /\ Accepted(s)' = Fitting(s, C(sent[s] + 1))
  BY DEF Accepted, Fitting
<1> HIDE DEF C
<1>4. sent[s] + 1 \in Nat
  OBVIOUS
<1> QED  BY <1>1, <1>2, <1>3, <1>4, FittingProperties

\* What PipeOK is about, as plain sequences of messages.
LEMMA PipeTypes ==
  ASSUME TypeInv, NEW s \in Side, LogOK(Other(s))
  PROVE  /\ Other(s) \in Side /\ Heard(s) \in Seq(Nat)
         /\ wire[s] \in Seq(Nat) /\ queue[s] \in Seq(Nat) /\ outmsgs[s] \in Seq(Nat)
         /\ Writing(s) \in Seq(Nat) /\ writing[s] \in Nat /\ sent[s] \in Nat
         /\ Fitting(s, wire[s]) \in Seq(Nat) /\ Fitting(s, queue[s]) \in Seq(Nat)
         /\ Fitting(s, Writing(s)) \in Seq(Nat) /\ Fitting(s, outmsgs[s]) \in Seq(Nat)
<1>1. Seq(Message) \subseteq Seq(Nat)
  BY DEF Message
<1>2. wire[s] \in Seq(Nat) /\ queue[s] \in Seq(Nat) /\ outmsgs[s] \in Seq(Nat)
  BY <1>1 DEF TypeInv, TransitOK, QueuesOK
<1>3. writing[s] \in Nat /\ sent[s] \in Nat
  BY DEF TypeInv, TransitOK, QueuesOK
<1>4. Writing(s) \in Seq(Nat)
  BY <1>3 DEF Writing
<1>5. Other(s) \in Side /\ Heard(s) \in Seq(Nat)
  BY MessagesInProperties DEF Other, Side, Heard, LogOK
<1> QED  BY <1>2, <1>3, <1>4, <1>5, FittingProperties

LEMMA PipesInit == Init => \A s \in Side : PipeOK(s)
<1> SUFFICES ASSUME Init, NEW s \in Side PROVE PipeOK(s)
  OBVIOUS
<1>1. Fitting(s, <<>>) = <<>>
  BY FittingProperties
<1>2. Heard(s) = <<>>
  <2>1. Other(s) \in Side
    BY DEF Other, Side
  <2>2. Event("established", 0) \in EventSet /\ Event("established", 0).kind = "established"
    BY DEF Event, EventSet
  <2>3. Log(Other(s)) = Append(<<>>, Event("established", 0))
    <3>1. <<>> \o <<Event("established", 0)>> = Append(<<>>, Event("established", 0))
      BY <2>2
    <3> QED  BY <2>1, <3>1 DEF Init, Log
  <2>4. <<>> \in Seq(EventSet)
    OBVIOUS
  <2> QED  BY <2>2, <2>3, <2>4, MessagesInProperties DEF Heard
<1>3. Accepted(s) = <<>>
  <2>1. [i \in 1..0 |-> i] = <<>>
    OBVIOUS
  <2> QED  BY <1>1, <2>1 DEF Accepted, Init
<1>4. wire[s] = <<>> /\ queue[s] = <<>> /\ outmsgs[s] = <<>> /\ Writing(s) = <<>>
  BY DEF Init, Writing
<1>5. <<>> \in Seq(Nat) /\ <<>> = Join(<<>>, Join(<<>>, Join(<<>>, Join(<<>>, <<>>))))
  BY DEF Join
<1> QED  BY <1>1, <1>2, <1>3, <1>4, <1>5 DEF PipeOK

\* Moving messages from one place to the next.
LEMMA Regroup == \A u, v, w \in Seq(Nat) : Join(Join(u, v), w) = Join(u, Join(v, w))
BY ConcatAssociative DEF Join

LEMMA JoinTypes == \A u, v \in Seq(Nat) : Join(u, v) \in Seq(Nat)
BY ConcatProperties DEF Join

LEMMA JoinEmpty == \A u \in Seq(Nat) : Join(u, <<>>) = u /\ Join(<<>>, u) = u
BY ConcatEmptySeq DEF Join

LEMMA RegroupEnd ==
  ASSUME NEW a \in Seq(Nat), NEW b \in Seq(Nat), NEW c \in Seq(Nat), NEW d \in Seq(Nat),
         NEW r \in Seq(Nat), NEW x \in Seq(Nat)
  PROVE  Join(Join(a, Join(b, Join(c, Join(d, r)))), x)
           = Join(a, Join(b, Join(c, Join(d, Join(r, x)))))
<1>1. PICK y \in Seq(Nat) : y = Join(d, r)
  BY JoinTypes
<1>2. PICK z \in Seq(Nat) : z = Join(c, y)
  BY JoinTypes
<1>3. PICK w \in Seq(Nat) : w = Join(b, z)
  BY JoinTypes
<1>4. Join(Join(d, r), x) = Join(d, Join(r, x))
  BY Regroup
<1>5. Join(Join(c, y), x) = Join(c, Join(y, x))
  BY Regroup
<1>6. Join(Join(b, z), x) = Join(b, Join(z, x))
  BY Regroup
<1>7. Join(Join(a, w), x) = Join(a, Join(w, x))
  BY Regroup
<1> QED  BY <1>1, <1>2, <1>3, <1>4, <1>5, <1>6, <1>7

\* Every step leaves the messages of a side in order.
LEMMA PipesStep ==
  ASSUME TypeInv, NEW s \in Side, LogOK(Other(s)), PipeOK(s), [Next]_vars
  PROVE  PipeOK(s)'
<1> DEFINE o == Other(s)
           F(ms) == Fitting(s, ms)
<1>0. o \in Side /\ o # s /\ Other(o) = s
  BY DEF Other, Side
<1>1. PICK a \in Seq(Nat), b \in Seq(Nat), c \in Seq(Nat), d \in Seq(Nat), r \in Seq(Nat) :
        /\ a = Heard(s) /\ b = F(wire[s]) /\ c = F(Writing(s)) /\ d = F(queue[s])
        /\ Accepted(s) = Join(a, Join(b, Join(c, Join(d, r))))
        /\ link[s] = "up" => r = F(outmsgs[s])
  BY PipeTypes DEF PipeOK
<1>2. /\ F(<<>>) = <<>>
      /\ \A ms \in Seq(Nat) : F(ms) \in Seq(Nat)
      /\ \A m \in Nat : F(<<m>>) = IF m \in Oversized[s] THEN <<>> ELSE <<m>>
      /\ \A ms \in Seq(Nat), m \in Nat : F(Append(ms, m)) = Join(F(ms), F(<<m>>))
      /\ \A ms \in Seq(Nat) : ms # <<>> => F(ms) = Join(F(<<Head(ms)>>), F(Tail(ms)))
  BY FittingProperties DEF Join
<1>3. /\ wire[s] \in Seq(Nat) /\ queue[s] \in Seq(Nat) /\ outmsgs[s] \in Seq(Nat)
      /\ writing[s] \in Nat /\ sent[s] \in Nat
  BY PipeTypes
<1>4. /\ told \in [Side -> Seq(EventSet)] /\ events \in [Side -> Seq(EventSet)]
      /\ link \in [Side -> {"up", "closing", "closed"}]
      /\ DOMAIN wire = Side /\ DOMAIN queue = Side /\ DOMAIN outmsgs = Side
      /\ DOMAIN writing = Side /\ DOMAIN sent = Side
  BY DEF TypeInv, QueuesOK, HandlersOK, TransitOK
<1> HIDE DEF o, F
<1> DEFINE Goal == \E q \in Seq(Nat) :
             /\ Accepted(s)' = Join(Heard(s)', Join(F(wire'[s]),
                                 Join(F(Writing(s)'), Join(F(queue'[s]), q))))
             /\ link'[s] = "up" => q = F(outmsgs'[s])
<1>5. SUFFICES Goal
  BY DEF PipeOK, F, Fitting
<1>6. ASSUME NEW a2, NEW b2, NEW c2, NEW d2, NEW q \in Seq(Nat),
             Heard(s)' = a2, F(wire'[s]) = b2, F(Writing(s)') = c2, F(queue'[s]) = d2,
             Accepted(s)' = Join(a2, Join(b2, Join(c2, Join(d2, q)))),
             link'[s] = "up" => q = F(outmsgs'[s])
      PROVE  Goal
  BY <1>6
<1> HIDE DEF Goal
<1>7. CASE Quiet
  <2>1. /\ Log(o)' = Log(o) /\ UNCHANGED <<wire, writing, queue, outmsgs, sent>>
        /\ link'[s] = "up" => link[s] = "up"
    BY <1>7 DEF Quiet, Log
  <2>2. /\ Heard(s)' = a /\ Accepted(s)' = Accepted(s) /\ F(wire'[s]) = b
        /\ F(Writing(s)') = c /\ F(queue'[s]) = d
    BY <1>1, <2>1 DEF Heard, o, Accepted, Writing
  <2> QED  BY <1>1, <1>6, <2>1, <2>2
<1>8. ASSUME /\ UNCHANGED <<wire[s], writing[s], queue[s], outmsgs[s], sent[s], link[s]>>
             /\ Heard(s)' = Heard(s)
      PROVE  Goal
  <2>1. Accepted(s)' = Accepted(s) /\ Writing(s)' = Writing(s)
    BY <1>8 DEF Accepted, Writing
  <2>2. /\ Heard(s)' = a /\ F(wire'[s]) = b /\ F(Writing(s)') = c /\ F(queue'[s]) = d
        /\ link'[s] = "up" => r = F(outmsgs'[s])
    BY <1>1, <1>8, <2>1
  <2> QED  BY <1>1, <1>6, <2>1, <2>2
<1>9. ASSUME NEW t \in Side, ForwardEvent(t) PROVE Goal
  <2>1. Log(o)' = Log(o) /\ link' = link
    BY <1>0, <1>9, ForwardLog
  <2>2. Heard(s)' = Heard(s)
    BY <2>1 DEF Heard, o
  <2>3. UNCHANGED <<wire, writing, queue, outmsgs, sent>>
    BY <1>9 DEF ForwardEvent, handlerVars
  <2> QED  BY <1>8, <2>1, <2>2, <2>3
<1>10. CASE Send(o) \/ NotifyHandler(o) \/ TakeMessage(o) \/ WriteMessage(o)
  <2>1. Log(o)' = Log(o) /\ link' = link
    BY <1>0, <1>10, OtherLog
  <2>2. Heard(s)' = Heard(s)
    BY <2>1 DEF Heard, o
  <2>3. UNCHANGED <<wire[s], writing[s], queue[s], outmsgs[s], sent[s]>>
    BY <1>0, <1>4, <1>10 DEF Send, NotifyHandler, TakeMessage, WriteMessage, OutboundTurn,
                             handlerVars, queueVars
  <2> QED  BY <1>8, <2>1, <2>2, <2>3
<1>11. CASE Drops(o)
  <2>1. /\ Log(o)' = Append(Log(o), Event("closed", 0)) /\ Event("closed", 0) \in EventSet
        /\ link'[s] = link[s]
    BY <1>0, <1>11, DropLog
  <2>2. Heard(s)' = Heard(s)
    <3>1. Event("closed", 0).kind # "message" /\ Log(o) \in Seq(EventSet)
      BY DEF Event, LogOK, o
    <3>2. MessagesIn(Append(Log(o), Event("closed", 0))) = MessagesIn(Log(o))
      BY <2>1, <3>1, MessagesInProperties
    <3> QED  BY <2>1, <3>2 DEF Heard, o
  <2>3. UNCHANGED <<wire[s], writing[s], queue[s], outmsgs[s], sent[s]>>
    BY <1>0, <1>4, <1>11 DEF Drops, Dropped
  <2> QED  BY <1>8, <2>1, <2>2, <2>3
<1>12. CASE ReadMessage(s)
  <2>1. Log(o)' = Log(o) /\ link' = link
    BY <1>0, <1>12, ReadLog
  <2>2. Heard(s)' = Heard(s)
    BY <2>1 DEF Heard, o
  <2>3. UNCHANGED <<wire[s], writing[s], queue[s], outmsgs[s], sent[s]>>
    BY <1>0, <1>4, <1>12 DEF ReadMessage, Unread, handlerVars, queueVars, o
  <2> QED  BY <1>8, <2>1, <2>2, <2>3
<1>13. CASE ReadMessage(o)
  <2>1. /\ Log(o)' = Append(Log(o), Event("message", Head(wire[s])))
        /\ Event("message", Head(wire[s])) \in EventSet /\ link' = link
    BY <1>0, <1>13, ReadLog
  <2>2. wire[s] # <<>> /\ wire'[s] = Tail(wire[s])
    BY <1>0, <1>4, <1>13 DEF ReadMessage, Unread
  <2>3. UNCHANGED <<writing[s], queue[s], outmsgs[s], sent[s]>>
    BY <1>13 DEF ReadMessage, handlerVars, queueVars
  <2>4. PICK m \in Nat : m = Head(wire[s]) /\ m \notin Oversized[s]
    <3>1. wire[s] \in Seq(Message \ Oversized[s])
      BY DEF TypeInv, TransitOK
    <3>2. Head(wire[s]) \in Message \ Oversized[s]
      BY <2>2, <3>1, HeadTailProperties
    <3> QED  BY <3>2 DEF Message
  <2>5. Heard(s)' = Append(a, m)
    <3>1. /\ Event("message", m).kind = "message" /\ Event("message", m).msg = m
          /\ Log(o) \in Seq(EventSet)
      BY DEF Event, LogOK, o
    <3>2. MessagesIn(Append(Log(o), Event("message", m))) = Append(MessagesIn(Log(o)), m)
      BY <2>1, <2>4, <3>1, MessagesInProperties
    <3> QED  BY <1>1, <2>1, <2>4, <3>2 DEF Heard, o
  <2>6. PICK e \in Seq(Nat) : e = F(wire'[s]) /\ b = Join(<<m>>, e)
    <3>1. Tail(wire[s]) \in Seq(Nat)
      BY <1>3, <2>2, HeadTailProperties
    <3>2. F(wire[s]) = Join(F(<<m>>), F(Tail(wire[s]))) /\ F(<<m>>) = <<m>>
      BY <1>2, <1>3, <2>2, <2>4
    <3> QED  BY <1>1, <1>2, <2>2, <3>1, <3>2
  <2>7. PICK z \in Seq(Nat) : z = Join(c, Join(d, r))
    <3>1. Join(d, r) \in Seq(Nat)
      BY JoinTypes
    <3>2. Join(c, Join(d, r)) \in Seq(Nat)
      BY <3>1, JoinTypes
    <3> QED  BY <3>2
  <2>8. PICK x \in Seq(Nat) : x = <<m>> /\ Append(a, m) = Join(a, x)
    <3>1. <<m>> \in Seq(Nat)
      OBVIOUS
    <3>2. Append(a, m) = Join(a, <<m>>)
      BY AppendIsConcat DEF Join
    <3> QED  BY <3>1, <3>2
  <2>9. PICK y \in Seq(Nat) : y = Join(e, z)
    BY JoinTypes
  <2>9a. Join(Join(x, e), z) = Join(x, Join(e, z))
    BY Regroup
  <2>10. Join(Join(a, x), y) = Join(a, Join(x, y))
    BY Regroup
  <2>11. Accepted(s) = Join(Append(a, m), Join(e, z))
    BY <1>1, <2>6, <2>7, <2>8, <2>9, <2>9a, <2>10
  <2>12. Accepted(s)' = Accepted(s) /\ F(Writing(s)') = c /\ F(queue'[s]) = d
    BY <1>1, <2>3 DEF Accepted, Writing
  <2>13. link'[s] = "up" => r = F(outmsgs'[s])
    BY <1>1, <2>1, <2>3
  <2> QED  BY <1>6, <2>5, <2>6, <2>7, <2>11, <2>12, <2>13
<1>14. CASE Drops(s)
  <2>1. Log(o)' = Log(o) /\ link'[s] = "closed"
    BY <1>0, <1>14, DropLog
  <2>2. Heard(s)' = a
    BY <1>1, <2>1 DEF Heard, o
  <2>3. /\ wire' = wire /\ sent' = sent /\ writing'[s] = 0 /\ queue'[s] = <<>>
    BY <1>4, <1>14 DEF Drops, Dropped
  <2>4. Accepted(s)' = Accepted(s) /\ Writing(s)' = <<>>
    BY <2>3 DEF Accepted, Writing
  <2>5. PICK z \in Seq(Nat) : z = Join(c, Join(d, r))
    <3>1. Join(d, r) \in Seq(Nat)
      BY JoinTypes
    <3>2. Join(c, Join(d, r)) \in Seq(Nat)
      BY <3>1, JoinTypes
    <3> QED  BY <3>2
  <2>6. z = Join(<<>>, Join(<<>>, z))
    BY JoinEmpty
  <2>7. F(wire'[s]) = b /\ F(Writing(s)') = <<>> /\ F(queue'[s]) = <<>>
    BY <1>1, <1>2, <2>3, <2>4
  <2>8. Accepted(s)' = Join(a, Join(b, Join(<<>>, Join(<<>>, z))))
    BY <1>1, <2>4, <2>5, <2>6
  <2> QED  BY <1>6, <2>1, <2>2, <2>7, <2>8
<1>15. CASE Send(s)
  <2>1. Log(o)' = Log(o) /\ link' = link
    BY <1>0, <1>15, OtherLog
  <2>2. Heard(s)' = a
    BY <1>1, <2>1 DEF Heard, o
  <2>3. /\ wire' = wire /\ writing' = writing /\ queue' = queue
        /\ sent'[s] = sent[s] + 1 /\ outmsgs'[s] = Append(outmsgs[s], sent[s] + 1)
    BY <1>4, <1>15 DEF Send, handlerVars
  <2>4. Writing(s)' = Writing(s) /\ sent[s] + 1 \in Nat
    BY <1>3, <2>3 DEF Writing
  <2>5. PICK x \in Seq(Nat) : /\ x = F(<<sent[s] + 1>>)
                              /\ Accepted(s)' = Join(Accepted(s), x)
                              /\ F(outmsgs'[s]) = Join(F(outmsgs[s]), x)
    <3>1. <<sent[s] + 1>> \in Seq(Nat)
      BY <2>4
    <3>2. Accepted(s)' = Join(Accepted(s), F(<<sent[s] + 1>>))
      BY <1>3, <2>3, SendAccepts DEF F, Join
    <3>3. F(<<sent[s] + 1>>) \in Seq(Nat)
      BY <1>2, <3>1
    <3>4. F(Append(outmsgs[s], sent[s] + 1)) = Join(F(outmsgs[s]), F(<<sent[s] + 1>>))
      BY <1>2, <1>3, <2>4
    <3> QED  BY <2>3, <3>2, <3>3, <3>4
  <2>6. Join(Join(a, Join(b, Join(c, Join(d, r)))), x)
          = Join(a, Join(b, Join(c, Join(d, Join(r, x)))))
    BY RegroupEnd
  <2>7. Join(r, x) \in Seq(Nat)
    BY JoinTypes
  <2>8. F(wire'[s]) = b /\ F(Writing(s)') = c /\ F(queue'[s]) = d
    BY <1>1, <2>3, <2>4
  <2>9. link'[s] = "up" => Join(r, x) = F(outmsgs'[s])
    BY <1>1, <2>1, <2>5
  <2>10. Accepted(s)' = Join(a, Join(b, Join(c, Join(d, Join(r, x)))))
    BY <1>1, <2>5, <2>6
  <2> QED  BY <1>6, <2>2, <2>7, <2>8, <2>9, <2>10
<1>16. CASE NotifyHandler(s)
  <2>1. Log(o)' = Log(o) /\ link' = link
    BY <1>0, <1>16, OtherLog
  <2>2. Heard(s)' = a
    BY <1>1, <2>1 DEF Heard, o
  <2>3. /\ wire' = wire /\ writing' = writing /\ sent' = sent
        /\ outmsgs[s] # <<>> /\ outmsgs'[s] = Tail(outmsgs[s])
        /\ queue'[s] = IF link[s] = "up" THEN Append(queue[s], Head(outmsgs[s])) ELSE queue[s]
    BY <1>4, <1>16 DEF NotifyHandler, Queued
  <2>4. Accepted(s)' = Accepted(s) /\ Writing(s)' = Writing(s)
    BY <2>3 DEF Accepted, Writing
  <2>5. CASE link[s] # "up"
    <3>1. F(wire'[s]) = b /\ F(Writing(s)') = c /\ F(queue'[s]) = d /\ link'[s] # "up"
      BY <1>1, <2>1, <2>3, <2>4, <2>5
    <3> QED  BY <1>1, <1>6, <2>2, <2>4, <3>1
  <2>6. CASE link[s] = "up"
    <3>1. Head(outmsgs[s]) \in Nat /\ Tail(outmsgs[s]) \in Seq(Nat)
      BY <1>3, <2>3, HeadTailProperties
    <3>2. PICK x \in Seq(Nat), q \in Seq(Nat) :
            /\ x = F(<<Head(outmsgs[s])>>) /\ q = F(Tail(outmsgs[s]))
            /\ r = Join(x, q) /\ F(queue'[s]) = Join(d, x)
      <4>1. <<Head(outmsgs[s])>> \in Seq(Nat)
        BY <3>1
      <4>2. F(<<Head(outmsgs[s])>>) \in Seq(Nat) /\ F(Tail(outmsgs[s])) \in Seq(Nat)
        BY <1>2, <3>1, <4>1
      <4>3. F(outmsgs[s]) = Join(F(<<Head(outmsgs[s])>>), F(Tail(outmsgs[s])))
        BY <1>2, <1>3, <2>3
      <4>4. F(Append(queue[s], Head(outmsgs[s]))) = Join(F(queue[s]), F(<<Head(outmsgs[s])>>))
        BY <1>2, <1>3, <3>1
      <4> QED  BY <1>1, <2>3, <2>6, <4>2, <4>3, <4>4
    <3>3. Join(Join(d, x), q) = Join(d, Join(x, q))
      BY Regroup
    <3>4. F(wire'[s]) = b /\ F(Writing(s)') = c /\ q = F(outmsgs'[s])
      BY <1>1, <2>3, <2>4, <3>2
    <3>5. Accepted(s)' = Join(a, Join(b, Join(c, Join(Join(d, x), q))))
      BY <1>1, <2>4, <3>2, <3>3
    <3> QED  BY <1>6, <2>2, <3>2, <3>4, <3>5
  <2> QED  BY <2>5, <2>6
<1>17. CASE TakeMessage(s)
  <2>1. Log(o)' = Log(o) /\ link' = link
    BY <1>0, <1>17, OtherLog
  <2>2. Heard(s)' = a
    BY <1>1, <2>1 DEF Heard, o
  <2>3. /\ wire' = wire /\ outmsgs' = outmsgs /\ sent' = sent /\ outbound[s] = "writable"
        /\ queue[s] # <<>> /\ queue'[s] = Tail(queue[s]) /\ writing'[s] = Head(queue[s])
    BY <1>4, <1>17 DEF TakeMessage, OutboundTurn, Polling, queueVars
  <2>4. writing[s] = 0 /\ Head(queue[s]) # 0
    <3>1. queue[s] \in Seq(Message)
      BY DEF TypeInv, TransitOK
    <3>2. Head(queue[s]) \in Message
      BY <2>3, <3>1, HeadTailProperties
    <3> QED  BY <2>3, <3>2 DEF TypeInv, TransitOK, Message
  <2>5. /\ Accepted(s)' = Accepted(s) /\ Writing(s) = <<>> /\ Writing(s)' = <<Head(queue[s])>>
    BY <2>3, <2>4 DEF Accepted, Writing
  <2>6. PICK x \in Seq(Nat), e \in Seq(Nat) :
          x = F(<<Head(queue[s])>>) /\ e = F(Tail(queue[s])) /\ d = Join(x, e)
    <3>1. Head(queue[s]) \in Nat /\ Tail(queue[s]) \in Seq(Nat)
      BY <1>3, <2>3, HeadTailProperties
    <3>2. <<Head(queue[s])>> \in Seq(Nat)
      BY <3>1
    <3>3. F(<<Head(queue[s])>>) \in Seq(Nat) /\ F(Tail(queue[s])) \in Seq(Nat)
      BY <1>2, <3>1, <3>2
    <3>4. F(queue[s]) = Join(F(<<Head(queue[s])>>), F(Tail(queue[s])))
      BY <1>2, <1>3, <2>3
    <3> QED  BY <1>1, <3>3, <3>4
  <2>7. Join(c, Join(d, r)) = Join(x, Join(e, r))
    <3>1. PICK y \in Seq(Nat) : y = Join(d, r)
      BY JoinTypes
    <3>2. c = <<>>
      BY <1>1, <1>2, <2>5
    <3>3. Join(<<>>, y) = y
      BY JoinEmpty
    <3>4. Join(Join(x, e), r) = Join(x, Join(e, r))
      BY Regroup
    <3> QED  BY <2>6, <3>1, <3>2, <3>3, <3>4
  <2>8. /\ F(wire'[s]) = b /\ F(Writing(s)') = x /\ F(queue'[s]) = e
        /\ link'[s] = "up" => r = F(outmsgs'[s])
    BY <1>1, <2>1, <2>3, <2>5, <2>6
  <2>9. Accepted(s)' = Join(a, Join(b, Join(x, Join(e, r))))
    BY <1>1, <2>5, <2>7
  <2> QED  BY <1>6, <2>2, <2>8, <2>9
<1>18. CASE WriteMessage(s)
  <2>1. Log(o)' = Log(o) /\ link' = link
    BY <1>0, <1>18, OtherLog
  <2>2. Heard(s)' = a
    BY <1>1, <2>1 DEF Heard, o
  <2>3. /\ queue' = queue /\ outmsgs' = outmsgs /\ sent' = sent /\ writing'[s] = 0
        /\ wire'[s] = IF writing[s] \in Oversized[s] THEN wire[s]
                      ELSE Append(wire[s], writing[s])
    BY <1>4, <1>18 DEF WriteMessage, OutboundTurn, queueVars
  <2>4. writing[s] # 0
    BY <1>18 DEF WriteMessage, Polling, TypeInv, TransitOK
  <2>5. Accepted(s)' = Accepted(s) /\ Writing(s) = <<writing[s]>> /\ Writing(s)' = <<>>
    BY <2>3, <2>4 DEF Accepted, Writing
  <2>6. PICK y \in Seq(Nat) : y = Join(d, r)
    BY JoinTypes
  <2>7. PICK e \in Seq(Nat) : e = F(wire'[s]) /\ e = Join(b, c)
    <3>1. CASE writing[s] \in Oversized[s]
      <4>1. F(wire'[s]) = b /\ c = <<>>
        BY <1>1, <1>2, <1>3, <2>3, <2>5, <3>1
      <4>2. Join(b, <<>>) = b
        BY JoinEmpty
      <4> QED  BY <4>1, <4>2
    <3>2. CASE writing[s] \notin Oversized[s]
      <4>1. F(Append(wire[s], writing[s])) = Join(F(wire[s]), F(<<writing[s]>>))
        BY <1>2, <1>3
      <4>2. F(wire'[s]) = Join(b, c)
        BY <1>1, <2>3, <2>5, <3>2, <4>1
      <4>3. Join(b, c) \in Seq(Nat)
        BY JoinTypes
      <4> QED  BY <4>2, <4>3
    <3> QED  BY <3>1, <3>2
  <2>8. Join(b, Join(c, y)) = Join(e, Join(<<>>, y))
    <3>1. Join(Join(b, c), y) = Join(b, Join(c, y))
      BY Regroup
    <3>2. Join(<<>>, y) = y
      BY JoinEmpty
    <3> QED  BY <2>7, <3>1, <3>2
  <2>9. /\ F(Writing(s)') = <<>> /\ F(queue'[s]) = d
        /\ link'[s] = "up" => r = F(outmsgs'[s])
    BY <1>1, <1>2, <2>1, <2>3, <2>5
  <2>10. Accepted(s)' = Join(a, Join(e, Join(<<>>, Join(d, r))))
    BY <1>1, <2>5, <2>6, <2>8
  <2> QED  BY <1>6, <2>2, <2>7, <2>9, <2>10
<1>19. Quiet \/ Moves(s) \/ Moves(o)
  <2>1. \A t \in Side : t = s \/ t = o
    BY DEF Side, Other, o
  <2> QED  BY <2>1, Shapes
<1>20. Moves(s) => Goal
  BY <1>9, <1>12, <1>14, <1>15, <1>16, <1>17, <1>18 DEF Moves
<1>21. Moves(o) => Goal
  BY <1>0, <1>9, <1>10, <1>11, <1>13 DEF Moves
<1> QED  BY <1>7, <1>19, <1>20, <1>21

--------------------------------------------------------------------------------
(* What the connection promises.                                           *)

\* The inductive invariant.
Inv ==
  /\ TypeInv
  /\ \A s \in Side : LogOK(s)
  /\ \A s \in Side : PipeOK(s)

LEMMA InvHolds ==
  /\ Init => Inv
  /\ Inv /\ [Next]_vars => Inv'
<1>1. Init => Inv
  BY TypesInit, LogsInit, PipesInit DEF Inv
<1>2. ASSUME Inv, [Next]_vars PROVE Inv'
  <2>1. TypeInv' /\ \A s \in Side : LogOK(s)'
    BY <1>2, TypesStep, LogsStep DEF Inv
  <2>2. ASSUME NEW s \in Side PROVE PipeOK(s)'
    <3>1. Other(s) \in Side
      BY DEF Other, Side
    <3> QED  BY <1>2, <3>1, PipesStep DEF Inv
  <2> QED  BY <2>1, <2>2 DEF Inv
<1> QED  BY <1>1, <1>2

(***************************************************************************)
(* While both ends are up, the messages a side was told to send and the    *)
(* codec can carry are those the other side has read, followed by those on *)
(* the wire, in the substream and in the queues of the handler and of the  *)
(* behaviour: none is lost, repeated or overtaken.                         *)
(***************************************************************************)
THEOREM NothingIsLostWhileUp == Spec => []NothingLostWhileUp
<1>1. Inv => NothingLostWhileUp
  <2> SUFFICES ASSUME Inv, NEW s \in Side, link[s] = "up"
               PROVE  MessagesIn(told[Other(s)] \o events[Other(s)])
                        \o Fitting(s, InTransit(s)) = Accepted(s)
    BY DEF NothingLostWhileUp
  <2> DEFINE F(ms) == Fitting(s, ms)
  <2>0. Other(s) \in Side
    BY DEF Other, Side
  <2>1. PICK a \in Seq(Nat), b \in Seq(Nat), c \in Seq(Nat), d \in Seq(Nat), r \in Seq(Nat) :
          /\ a = Heard(s) /\ b = F(wire[s]) /\ c = F(Writing(s)) /\ d = F(queue[s])
          /\ r = F(outmsgs[s]) /\ Accepted(s) = Join(a, Join(b, Join(c, Join(d, r))))
    BY <2>0, PipeTypes DEF Inv, PipeOK
  <2>2. /\ wire[s] \in Seq(Nat) /\ Writing(s) \in Seq(Nat) /\ queue[s] \in Seq(Nat)
        /\ outmsgs[s] \in Seq(Nat)
    BY <2>0, PipeTypes DEF Inv
  <2>3. \A u, v \in Seq(Nat) : F(Join(u, v)) = Join(F(u), F(v))
    BY AmongConcat DEF Fitting, Join
  <2>4. InTransit(s) = Join(Join(Join(wire[s], Writing(s)), queue[s]), outmsgs[s])
    BY DEF InTransit, Writing, Join
  <2> HIDE DEF F
  <2>5. F(Join(wire[s], Writing(s))) = Join(b, c) /\ Join(wire[s], Writing(s)) \in Seq(Nat)
    BY <2>1, <2>2, <2>3, JoinTypes
  <2>6. PICK w \in Seq(Nat) :
          w = Join(Join(wire[s], Writing(s)), queue[s]) /\ F(w) = Join(Join(b, c), d)
    <3>1. PICK x \in Seq(Nat) : x = Join(wire[s], Writing(s)) /\ F(x) = Join(b, c)
      BY <2>5
    <3>2. Join(x, queue[s]) \in Seq(Nat)
      BY <2>2, JoinTypes
    <3>3. F(Join(x, queue[s])) = Join(F(x), F(queue[s]))
      BY <2>2, <2>3
    <3> QED  BY <2>1, <3>1, <3>2, <3>3
  <2>7. F(InTransit(s)) = Join(Join(Join(b, c), d), r)
    BY <2>1, <2>2, <2>3, <2>4, <2>6
  <2>8. PICK y \in Seq(Nat), x \in Seq(Nat) : y = Join(d, r) /\ x = Join(b, c)
    BY JoinTypes
  <2>9. Join(Join(x, d), r) = Join(x, Join(d, r))
    BY Regroup
  <2>10. Join(Join(b, c), y) = Join(b, Join(c, y))
    BY Regroup
  <2>11. Accepted(s) = Join(a, F(InTransit(s)))
    BY <2>1, <2>7, <2>8, <2>9, <2>10
  <2> QED  BY <2>1, <2>11 DEF Heard, Log, Join, F
<1> QED  BY <1>1, InvHolds, PTL DEF Spec

\* The messages among the events of two sequences.
LEMMA MessagesInConcat ==
  \A u, v \in Seq(EventSet) : MessagesIn(u \o v) = MessagesIn(u) \o MessagesIn(v)
<1> DEFINE S == {n \in Nat : \A u, v \in Seq(EventSet) :
                   Len(v) = n => MessagesIn(u \o v) = MessagesIn(u) \o MessagesIn(v)}
<1>1. 0 \in S
  <2>1. ASSUME NEW u \in Seq(EventSet), NEW v \in Seq(EventSet), Len(v) = 0
        PROVE  MessagesIn(u \o v) = MessagesIn(u) \o MessagesIn(v)
    <3>1. v = <<>> /\ u \o v = u
      BY <2>1
    <3>2. MessagesIn(v) = <<>> /\ MessagesIn(u) \in Seq(Nat)
      BY <3>1, MessagesInProperties
    <3> QED  BY <3>1, <3>2
  <2> QED  BY <2>1
<1>2. ASSUME NEW n \in Nat, n \in S PROVE n + 1 \in S
  <2>1. ASSUME NEW u \in Seq(EventSet), NEW v \in Seq(EventSet), Len(v) = n + 1
        PROVE  MessagesIn(u \o v) = MessagesIn(u) \o MessagesIn(v)
    <3>1. PICK d \in Seq(EventSet), e \in EventSet : Len(d) = n /\ v = Append(d, e)
      <4> DEFINE d == [i \in 1..n |-> v[i]]
                 e == v[n + 1]
      <4>1. d \in Seq(EventSet) /\ Len(d) = n /\ e \in EventSet
        BY <2>1
      <4>2. v = Append(d, e)
        BY <2>1
      <4> QED  BY <4>1, <4>2
    <3>2. PICK w \in Seq(EventSet) : w = u \o d /\ u \o v = Append(w, e)
      <4>1. u \o d \in Seq(EventSet) /\ u \o Append(d, e) = Append(u \o d, e)
        BY ConcatAppend
      <4> QED  BY <3>1, <4>1
    <3>3. MessagesIn(w) = MessagesIn(u) \o MessagesIn(d)
      BY <1>2, <3>1, <3>2
    <3>4. PICK a \in Seq(Nat), b \in Seq(Nat) : a = MessagesIn(u) /\ b = MessagesIn(d)
      BY MessagesInProperties
    <3>5. CASE e.kind = "message"
      <4>1. MessagesIn(Append(w, e)) = Append(MessagesIn(w), e.msg)
        BY <3>5, MessagesInProperties
      <4>2. MessagesIn(Append(d, e)) = Append(MessagesIn(d), e.msg)
        BY <3>5, MessagesInProperties
      <4>3. a \o Append(b, e.msg) = Append(a \o b, e.msg)
        <5>1. e.msg \in Nat
          BY DEF EventSet
        <5> QED  BY <5>1, ConcatAppend
      <4> QED  BY <3>1, <3>2, <3>3, <3>4, <4>1, <4>2, <4>3
    <3>6. CASE e.kind # "message"
      <4>1. MessagesIn(Append(w, e)) = MessagesIn(w) /\ MessagesIn(Append(d, e)) = MessagesIn(d)
        BY <3>6, MessagesInProperties
      <4> QED  BY <3>1, <3>2, <3>3, <4>1
    <3> QED  BY <3>5, <3>6
  <2> QED  BY <2>1
<1>3. \A n \in Nat : n \in S
  <2> HIDE DEF S
  <2> QED  BY <1>1, <1>2, NatSetInduction
<1>4. \A v \in Seq(EventSet) : Len(v) \in Nat
  OBVIOUS
<1> QED  BY <1>3, <1>4

--------------------------------------------------------------------------------
(* Each direction implements a pipe.                                       *)

\* The messages of side s of which the Network task of the other side was told.
Got(s) == MessagesIn(told[Other(s)])

\* That side was told that the connection is closed.
Ended(s) == ToldClosed(Other(s))

\* The steps of Pipe, for the messages of side s.
PutStep(s) ==
  /\ Len(Accepted(s)') = Len(Accepted(s)) + 1
  /\ SubSeq(Accepted(s)', 1, Len(Accepted(s))) = Accepted(s)
  /\ Got(s)' = Got(s) /\ Ended(s)' = Ended(s)

GetStep(s) ==
  /\ ~Ended(s) /\ Len(Got(s)) < Len(Accepted(s))
  /\ Got(s)' = Append(Got(s), Accepted(s)[Len(Got(s)) + 1])
  /\ Accepted(s)' = Accepted(s) /\ Ended(s)' = Ended(s)

EndStep(s) ==
  /\ ~Ended(s) /\ Ended(s)' = TRUE
  /\ Accepted(s)' = Accepted(s) /\ Got(s)' = Got(s)

PipeStutters(s) ==
  Accepted(s)' = Accepted(s) /\ Got(s)' = Got(s) /\ Ended(s)' = Ended(s)

LEMMA PrefixLen ==
  ASSUME NEW u \in Seq(Nat), NEW m \in Nat, NEW v \in Seq(Nat),
         NEW w, w = Append(u, m) \o v
  PROVE  Len(u) < Len(w) /\ w[Len(u) + 1] = m
<1>1. /\ Append(u, m) \in Seq(Nat) /\ Len(Append(u, m)) = Len(u) + 1
      /\ Append(u, m)[Len(u) + 1] = m /\ Len(u) \in Nat /\ Len(v) \in Nat
  BY AppendProperties
<1>2. PICK x \in Seq(Nat) : x = Append(u, m) /\ Len(x) = Len(u) + 1 /\ x[Len(u) + 1] = m
  BY <1>1
<1>3. Len(x \o v) = Len(x) + Len(v) /\ \A i \in 1..Len(x) : (x \o v)[i] = x[i]
  BY ConcatProperties
<1>4. Len(u) + 1 \in 1..Len(x)
  BY <1>1, <1>2
<1> QED  BY <1>1, <1>2, <1>3, <1>4

\* A message that fits is put into the pipe, another one is not.
LEMMA SendPuts ==
  ASSUME Inv, NEW s \in Side, Send(s)
  PROVE  PutStep(s) \/ PipeStutters(s)
<1>1. told' = told /\ sent[s] \in Nat /\ sent'[s] = sent[s] + 1
  BY DEF Send, Inv, TypeInv, QueuesOK
<1>2. Got(s)' = Got(s) /\ Ended(s)' = Ended(s)
  BY <1>1 DEF Got, Ended, ToldClosed
<1>3. PICK p \in Seq(Nat), m \in Nat :
        p = Accepted(s) /\ m = sent[s] + 1 /\ Accepted(s)' = p \o Fitting(s, <<m>>)
  <2>1. Accepted(s) \in Seq(Nat) /\ Accepted(s)' = Accepted(s) \o Fitting(s, <<sent[s] + 1>>)
    BY <1>1, SendAccepts
  <2>2. sent[s] + 1 \in Nat
    BY <1>1
  <2> QED  BY <2>1, <2>2
<1>4. Fitting(s, <<m>>) = <<>> \/ Fitting(s, <<m>>) = <<m>>
  BY FittingProperties
<1>5. CASE Fitting(s, <<m>>) = <<>>
  <2>1. p \o <<>> = p
    OBVIOUS
  <2> QED  BY <1>2, <1>3, <1>5, <2>1 DEF PipeStutters
<1>6. CASE Fitting(s, <<m>>) = <<m>>
  <2>1. PICK q \in Seq(Nat) :
          q = p \o <<m>> /\ Len(q) = Len(p) + 1 /\ \A i \in 1..Len(p) : q[i] = p[i]
    <3>1. p \o <<m>> = Append(p, m) /\ Append(p, m) \in Seq(Nat)
      OBVIOUS
    <3>2. Len(Append(p, m)) = Len(p) + 1 /\ \A i \in 1..Len(p) : Append(p, m)[i] = p[i]
      BY AppendProperties
    <3> QED  BY <3>1, <3>2
  <2>2. SubSeq(q, 1, Len(p)) = p
    BY <2>1
  <2> QED  BY <1>2, <1>3, <1>6, <2>1, <2>2 DEF PutStep
<1> QED  BY <1>4, <1>5, <1>6

\* An event told: a message comes out, the pipe ends, or nothing happens to it.
LEMMA ForwardSteps ==
  ASSUME Inv, NEW s \in Side, ForwardEvent(Other(s))
  PROVE  GetStep(s) \/ EndStep(s) \/ PipeStutters(s)
<1> DEFINE o == Other(s)
<1>0. o \in Side
  BY DEF Other, Side
<1>1. PICK u \in Seq(EventSet), v \in Seq(EventSet) :
        u = told[o] /\ v = events[o] /\ v # <<>> /\ told'[o] = Append(u, Head(v))
  BY <1>0 DEF ForwardEvent, Inv, TypeInv, QueuesOK
<1>2. PICK e \in EventSet, w \in Seq(EventSet) : e = Head(v) /\ w = Tail(v)
  BY <1>1, HeadTailProperties
<1>3. /\ Append(u, e) \in Seq(EventSet) /\ Append(u, e) \o w = u \o v
  BY <1>1, <1>2, ForwardConcat, AppendProperties
<1>4. Accepted(s)' = Accepted(s)
  BY DEF ForwardEvent, Accepted, Fitting
<1>5. Ended(s) <=> \E i \in 1..Len(u) : u[i].kind = "closed"
  BY <1>1 DEF Ended, ToldClosed
<1>6. Ended(s)' <=> (\E i \in 1..Len(u) : u[i].kind = "closed") \/ e.kind = "closed"
  <2>1. PICK x \in Seq(EventSet) :
          /\ x = Append(u, e) /\ Len(x) = Len(u) + 1 /\ Len(u) \in Nat
          /\ x[Len(u) + 1] = e /\ \A i \in 1..Len(u) : x[i] = u[i]
    <3>1. Append(u, e) \in Seq(EventSet) /\ Len(u) \in Nat
      BY AppendProperties
    <3>2. /\ Len(Append(u, e)) = Len(u) + 1 /\ Append(u, e)[Len(u) + 1] = e
          /\ \A i \in 1..Len(u) : Append(u, e)[i] = u[i]
      BY AppendProperties
    <3> QED  BY <3>1, <3>2
  <2>2. Ended(s)' <=> \E i \in 1..Len(x) : x[i].kind = "closed"
    <3>1. told'[Other(s)] = x /\ DOMAIN x = 1..Len(x)
      BY <1>1, <1>2, <2>1, LenProperties
    <3> QED  BY <3>1 DEF Ended, ToldClosed
  <2>3. \A i \in 1..Len(x) : i \in 1..Len(u) \/ i = Len(u) + 1
    BY <2>1
  <2>4. (\A i \in 1..Len(u) : i \in 1..Len(x)) /\ Len(u) + 1 \in 1..Len(x)
    BY <2>1
  <2> QED  BY <2>1, <2>2, <2>3, <2>4
<1>7. ~Ended(s)
  <2>1. ASSUME NEW i \in 1..Len(u), u[i].kind = "closed" PROVE FALSE
    <3>1. LogOK(o) /\ Log(o) = u \o v
      BY <1>0, <1>1 DEF Inv, Log
    <3>2. /\ Len(u \o v) = Len(u) + Len(v) /\ (u \o v)[i] = u[i]
          /\ Len(v) \in Nat /\ Len(v) # 0 /\ Len(u) \in Nat
      <4>1. Len(u \o v) = Len(u) + Len(v) /\ \A j \in 1..Len(u) : (u \o v)[j] = u[j]
        BY ConcatProperties
      <4>2. Len(v) \in Nat /\ Len(v) # 0 /\ Len(u) \in Nat
        BY <1>1
      <4> QED  BY <4>1, <4>2
    <3>3. i \in 1..Len(u \o v) /\ i # Len(u \o v)
      BY <3>2
    <3> QED  BY <2>1, <3>1, <3>2, <3>3 DEF LogOK
  <2> QED  BY <1>5, <2>1
<1>8. Got(s) = MessagesIn(u) /\ Got(s)' = MessagesIn(Append(u, e))
  BY <1>1, <1>2 DEF Got, MessagesIn, Among
<1>9. CASE e.kind = "message"
  <2>1. PICK g \in Seq(Nat), m \in Nat, h \in Seq(Nat) :
          g = MessagesIn(u) /\ m = e.msg /\ h = MessagesIn(w)
    BY MessagesInProperties DEF EventSet
  <2>2. MessagesIn(Append(u, e)) = Append(g, m)
    BY <1>9, <2>1, MessagesInProperties
  <2>3. Heard(s) = Append(g, m) \o h
    BY <1>1, <1>3, <2>1, <2>2, MessagesInConcat DEF Heard, Log
  <2>4. PICK r \in Seq(Nat) : Accepted(s) = Join(Heard(s), r)
    <3>1. /\ Fitting(s, wire[s]) \in Seq(Nat) /\ Fitting(s, queue[s]) \in Seq(Nat)
          /\ Fitting(s, Writing(s)) \in Seq(Nat)
      BY <1>0, PipeTypes DEF Inv
    <3> QED  BY <3>1, JoinTypes DEF Inv, PipeOK
  <2>5. Accepted(s) = Append(g, m) \o Join(h, r) /\ Join(h, r) \in Seq(Nat)
    <3>1. PICK x \in Seq(Nat) : x = Append(g, m)
      BY AppendProperties
    <3>2. Join(Join(x, h), r) = Join(x, Join(h, r))
      BY Regroup
    <3>3. Join(h, r) \in Seq(Nat)
      BY JoinTypes
    <3>4. Heard(s) = Join(x, h)
      BY <2>3, <3>1 DEF Join
    <3>5. Join(x, Join(h, r)) = Append(g, m) \o Join(h, r)
      BY <3>1 DEF Join
    <3> QED  BY <2>4, <3>2, <3>3, <3>4, <3>5
  <2>6. Len(g) < Len(Accepted(s)) /\ Accepted(s)[Len(g) + 1] = m
    BY <2>5, PrefixLen
  <2>7. Ended(s)' = Ended(s)
    BY <1>5, <1>6, <1>9 DEF Ended, ToldClosed
  <2> QED  BY <1>4, <1>7, <1>8, <2>1, <2>2, <2>6, <2>7 DEF GetStep
<1>10. CASE e.kind = "closed"
  <2>1. Ended(s)' = TRUE
    BY <1>6, <1>10 DEF Ended, ToldClosed
  <2>2. MessagesIn(Append(u, e)) = MessagesIn(u)
    BY <1>10, MessagesInProperties
  <2> QED  BY <1>4, <1>7, <1>8, <2>1, <2>2 DEF EndStep
<1>11. CASE e.kind = "established"
  <2>1. Ended(s)' = Ended(s)
    BY <1>5, <1>6, <1>11 DEF Ended, ToldClosed
  <2>2. MessagesIn(Append(u, e)) = MessagesIn(u)
    BY <1>11, MessagesInProperties
  <2> QED  BY <1>4, <1>8, <2>1, <2>2 DEF PipeStutters
<1> QED  BY <1>9, <1>10, <1>11 DEF EventSet

\* Every step of the connection is one of Pipe's, or none, in each direction.
LEMMA DirectionStep ==
  ASSUME Inv, NEW s \in Side, [Next]_vars
  PROVE  PutStep(s) \/ GetStep(s) \/ EndStep(s) \/ PipeStutters(s)
<1>0. Other(s) \in Side /\ \A t \in Side : t = s \/ t = Other(s)
  BY DEF Other, Side
<1>1. ASSUME told'[Other(s)] = told[Other(s)], sent'[s] = sent[s] PROVE PipeStutters(s)
  <2>1. Accepted(s)' = Accepted(s)
    BY <1>1 DEF Accepted, Fitting
  <2>2. Got(s)' = Got(s)
    BY <1>1 DEF Got, MessagesIn, Among
  <2>3. Ended(s)' = Ended(s)
    BY <1>1 DEF Ended, ToldClosed
  <2> QED  BY <2>1, <2>2, <2>3 DEF PipeStutters
<1>2. DOMAIN told = Side /\ DOMAIN sent = Side
  BY DEF Inv, TypeInv, QueuesOK
<1>3. CASE Quiet
  BY <1>1, <1>3 DEF Quiet
<1>4. ASSUME NEW t \in Side, NotifyHandler(t) \/ Drops(t) \/ ReadMessage(t)
                             \/ TakeMessage(t) \/ WriteMessage(t)
      PROVE  PipeStutters(s)
  <2>1. told' = told /\ sent' = sent
    BY <1>4 DEF NotifyHandler, Drops, ReadMessage, TakeMessage, WriteMessage,
                OutboundTurn, queueVars
  <2> QED  BY <1>1, <2>1
<1>5. CASE Send(Other(s)) \/ ForwardEvent(s)
  <2>1. told'[Other(s)] = told[Other(s)] /\ sent'[s] = sent[s]
    <3>1. Other(s) # s
      BY DEF Other, Side
    <3> QED  BY <1>0, <1>2, <1>5, <3>1 DEF Send, ForwardEvent
  <2> QED  BY <1>1, <2>1
<1>6. CASE Send(s)
  BY <1>6, SendPuts
<1>7. CASE ForwardEvent(Other(s))
  BY <1>7, ForwardSteps
<1>8. Quiet \/ \E t \in Side : Moves(t)
  BY Shapes DEF Inv
<1> QED  BY <1>0, <1>3, <1>4, <1>5, <1>6, <1>7, <1>8 DEF Moves

LEMMA DirectionInit ==
  ASSUME Init, NEW s \in Side
  PROVE  Accepted(s) = <<>> /\ Got(s) = <<>> /\ Ended(s) = FALSE
<1>1. told[Other(s)] = <<>> /\ sent[s] = 0
  BY DEF Init, Other, Side
<1>2. Accepted(s) = <<>>
  <2>1. [i \in 1..0 |-> i] = <<>>
    OBVIOUS
  <2> QED  BY <1>1, <2>1, FittingProperties DEF Accepted
<1> QED  BY <1>1, <1>2, MessagesInProperties DEF Got, Ended, ToldClosed

(***************************************************************************)
(* The connection implements Pipe in each direction: what the receiver is  *)
(* told are the first messages that fit, each once and in order, and none  *)
(* after it was told of the end.                                           *)
(***************************************************************************)
THEOREM ConnectionImplementsPipe == Spec => ImplementsPipe
<1>0. /\ "dialer" \in Side /\ Other("dialer") = "listener"
      /\ "listener" \in Side /\ Other("listener") = "dialer"
  BY DEF Side, Other
<1>1. Init => Forward!Init /\ Backward!Init
  BY <1>0, DirectionInit DEF Forward!Init, Backward!Init, Got, Ended
<1>2. ASSUME Inv, [Next]_vars
      PROVE  [Forward!Put \/ Forward!Get \/ Forward!End]_<<Accepted("dialer"),
               MessagesIn(told["listener"]), ToldClosed("listener")>>
  BY <1>0, <1>2, DirectionStep
  DEF PutStep, GetStep, EndStep, PipeStutters, Got, Ended,
      Forward!Put, Forward!Get, Forward!End
<1>3. ASSUME Inv, [Next]_vars
      PROVE  [Backward!Put \/ Backward!Get \/ Backward!End]_<<Accepted("listener"),
               MessagesIn(told["dialer"]), ToldClosed("dialer")>>
  BY <1>0, <1>3, DirectionStep
  DEF PutStep, GetStep, EndStep, PipeStutters, Got, Ended,
      Backward!Put, Backward!Get, Backward!End
<1> QED  BY <1>1, <1>2, <1>3, InvHolds, PTL
         DEF Spec, ImplementsPipe, Forward!Spec, Backward!Spec
================================================================================
