------------------------------ MODULE Connection -------------------------------
(***************************************************************************)
(* One connection between two nodes, from the commands of their Network    *)
(* tasks down to the bytes and back: the run loop (network/src/runloop.rs),*)
(* the queues of Behaviour (network/src/behaviour.rs) and the              *)
(* SubstreamHandler of the connection (network/src/stream.rs), on both     *)
(* sides.                                                                  *)
(*                                                                         *)
(* Abstractions.  The messages of a side are numbered in the order they    *)
(* are sent; Oversized are those the codec refuses.  The swarm is external:*)
(* it negotiates the substreams or fails to, polls the handler until it    *)
(* returns Pending and then looks at connection_keep_alive, hands events   *)
(* of the handler to the behaviour in order, and drops the handler when it *)
(* returns Close.  (So the arm of process_outbound_poll for a Closing      *)
(* substream, which only follows Close, is never polled.)  Bytes written   *)
(* arrive in order; a connection may fail at any time, at each end at a    *)
(* different one.                                                          *)
(***************************************************************************)
EXTENDS Naturals, Sequences, SequencesExt

CONSTANTS MaxSend,    \* [Side -> Nat]: bound on the messages a side sends
          Oversized,  \* [Side -> SUBSET Nat]: messages above max_transmit_size
          MaxFaults,  \* bound on the failures that nobody asked for
          MaxClose    \* bound on the Disconnect and BanPeer commands

Side == {"dialer", "listener"}
Other(s) == IF s = "dialer" THEN "listener" ELSE "dialer"

ASSUME ConnectionAssumption ==
  /\ MaxSend \in [Side -> Nat] /\ MaxFaults \in Nat /\ MaxClose \in Nat
  /\ \A s \in Side : Oversized[s] \subseteq Nat

VARIABLES
  outmsgs, disconnects, events,  \* the channels of Behaviour
  told,         \* the events forwarded to Network
  link,         \* the swarm's connection: "up", "closing" or "closed"
  inbound,      \* inbound_stream
  outbound,     \* outbound_stream
  writing,      \* the message of PendingWrite, or 0
  queue,        \* outbound_messages
  keep,         \* keep_alive is Yes
  poll,         \* the handler's poll: "idle" or, after the inbound half, "outbound"
  offer,        \* a side's outbound substream, as the other side knows it
  wire,         \* frames written by a side and not yet read
  sent,         \* number of messages a side was told to send
  faults, closes

handlerVars == <<inbound, outbound, writing, queue, keep, poll>>
queueVars   == <<outmsgs, disconnects, told>>
vars == <<queueVars, events, link, handlerVars, offer, wire, sent, faults, closes>>

Event(kind, m) == [kind |-> kind, msg |-> m]

\* The swarm has connected the nodes: inject_connection_established, new_handler.
Init ==
  /\ outmsgs = [s \in Side |-> <<>>] /\ disconnects = [s \in Side |-> 0]
  /\ events = [s \in Side |-> <<Event("established", 0)>>]
  /\ told = [s \in Side |-> <<>>]
  /\ link = [s \in Side |-> "up"]
  /\ inbound = [s \in Side |-> "none"] /\ outbound = [s \in Side |-> "none"]
  /\ writing = [s \in Side |-> 0] /\ queue = [s \in Side |-> <<>>]
  /\ keep = [s \in Side |-> TRUE] /\ poll = [s \in Side |-> "idle"]
  /\ offer = [s \in Side |-> "none"] /\ wire = [s \in Side |-> <<>>]
  /\ sent = [s \in Side |-> 0]
  /\ faults = 0 /\ closes = 0

\* The connection task still has the handler.
Live(s) == link[s] \in {"up", "closing"}

--------------------------------------------------------------------------------
(* Commands of the Network task, which the run loop passes on in order.     *)

\* SendMessage: the Network task knows the connection, maybe of old.
Send(s) ==
  /\ told[s] # <<>> /\ sent[s] < MaxSend[s]
  /\ sent' = [sent EXCEPT ![s] = @ + 1]
  /\ outmsgs' = [outmsgs EXCEPT ![s] = Append(@, sent[s] + 1)]
  /\ UNCHANGED <<disconnects, told, events, link, handlerVars, offer, wire, faults,
                 closes>>

\* Disconnect
Disconnect(s) ==
  /\ told[s] # <<>> /\ closes < MaxClose
  /\ closes' = closes + 1
  /\ disconnects' = [disconnects EXCEPT ![s] = @ + 1]
  /\ UNCHANGED <<outmsgs, told, events, link, handlerVars, offer, wire, sent, faults>>

\* The connection is to be closed, if it is not already.
Closing(s) == [link EXCEPT ![s] = IF @ = "up" THEN "closing" ELSE @]

\* BanPeer goes to the swarm, past the queues.
BanPeer(s) ==
  /\ told[s] # <<>> /\ closes < MaxClose
  /\ closes' = closes + 1
  /\ link' = Closing(s)
  /\ UNCHANGED <<queueVars, events, handlerVars, offer, wire, sent, faults>>

--------------------------------------------------------------------------------
(* Behaviour::poll: events first, then disconnects, then messages.          *)

\* GenerateEvent, which the run loop forwards to the Network task.
ForwardEvent(s) ==
  /\ events[s] # <<>>
  /\ told' = [told EXCEPT ![s] = Append(@, Head(events[s]))]
  /\ events' = [events EXCEPT ![s] = Tail(@)]
  /\ UNCHANGED <<outmsgs, disconnects, link, handlerVars, offer, wire, sent,
                 faults, closes>>

\* CloseConnection
CloseConnection(s) ==
  /\ events[s] = <<>> /\ disconnects[s] > 0
  /\ disconnects' = [disconnects EXCEPT ![s] = @ - 1]
  /\ link' = Closing(s)
  /\ UNCHANGED <<outmsgs, told, events, handlerVars, offer, wire, sent,
                 faults, closes>>

\* Mutant: only the latest message is kept
QueuedLatest(q, m) == <<m>>

\* SubstreamHandler::inject_event
Queued(q, m) == Append(q, m)

\* NotifyHandler: a connection that is being closed takes no more messages.
NotifyHandler(s) ==
  /\ events[s] = <<>> /\ disconnects[s] = 0 /\ outmsgs[s] # <<>>
  /\ outmsgs' = [outmsgs EXCEPT ![s] = Tail(@)]
  /\ queue' = IF link[s] = "up" THEN [queue EXCEPT ![s] = Queued(@, Head(outmsgs[s]))]
              ELSE queue
  /\ UNCHANGED <<disconnects, told, events, link, inbound, outbound, writing,
                 keep, poll, offer, wire, sent, faults, closes>>

--------------------------------------------------------------------------------
(* The swarm.  Its effects on the handler commute with the turns of a poll,  *)
(* so they are not delayed until the poll is over.                           *)

\* Mutant: the end of the connection overtakes the events before it
ClosedEventFirst(s) == <<Event("closed", 0)>> \o events[s]

\* inject_connection_closed
ClosedEvent(s) == Append(events[s], Event("closed", 0))

\* The connection ends on side s and its handler is dropped.
Dropped(s) ==
  /\ link' = [link EXCEPT ![s] = "closed"]
  /\ events' = [events EXCEPT ![s] = ClosedEvent(s)]
  /\ inbound' = [inbound EXCEPT ![s] = "none"]
  /\ outbound' = [outbound EXCEPT ![s] = "none"]
  /\ writing' = [writing EXCEPT ![s] = 0] /\ queue' = [queue EXCEPT ![s] = <<>>]
  /\ keep' = [keep EXCEPT ![s] = TRUE] /\ poll' = [poll EXCEPT ![s] = "idle"]

\* Something fails: because the other end is gone, or for no reason.
Fault(s) ==
  \/ link[Other(s)] = "closed" /\ UNCHANGED faults
  \/ faults < MaxFaults /\ faults' = faults + 1

EndClose(s) ==
  /\ link[s] = "closing"
  /\ Dropped(s)
  /\ UNCHANGED <<queueVars, offer, wire, sent, faults, closes>>

TransportFails(s) ==
  /\ Live(s)
  /\ Fault(s) /\ Dropped(s)
  /\ UNCHANGED <<queueVars, offer, wire, sent, closes>>

\* inject_fully_negotiated_outbound
NegotiatedOutbound(s) ==
  /\ Live(s) /\ outbound[s] = "requested" /\ Live(Other(s))
  /\ outbound' = [outbound EXCEPT ![s] = "writable"]
  /\ UNCHANGED <<queueVars, events, link, inbound, writing, queue, keep, poll, offer,
                 wire, sent, faults, closes>>

\* inject_dial_upgrade_error
UpgradeError(s) ==
  /\ Live(s) /\ outbound[s] = "requested"
  /\ Fault(s)
  /\ inbound' = [inbound EXCEPT ![s] = "poisoned"]
  /\ outbound' = [outbound EXCEPT ![s] = "poisoned"]
  /\ UNCHANGED <<queueVars, events, link, writing, queue, keep, poll, offer, wire, sent,
                 closes>>

\* inject_fully_negotiated_inbound: replaces whatever was there.
NegotiatedInbound(s) ==
  /\ Live(s) /\ offer[Other(s)] = "open"
  /\ inbound' = [inbound EXCEPT ![s] = "reading"]
  /\ offer' = [offer EXCEPT ![Other(s)] = "done"]
  /\ UNCHANGED <<queueVars, events, link, outbound, writing, queue, keep, poll, wire,
                 sent, faults, closes>>

\* An inbound negotiation fails; the handler is not told.
InboundRefused(s) ==
  /\ Live(s) /\ offer[Other(s)] = "open" /\ link[Other(s)] = "closed"
  /\ offer' = [offer EXCEPT ![Other(s)] = "done"]
  /\ UNCHANGED <<queueVars, events, link, handlerVars, wire, sent, faults, closes>>

--------------------------------------------------------------------------------
(* SubstreamHandler::poll.  process_inbound_poll is one step.  If it        *)
(* returns Pending, process_outbound_poll follows, one step for each turn   *)
(* of its loop; when that is over the swarm looks at keep_alive.            *)

\* process_inbound_poll left the substream in state i, with keep_alive k.
InboundPending(s, i, k) ==
  /\ inbound' = [inbound EXCEPT ![s] = i]
  /\ keep' = [keep EXCEPT ![s] = k]
  /\ poll' = [poll EXCEPT ![s] = "outbound"]
  /\ UNCHANGED <<queueVars, events, link, outbound, writing, queue, offer, wire, sent,
                 closes>>

Unread(s) == [wire EXCEPT ![Other(s)] = Tail(@)]

\* A frame: poll returns it to the swarm, which tells the behaviour.
ReadMessage(s) ==
  /\ Live(s) /\ poll[s] = "idle" /\ inbound[s] = "reading" /\ wire[Other(s)] # <<>>
  /\ events' = [events EXCEPT ![s] = Append(@, Event("message", Head(wire[Other(s)])))]
  /\ wire' = Unread(s)
  /\ UNCHANGED <<queueVars, link, handlerVars, offer, sent, faults, closes>>

\* Mutant: a broken substream does not end the connection
KeepPoisonedYes(s) == keep[s]

\* A poisoned substream asks for the connection to be closed.
KeepPoisoned(s) == FALSE

ReadError(s) ==
  /\ Live(s) /\ poll[s] = "idle" /\ inbound[s] = "reading"
  /\ Fault(s)
  /\ InboundPending(s, "poisoned", KeepPoisoned(s))

\* The peer closed its end, at once or after some polls of poll_close.
ReadEnd(s) ==
  /\ Live(s) /\ poll[s] = "idle"
  /\ \/ inbound[s] = "reading" /\ link[Other(s)] = "closed" /\ wire[Other(s)] = <<>>
     \/ inbound[s] = "closing"
  /\ \/ InboundPending(s, "none", keep[s] /\ outbound[s] # "none")
     \/ InboundPending(s, "closing", keep[s])
  /\ UNCHANGED faults

\* Nothing to read now.
ReadNothing(s) ==
  /\ Live(s) /\ poll[s] = "idle" /\ inbound[s] \in {"reading", "poisoned", "none"}
  /\ InboundPending(s, inbound[s],
                    IF inbound[s] = "poisoned" THEN KeepPoisoned(s) ELSE keep[s])
  /\ UNCHANGED faults

\* A turn of the loop of process_outbound_poll: the substream is then in state
\* o with message m, keep_alive is k and poll continues with p.
OutboundTurn(s, o, m, k, p) ==
  /\ outbound' = [outbound EXCEPT ![s] = o]
  /\ writing' = [writing EXCEPT ![s] = m]
  /\ keep' = [keep EXCEPT ![s] = k]
  /\ poll' = [poll EXCEPT ![s] = p]
  /\ UNCHANGED <<queueVars, events, link, inbound, sent, faults, closes>>

Polling(s, o) == poll[s] = "outbound" /\ outbound[s] = o

RequestSubstream(s) ==
  /\ Polling(s, "none")
  /\ OutboundTurn(s, "requested", 0, keep[s], "idle")
  /\ offer' = [offer EXCEPT ![s] = "open"]
  /\ UNCHANGED <<queue, wire>>

\* Mutant: the queue is served from its end
TakeMessageLast(s) ==
  /\ Polling(s, "writable") /\ queue[s] # <<>>
  /\ OutboundTurn(s, "write", Last(queue[s]), keep[s], "outbound")
  /\ queue' = [queue EXCEPT ![s] = Front(@)]
  /\ UNCHANGED <<offer, wire>>

TakeMessage(s) ==
  /\ Polling(s, "writable") /\ queue[s] # <<>>
  /\ OutboundTurn(s, "write", Head(queue[s]), keep[s], "outbound")
  /\ queue' = [queue EXCEPT ![s] = Tail(@)]
  /\ UNCHANGED <<offer, wire>>

\* poll_ready and start_send: the codec refuses a message that is too large.
WriteMessage(s) ==
  /\ Polling(s, "write")
  /\ IF writing[s] \in Oversized[s]
     THEN /\ OutboundTurn(s, "writable", 0, keep[s], "outbound")
          /\ UNCHANGED wire
     ELSE /\ OutboundTurn(s, "flush", 0, keep[s], "outbound")
          /\ wire' = [wire EXCEPT ![s] = Append(@, writing[s])]
  /\ UNCHANGED <<queue, offer>>

\* Mutant: the substream is closed after a flush
AfterFlushClosing == "closing"

\* Mutant: the substream is flushed again after a flush
AfterFlushAgain == "flush"

AfterFlush == "writable"

Flush(s) ==
  /\ Polling(s, "flush")
  /\ OutboundTurn(s, AfterFlush, 0, keep[s], "outbound")
  /\ UNCHANGED <<queue, offer, wire>>

\* poll returns Pending with keep_alive k; then the swarm asks for
\* connection_keep_alive.  Negotiations in progress postpone the end.
PollPending(s, k) ==
  /\ IF k \/ outbound[s] = "requested" \/ offer[Other(s)] = "open"
     THEN /\ keep' = [keep EXCEPT ![s] = k]
          /\ poll' = [poll EXCEPT ![s] = "idle"]
          /\ UNCHANGED <<events, link, inbound, outbound, writing, queue>>
     ELSE Dropped(s)
  /\ UNCHANGED <<queueVars, offer, wire, sent, faults, closes>>

\* A write or a flush that is not ready keeps the connection alive.
WriteNotReady(s) ==
  /\ poll[s] = "outbound" /\ outbound[s] \in {"write", "flush"}
  /\ PollPending(s, TRUE)

\* The handler returns Close, and the swarm drops it.
WriteError(s) ==
  /\ poll[s] = "outbound" /\ outbound[s] \in {"write", "flush"}
  /\ Fault(s) /\ Dropped(s)
  /\ UNCHANGED <<queueVars, offer, wire, sent, closes>>

\* Nothing to write, or the substream is not there (yet).
NothingToWrite(s) ==
  /\ \/ Polling(s, "writable") /\ queue[s] = <<>>
     \/ Polling(s, "requested")
     \/ Polling(s, "poisoned")
  /\ PollPending(s, IF outbound[s] = "poisoned" THEN KeepPoisoned(s) ELSE keep[s])

--------------------------------------------------------------------------------
Poll(s) ==
  \/ ReadMessage(s) \/ ReadError(s) \/ ReadEnd(s) \/ ReadNothing(s)
  \/ RequestSubstream(s) \/ TakeMessage(s) \/ WriteMessage(s) \/ Flush(s)
  \/ WriteNotReady(s) \/ WriteError(s) \/ NothingToWrite(s)

Next ==
  \E s \in Side :
    \/ Send(s) \/ Disconnect(s) \/ BanPeer(s)
    \/ ForwardEvent(s) \/ CloseConnection(s) \/ NotifyHandler(s)
    \/ EndClose(s) \/ TransportFails(s)
    \/ NegotiatedOutbound(s) \/ UpgradeError(s)
    \/ NegotiatedInbound(s) \/ InboundRefused(s)
    \/ Poll(s)

(***************************************************************************)
(* Both tasks of a node are scheduled again and again; a negotiation ends, *)
(* one way or the other (libp2p bounds it by a timeout); what was written  *)
(* arrives and the socket takes bytes again and again, so a read, write,   *)
(* flush or close that is retried again and again is ready some time; and  *)
(* a connection whose other end is gone fails.                             *)
(***************************************************************************)
Fairness ==
  \A s \in Side :
    /\ WF_vars(ForwardEvent(s)) /\ WF_vars(CloseConnection(s))
    /\ WF_vars(NotifyHandler(s)) /\ WF_vars(Poll(s)) /\ WF_vars(EndClose(s))
    /\ WF_vars(NegotiatedOutbound(s) \/ UpgradeError(s))
    /\ WF_vars(NegotiatedInbound(s) \/ InboundRefused(s))
    /\ WF_vars(link[Other(s)] = "closed" /\ TransportFails(s))
    /\ SF_vars(ReadMessage(s) \/ WriteMessage(s) \/ Flush(s))

Spec == Init /\ [][Next]_vars
FairSpec == Spec /\ Fairness

--------------------------------------------------------------------------------
(* Properties.                                                              *)

\* Type invariant.
TypeOK ==
  /\ \A s \in Side :
       /\ outmsgs[s] \in Seq(Nat) /\ queue[s] \in Seq(Nat) /\ wire[s] \in Seq(Nat)
       /\ writing[s] # 0 <=> outbound[s] = "write"
       /\ poll[s] # "idle" => Live(s)
  /\ link \in [Side -> {"up", "closing", "closed"}]
  /\ inbound \in [Side -> {"none", "reading", "closing", "poisoned"}]
  /\ outbound \in [Side -> {"none", "requested", "writable", "write", "flush",
                            "poisoned"}]
  /\ keep \in [Side -> BOOLEAN] /\ poll \in [Side -> {"idle", "outbound"}]
  /\ offer \in [Side -> {"none", "open", "done"}]
  /\ disconnects \in [Side -> 0..MaxClose]
  /\ sent \in [Side -> Nat] /\ faults \in 0..MaxFaults /\ closes \in 0..MaxClose

\* The members of ms that are in X, in order: SelectSeq as a recursive function,
\* which the proofs can unfold.
Among(ms, X) ==
  LET sel[i \in 0..Len(ms)] ==
        IF i = 0 THEN <<>>
        ELSE IF ms[i] \in X THEN Append(sel[i - 1], ms[i]) ELSE sel[i - 1]
  IN sel[Len(ms)]

Fitting(s, ms) == Among(ms, Nat \ Oversized[s])

\* The messages side s was told to send and the codec can carry.
Accepted(s) == Fitting(s, [i \in 1..sent[s] |-> i])

\* The messages among some events.
MessagesIn(es) ==
  LET of == Among(es, [kind : {"message"}, msg : Nat])
  IN [i \in DOMAIN of |-> of[i].msg]

\* What side s sent and the other side has not read yet, oldest first.
InTransit(s) ==
  wire[s] \o (IF writing[s] = 0 THEN <<>> ELSE <<writing[s]>>)
    \o queue[s] \o outmsgs[s]

(***************************************************************************)
(* As long as both ends are up and no substream broke, a message is at     *)
(* every moment in exactly one place: read, on the wire, in a substream or *)
(* in one of the two queues before it, and only oversized ones vanish.     *)
(***************************************************************************)
NothingLostWhileUp ==
  \A s \in Side :
    LET o == Other(s)
    IN link[s] = "up" /\ link[o] = "up" /\ inbound[o] # "poisoned"
       => MessagesIn(told[o] \o events[o]) \o Fitting(s, InTransit(s))
            = Accepted(s)

(***************************************************************************)
(* The events of a connection, as Network receives them: established       *)
(* first, closed last, and nothing after that, however the closing raced   *)
(* with messages still being read.  Network::accept_message relies on it:  *)
(* a message of a connection the muxer does not know panics.               *)
(***************************************************************************)
EventsBracketed ==
  \A s \in Side :
    LET log == told[s] \o events[s]
    IN \A i \in DOMAIN log :
         /\ log[i].kind = "established" <=> i = 1
         /\ log[i].kind = "closed" => i = Len(log)

ToldClosed(s) == \E i \in DOMAIN told[s] : told[s][i].kind = "closed"

Forward == INSTANCE Pipe
  WITH put   <- Accepted("dialer"),
       got   <- MessagesIn(told["listener"]),
       ended <- ToldClosed("listener")

Backward == INSTANCE Pipe
  WITH put   <- Accepted("listener"),
       got   <- MessagesIn(told["dialer"]),
       ended <- ToldClosed("dialer")

(***************************************************************************)
(* Each direction implements a pipe: although disconnects overtake the     *)
(* messages queued before them (behaviour.rs:163-182) and substreams       *)
(* break, what gets lost is the end of what was sent, never its middle.    *)
(***************************************************************************)
ImplementsPipe == Forward!Spec /\ Backward!Spec

(***************************************************************************)
(* Again and again the receiver has been told of every message that fits,  *)
(* unless the connection ends: no state of the handler holds on to one.    *)
(***************************************************************************)
DeliveredUnlessClosed ==
  \A s \in Side :
    []<>(\/ MessagesIn(told[Other(s)]) = Accepted(s)
         \/ link[s] # "up" \/ link[Other(s)] # "up")

(***************************************************************************)
(* A node notices that a connection is over: after its own command, after  *)
(* the other end closed, or because one of its substreams broke, although  *)
(* pending writes set keep_alive to Yes again (stream.rs:337, 356).        *)
(***************************************************************************)
EndIsNoticed ==
  \A s \in Side :
    \/ link[s] = "closing" \/ link[Other(s)] = "closed"
    \/ inbound[s] = "poisoned" \/ outbound[s] = "poisoned"
    ~> ToldClosed(s)
================================================================================
