---------------------------- MODULE EventStream ----------------------------
(***************************************************************************)
(* A client that follows the journal of EventLog over the event stream,    *)
(* and comes back with the id of the last event it received.               *)
(***************************************************************************)
EXTENDS EventLog

CONSTANTS
  Terminal,     \* the payloads of run.terminal events
  MaxReplay,    \* the client's max_replay
  MaxDrops      \* bound on broken connections

ASSUME StreamBoundsAreNaturals == MaxReplay \in Nat /\ MaxDrops \in Nat

VARIABLES
  conn,         \* the client's connection
  offset,       \* how much of the journal its subscription has read
  last,         \* lastSequence of the stream
  wire,         \* the sequences sent and not yet received
  got,          \* the sequences received: the last one is the client's cursor
  overrun,      \* history: has the client been away for more than max_replay events?
  drops

streamVars == <<conn, offset, last, wire, got, overrun, drops>>

StreamTypeOK ==
  /\ conn \in {"off", "sized", "open", "ended"}
  /\ offset \in Nat /\ last \in Nat
  /\ wire \in Seq(Nat) /\ got \in Seq(Nat)
  /\ overrun \in BOOLEAN /\ drops \in Nat

StreamInit ==
  /\ Init
  /\ conn = "off" /\ offset = 0 /\ last = 0
  /\ wire = <<>> /\ got = <<>> /\ overrun = FALSE /\ drops = 0

-----------------------------------------------------------------------------
(* openLiveRunEventStream, its HTTP handler and the client.                *)

\* The last event the client received, 0 before the first.
Anchor == IF got = <<>> THEN 0 ELSE got[Len(got)]

LastOf(s, n) == IF n >= Len(s) THEN s ELSE SubSeq(s, Len(s) - n + 1, Len(s))

Sequences(s) == [i \in DOMAIN s |-> s[i].seq]

\* Mutant: the stream starts before the last event, which the tail holds too.
Connect_BeforeLast ==
  /\ conn = "off"
  /\ conn' = "sized" /\ offset' = Len(journal) - 1
  /\ UNCHANGED <<vars, last, wire, got, overrun, drops>>

\* The stream remembers the size of the journal before it reads its tail.
Connect ==
  /\ conn = "off"
  /\ conn' = "sized" /\ offset' = Len(journal)
  /\ UNCHANGED <<vars, last, wire, got, overrun, drops>>

\* The events of s that are later than sequence a, one after the other.
Later(s, a) ==
  LET kept[n \in 0..Len(s)] ==
        IF n = 0 THEN <<>>
        ELSE IF s[n].seq > a THEN Append(kept[n - 1], s[n]) ELSE kept[n - 1]
  IN kept[Len(s)]

\* Mutant: the events after the anchor start with the anchor.
AfterAnchor_Included(s, a) == Later(s, a - 1)

AfterAnchor(s, a) == Later(s, a)

\* resolveReplayWindow: the last max_replay events of the tail, those after the
\* anchor only if the tail holds it.
ReplayWindow(tail) ==
  IF \E i \in DOMAIN tail : tail[i].seq = Anchor
    THEN LastOf(AfterAnchor(tail, Anchor), MaxReplay)
    ELSE LastOf(tail, MaxReplay)

IsTerminal(n) == journal[n].payload \in Terminal

\* The tail of the journal is read, its window sent.  The response ends at once
\* when the journal ends with a terminal event.
ReadTail ==
  LET tail   == LastOf(journal, MaxReplay + 1)
      replay == Sequences(ReplayWindow(tail))
  IN /\ conn = "sized"
     /\ wire' = replay
     /\ last' = IF replay # <<>> THEN replay[Len(replay)]
                ELSE IF MaxReplay = 0 /\ tail # <<>> THEN tail[Len(tail)].seq
                ELSE IF tail # <<>> THEN Anchor ELSE 0
     /\ overrun' = (overrun \/ Len(journal) - Anchor > MaxReplay)
     /\ conn' = IF journal # <<>> /\ IsTerminal(Len(journal)) THEN "ended" ELSE "open"
     /\ UNCHANGED <<vars, offset, got, drops>>

\* The events read since the last poll that are later than lastSequence.
Unsent == Sequences(Later(SubSeq(journal, offset + 1, Len(journal)), last))

\* Mutant: a write to a full transport is taken for a sent event.
Poll_DropsWhenFull ==
  /\ conn = "open" /\ offset < Len(journal)
  /\ offset' = Len(journal)
  /\ IF Unsent = <<>> THEN UNCHANGED <<conn, last, wire>>
     ELSE \E n \in DOMAIN Unsent :
            /\ wire' = wire \o SubSeq(Unsent, 1, n)
            /\ last' = Unsent[n]
            /\ UNCHANGED conn
  /\ UNCHANGED <<vars, got, overrun, drops>>

\* The subscription reads what was appended.  The handler ends the response
\* after a terminal event, or after the event that fills the transport; what the
\* poll read after it is not sent any more.
Poll ==
  /\ conn = "open" /\ offset < Len(journal)
  /\ offset' = Len(journal)
  /\ IF Unsent = <<>> THEN UNCHANGED <<conn, last, wire>>
     ELSE \E n \in DOMAIN Unsent :
            /\ \A i \in 1..(n - 1) : ~IsTerminal(Unsent[i])
            /\ wire' = wire \o SubSeq(Unsent, 1, n)
            /\ last' = Unsent[n]
            /\ \/ conn' = "ended"
               \/ n = Len(Unsent) /\ ~IsTerminal(Unsent[n]) /\ UNCHANGED conn
  /\ UNCHANGED <<vars, got, overrun, drops>>

Receive ==
  /\ wire # <<>>
  /\ got' = Append(got, Head(wire)) /\ wire' = Tail(wire)
  /\ UNCHANGED <<vars, conn, offset, last, overrun, drops>>

\* Mutant: the client takes the end of a response for the end of the run.
Reconnect_Never == FALSE /\ UNCHANGED streamVars /\ UNCHANGED vars

\* The client sees the end of the response and will connect again.
Reconnect ==
  /\ conn = "ended" /\ wire = <<>>
  /\ conn' = "off"
  /\ UNCHANGED <<vars, offset, last, wire, got, overrun, drops>>

\* The connection breaks, and with it what was under way.
Drop ==
  /\ conn \in {"open", "ended"} /\ drops < MaxDrops
  /\ drops' = drops + 1
  /\ conn' = "off" /\ wire' = <<>>
  /\ UNCHANGED <<vars, offset, last, got, overrun>>

-----------------------------------------------------------------------------
StreamNext ==
  \/ Next /\ UNCHANGED streamVars
  \/ Connect \/ ReadTail \/ Poll \/ Receive \/ Reconnect \/ Drop

\* The stream polls every 50 ms, the transport delivers and the client's retry
\* timer fires; nothing makes an operator append or repeat.
Fairness ==
  /\ WF_streamVars(Connect) /\ WF_streamVars(ReadTail) /\ WF_streamVars(Poll)
  /\ WF_streamVars(Receive) /\ WF_streamVars(Reconnect)

StreamSpec == StreamInit /\ [][StreamNext]_<<vars, streamVars>> /\ Fairness

-----------------------------------------------------------------------------
(* What the stream promises to a client.                                   *)

\* The client receives the events in their order and none twice, over all its
\* connections.
InOrder == \A i, j \in DOMAIN (got \o wire) : i < j => (got \o wire)[i] < (got \o wire)[j]

\* Unless it was away for more events than its replay window holds it misses
\* none: neither between the reading of the size and of the tail, nor when the
\* response ends in the middle of a poll or breaks.
NothingMissed == ~overrun => \A i \in DOMAIN (got \o wire) : (got \o wire)[i] = i

\* And it receives every event, also those that follow a terminal one.
CaughtUp ==
  \A n \in 1..Cardinality(Calls) :
    n \in DOMAIN journal ~> overrun \/ \E i \in DOMAIN got : got[i] = n
=============================================================================
