------------------------------ MODULE EventLog ------------------------------
(***************************************************************************)
(* The live event journal of one run: appendLiveRunEvent with its journal, *)
(* cursor, request records and append transaction, one durable write at a  *)
(* time, interrupted anywhere and completed by the next call.              *)
(*                                                                         *)
(* The lock of the journal is FileLock's: exclusive, reclaimed when its    *)
(* holder is gone.  An event's id is derived from its sequence number.     *)
(***************************************************************************)
EXTENDS Integers, Sequences, FiniteSets

CONSTANTS
  Calls, NoCall,
  Key, Payload, NoKey,  \* as in EventJournal
  MaxFaults             \* bound on interrupted appends

Keys == {Key[c] : c \in Calls} \ {NoKey}
Payloads == {Payload[c] : c \in Calls}

ASSUME CallsAreFinite == IsFiniteSet(Calls) /\ NoCall \notin Calls
ASSUME KeylessAreDistinct ==
  \A c, d \in Calls : Key[c] = NoKey /\ Key[d] = NoKey /\ Payload[c] = Payload[d] => c = d
ASSUME BoundIsNatural == MaxFaults \in Nat

VARIABLES
  journal,      \* the events in the journal file
  cursor,       \* the sequence in the cursor file
  requests,     \* the event in the request file of each key
  txn,          \* the event in the append transaction file
  holder,       \* the call inside the lock
  step,         \* its next write
  recovering,   \* is it completing the transaction of an interrupted call?
  pc,           \* where each call is
  told,         \* the sequence of the event a call returned, 0 before
  refused,      \* the calls that ended with event-request-conflict
  faults

fileVars   == <<journal, cursor, requests, txn>>
callVars   == <<holder, step, recovering, pc, told, refused, faults>>
vars       == <<fileVars, callVars>>

Events  == [seq : Nat \ {0}, key : Keys \cup {NoKey}, payload : Payloads]
NoEvent == [seq |-> 0]

TypeOK ==
  /\ journal \in Seq(Events) /\ cursor \in Nat
  /\ requests \in [Keys -> Events \cup {NoEvent}]
  /\ txn \in Events \cup {NoEvent}
  /\ holder \in Calls \cup {NoCall}
  /\ step \in {"none", "lookup", "journal", "cursor", "request", "finish"}
  /\ recovering \in BOOLEAN
  /\ pc \in [Calls -> {"ready", "busy", "failed", "done"}]
  /\ told \in [Calls -> Nat] /\ refused \in SUBSET Calls /\ faults \in Nat

Init ==
  /\ journal = <<>> /\ cursor = 0 /\ txn = NoEvent
  /\ requests = [k \in Keys |-> NoEvent]
  /\ holder = NoCall /\ step = "none" /\ recovering = FALSE
  /\ pc = [c \in Calls |-> "ready"]
  /\ told = [c \in Calls |-> 0] /\ refused = {} /\ faults = 0

-----------------------------------------------------------------------------
(* appendLiveRunEvent.                                                     *)

\* A call enters the lock and finds the transaction of an interrupted one, or none.
Enter(c) ==
  /\ pc[c] = "ready" /\ holder = NoCall
  /\ holder' = c
  /\ pc' = [pc EXCEPT ![c] = "busy"]
  /\ recovering' = (txn # NoEvent)
  /\ step' = IF txn # NoEvent THEN "journal" ELSE "lookup"
  /\ UNCHANGED <<fileVars, told, refused, faults>>

\* The call returns: the lock is released.
Return(c) ==
  /\ holder' = NoCall /\ step' = "none"
  /\ pc' = [pc EXCEPT ![c] = "done"]
  /\ UNCHANGED <<recovering, faults>>

\* A known key: the stored event if the payload is its own, else a conflict.
Replay(c) ==
  /\ holder = c /\ step = "lookup" /\ Key[c] # NoKey
  /\ requests[Key[c]] # NoEvent
  /\ IF requests[Key[c]].payload = Payload[c]
       THEN told' = [told EXCEPT ![c] = requests[Key[c]].seq] /\ UNCHANGED refused
       ELSE refused' = refused \cup {c} /\ UNCHANGED told
  /\ Return(c)
  /\ UNCHANGED <<fileVars>>

\* Mutant: the sequence of a missing journal is taken for -1.
NextSequence_FromZero == IF journal = <<>> THEN 0 ELSE journal[Len(journal)].seq + 1

\* readCursor: the journal decides, whatever the cursor file says.
NextSequence == IF journal = <<>> THEN 1 ELSE journal[Len(journal)].seq + 1

\* Mutant: a key is not looked up.
WriteTransaction_AnyKey(c) ==
  /\ holder = c /\ step = "lookup"
  /\ txn' = [seq |-> NextSequence, key |-> Key[c], payload |-> Payload[c]]
  /\ step' = "journal"
  /\ UNCHANGED <<journal, cursor, requests, holder, recovering, pc, told, refused, faults>>

\* The transaction file announces the event with the next sequence.
WriteTransaction(c) ==
  /\ holder = c /\ step = "lookup"
  /\ Key[c] # NoKey => requests[Key[c]] = NoEvent
  /\ txn' = [seq |-> NextSequence, key |-> Key[c], payload |-> Payload[c]]
  /\ step' = "journal" /\ recovering' = FALSE
  /\ UNCHANGED <<journal, cursor, requests, holder, pc, told, refused, faults>>

\* Mutant: the reconciliation does not look whether the event is there.
WriteJournal_Again ==
  /\ step = "journal"
  /\ journal' = Append(journal, txn)
  /\ step' = "cursor"
  /\ UNCHANGED <<cursor, requests, txn, holder, recovering, pc, told, refused, faults>>

\* The event is appended; a reconciliation first looks whether it is there.
WriteJournal ==
  /\ step = "journal"
  /\ journal' = IF recovering /\ \E i \in DOMAIN journal : journal[i].seq = txn.seq
                  THEN journal ELSE Append(journal, txn)
  /\ step' = "cursor"
  /\ UNCHANGED <<cursor, requests, txn, holder, recovering, pc, told, refused, faults>>

WriteCursor ==
  /\ step = "cursor"
  /\ cursor' = txn.seq
  /\ step' = "request"
  /\ UNCHANGED <<journal, requests, txn, holder, recovering, pc, told, refused, faults>>

\* Mutant: the reconciliation completes the journal and forgets the request.
WriteRequest_NotRecovered ==
  /\ step = "request"
  /\ requests' = IF txn.key = NoKey \/ recovering THEN requests ELSE [requests EXCEPT ![txn.key] = txn]
  /\ step' = "finish"
  /\ UNCHANGED <<journal, cursor, txn, holder, recovering, pc, told, refused, faults>>

WriteRequest ==
  /\ step = "request"
  /\ requests' = IF txn.key = NoKey THEN requests ELSE [requests EXCEPT ![txn.key] = txn]
  /\ step' = "finish"
  /\ UNCHANGED <<journal, cursor, txn, holder, recovering, pc, told, refused, faults>>

\* The transaction file is removed.  A reconciliation goes on with its own call;
\* an append returns its event.
Finish(c) ==
  /\ holder = c /\ step = "finish"
  /\ txn' = NoEvent
  /\ IF recovering
       THEN step' = "lookup" /\ UNCHANGED <<holder, recovering, pc, told, faults>>
       ELSE told' = [told EXCEPT ![c] = txn.seq] /\ Return(c)
  /\ UNCHANGED <<journal, cursor, requests, refused>>

\* The holder dies, or one of its writes throws: the lock is reclaimed or released.
Interrupt(c) ==
  /\ holder = c /\ faults < MaxFaults
  /\ faults' = faults + 1
  /\ holder' = NoCall /\ step' = "none"
  /\ pc' = [pc EXCEPT ![c] = "failed"]
  /\ UNCHANGED <<fileVars, recovering, told, refused>>

\* An operator command repeats its events under their keys; the events without
\* a key belong to a run that is not repeated.
Retry(c) ==
  /\ pc[c] = "failed" /\ Key[c] # NoKey
  /\ pc' = [pc EXCEPT ![c] = "ready"]
  /\ UNCHANGED <<fileVars, holder, step, recovering, told, refused, faults>>

-----------------------------------------------------------------------------
Next ==
  \/ \E c \in Calls :
       Enter(c) \/ Replay(c) \/ WriteTransaction(c) \/ Finish(c) \/ Interrupt(c) \/ Retry(c)
  \/ WriteJournal \/ WriteCursor \/ WriteRequest

Spec == Init /\ [][Next]_vars

-----------------------------------------------------------------------------
(* What the journal promises to its writers.                               *)

\* The events are numbered 1, 2, 3... and no key has two, wherever an append was
\* interrupted and whoever completed it (reconcileAppendTransaction).
JournalIsExact ==
  /\ \A i \in DOMAIN journal : journal[i].seq = i
  /\ \A i, j \in DOMAIN journal :
       journal[i].key # NoKey /\ journal[i].key = journal[j].key => i = j

\* A request record is an event of the journal; and while no transaction is
\* pending the four files agree: the cursor is at the last event and every
\* keyed event has its request record.
FilesAgree ==
  /\ \A k \in Keys : requests[k] # NoEvent =>
       requests[k].seq \in DOMAIN journal /\ journal[requests[k].seq] = requests[k]
  /\ txn = NoEvent =>
       /\ cursor = Len(journal)
       /\ \A i \in DOMAIN journal : journal[i].key # NoKey => requests[journal[i].key] = journal[i]

\* "replaying the same key and payload returns the original event; a different
\* payload is refused": the calls see the journal of EventJournal.
Contents(s) == [i \in DOMAIN s |-> [key |-> s[i].key, payload |-> s[i].payload]]
Abstract == INSTANCE EventJournal WITH log <- Contents(journal)
Journal == Abstract!Spec
=============================================================================
