---------------------------- MODULE EventJournal ----------------------------
(***************************************************************************)
(* What the live event journal of a run promises to those who append to    *)
(* it: the event of a call is appended at most once, and every call with   *)
(* one request key is answered with the one event of that key, or refused  *)
(* because that event has another payload.                                 *)
(***************************************************************************)
EXTENDS Naturals, Sequences

CONSTANTS
  Calls,      \* the calls of appendLiveRunEvent
  Key,        \* the request key of each call
  Payload,    \* its event type and payload
  NoKey       \* the key of a call without one

VARIABLES
  log,        \* the events, in their order
  told,       \* what each call was answered: the position of its event, or 0
  refused     \* the calls refused for a conflict

vars == <<log, told, refused>>

Content(c) == [key |-> Key[c], payload |-> Payload[c]]

Init == log = <<>> /\ told = [c \in Calls |-> 0] /\ refused = {}

\* The event of c is new: nothing has been appended for its key, or for the call.
IsNew(c) ==
  \A i \in DOMAIN log : IF Key[c] = NoKey THEN log[i] # Content(c) ELSE log[i].key # Key[c]

Publish(c) ==
  /\ IsNew(c)
  /\ log' = Append(log, Content(c))
  /\ UNCHANGED <<told, refused>>

Answer(c) ==
  /\ told[c] = 0
  /\ \E i \in DOMAIN log : log[i] = Content(c) /\ told' = [told EXCEPT ![c] = i]
  /\ UNCHANGED <<log, refused>>

Refuse(c) ==
  /\ Key[c] # NoKey
  /\ \E i \in DOMAIN log : log[i].key = Key[c] /\ log[i].payload # Payload[c]
  /\ refused' = refused \cup {c}
  /\ UNCHANGED <<log, told>>

Next == \E c \in Calls : Publish(c) \/ Answer(c) \/ Refuse(c)

Spec == Init /\ [][Next]_vars
=============================================================================
