--------------------------- MODULE EventLogProofs ---------------------------
(***************************************************************************)
(* Proofs about EventLog, for any calls, any keys and any number of        *)
(* interruptions.                                                          *)
(*                                                                         *)
(* LogInv follows the one event under way: the transaction file names the  *)
(* last event of the journal or the one after it, in the second case       *)
(* nothing in the journal has its key, and every other keyed event has its *)
(* request record.                                                         *)
(***************************************************************************)
EXTENDS EventLog, SequenceTheorems, TLAPS

\* The lock and the step of its holder.
LockInv ==
  /\ holder = NoCall <=> step = "none"
  /\ holder # NoCall => pc[holder] = "busy"

\* What is known at each step about the transaction.
StepInv ==
  /\ step = "lookup" => txn = NoEvent
  /\ step \in {"journal", "cursor", "request", "finish"} => txn # NoEvent
  /\ step = "journal" /\ ~recovering => txn.seq = Len(journal) + 1
  /\ step \in {"cursor", "request", "finish"} => txn.seq = Len(journal)
  /\ step \in {"request", "finish"} => cursor = txn.seq
  /\ step = "finish" /\ txn.key # NoKey => requests[txn.key] = txn
  /\ holder # NoCall /\ txn # NoEvent /\ ~recovering =>
       txn.key = Key[holder] /\ txn.payload = Payload[holder]

\* e is the event of call c, or of one with its content.
IsOf(e, c) == e.key = Key[c] /\ e.payload = Payload[c]

\* The pending event is the last one, or a new one.
TxnInv ==
  txn # NoEvent =>
    /\ \E c \in Calls : IsOf(txn, c)
    /\ txn.seq = Len(journal) \/ txn.seq = Len(journal) + 1
    /\ txn.seq = Len(journal) => journal[Len(journal)] = txn
    /\ txn.seq = Len(journal) + 1 => \A i \in DOMAIN journal :
         /\ txn.key # NoKey => journal[i].key # txn.key
         /\ txn.key = NoKey => ~(journal[i].key = NoKey /\ journal[i].payload = txn.payload)

\* Request records are events; every keyed event but the pending one has one.
RequestInv ==
  /\ \A k \in Keys : requests[k] # NoEvent =>
       /\ requests[k].seq \in DOMAIN journal /\ journal[requests[k].seq] = requests[k]
       /\ requests[k].key = k
  /\ \A i \in DOMAIN journal :
       journal[i].key # NoKey /\ (txn = NoEvent \/ i # txn.seq) =>
         requests[journal[i].key] = journal[i]
  /\ txn = NoEvent => cursor = Len(journal)

\* What a call was told is its event.
AnswerInv ==
  \A c \in Calls :
    /\ told[c] # 0 => told[c] \in DOMAIN journal /\ IsOf(journal[told[c]], c)
    /\ pc[c] # "done" => told[c] = 0

\* A call without a key that has not appended has left nothing behind.
KeylessInv ==
  \A c \in Calls :
    Key[c] = NoKey /\ (pc[c] = "ready" \/ (holder = c /\ (step = "lookup" \/ recovering))) =>
      /\ \A i \in DOMAIN journal : ~IsOf(journal[i], c)
      /\ txn # NoEvent => ~IsOf(txn, c)

LogInv ==
  /\ TypeOK /\ JournalIsExact
  /\ LockInv /\ StepInv /\ TxnInv /\ RequestInv /\ AnswerInv /\ KeylessInv

-----------------------------------------------------------------------------
\* The sign of an empty transaction is no event.
LEMMA NoEventIsNoEvent == NoEvent \notin Events
BY DEF NoEvent, Events

\* What a call carries.
LEMMA ContentTypes == \A c \in Calls : Key[c] \in Keys \cup {NoKey} /\ Payload[c] \in Payloads
BY DEF Keys, Payloads

\* An appended journal is the journal with one more event.
LEMMA AppendedJournal ==
  ASSUME NEW s \in Seq(Events), NEW e \in Events
  PROVE  /\ Append(s, e) \in Seq(Events) /\ Len(Append(s, e)) = Len(s) + 1
         /\ DOMAIN Append(s, e) = 1..(Len(s) + 1) /\ DOMAIN s = 1..Len(s) /\ Len(s) \in Nat
         /\ \A i \in DOMAIN s : Append(s, e)[i] = s[i]
         /\ Append(s, e)[Len(s) + 1] = e
OBVIOUS

\* The next sequence follows the length of an exact journal.
LEMMA NextSequenceIsNext ==
  ASSUME TypeOK, JournalIsExact PROVE NextSequence = Len(journal) + 1
BY DEF TypeOK, JournalIsExact, NextSequence

\* Every action preserves the types.
LEMMA TypeStep ==
  ASSUME LogInv, [Next]_vars PROVE TypeOK'
<1> USE CallsAreFinite, NoEventIsNoEvent, ContentTypes
    DEF TypeOK, fileVars, callVars
<1>1. ASSUME NEW c \in Calls, Enter(c) PROVE TypeOK'
  <2>1. recovering' \in BOOLEAN
    BY <1>1, Zenon DEF Enter
  <2>2. QED
    BY <1>1, <2>1 DEF Enter, LogInv
<1>2. ASSUME NEW c \in Calls, Replay(c) PROVE TypeOK'
  <2>1. Key[c] \in Keys
    BY <1>2 DEF Replay
  <2>2. requests[Key[c]].seq \in Nat
    BY <1>2, <2>1 DEF Replay, LogInv, Events
  <2>3. QED
    BY <1>2, <2>2 DEF Replay, Return, LogInv
<1>3. ASSUME NEW c \in Calls, WriteTransaction(c) PROVE TypeOK'
  <2>1. NextSequence \in Nat \ {0}
    BY NextSequenceIsNext DEF LogInv
  <2>2. txn' \in Events
    BY <1>3, <2>1 DEF WriteTransaction, Events
  <2>3. QED
    BY <1>3, <2>2, Zenon DEF WriteTransaction, LogInv
<1>4. ASSUME NEW c \in Calls, Finish(c) PROVE TypeOK'
  <2>1. txn.seq \in Nat
    BY <1>4 DEF Finish, LogInv, StepInv, Events
  <2>2. QED
    BY <1>4, <2>1 DEF Finish, Return, LogInv
<1>5. ASSUME NEW c \in Calls, Interrupt(c) PROVE TypeOK'
  BY <1>5 DEF Interrupt, LogInv
<1>6. ASSUME NEW c \in Calls, Retry(c) PROVE TypeOK'
  BY <1>6 DEF Retry, LogInv
<1>7. CASE WriteJournal
  <2>1. txn \in Events
    BY <1>7 DEF WriteJournal, LogInv, StepInv
  <2>2. QED
    BY <1>7, <2>1 DEF WriteJournal, LogInv
<1>8. CASE WriteCursor
  BY <1>8 DEF WriteCursor, LogInv, StepInv, Events
<1>9. CASE WriteRequest
  BY <1>9 DEF WriteRequest, LogInv, StepInv, Events
<1>10. CASE UNCHANGED vars
  BY <1>10 DEF vars, LogInv
<1>11. QED
  BY <1>1, <1>2, <1>3, <1>4, <1>5, <1>6, <1>7, <1>8, <1>9, <1>10 DEF Next

-----------------------------------------------------------------------------
\* The inductive step: one step per action, and under it one per part.
LEMMA LogStep ==
  ASSUME LogInv, [Next]_vars PROVE LogInv'
<1> USE CallsAreFinite, NoEventIsNoEvent, ContentTypes DEF fileVars, callVars
<1>0. TypeOK'
  BY TypeStep
<1>t. TypeOK /\ JournalIsExact /\ LockInv /\ StepInv /\ TxnInv /\ RequestInv /\ AnswerInv /\ KeylessInv
  BY DEF LogInv
<1>1. ASSUME NEW c \in Calls, Enter(c) PROVE LogInv'
  <2>1. JournalIsExact'
    BY <1>t, <1>0, <1>1 DEF Enter, JournalIsExact
  <2>2. LockInv'
    BY <1>t, <1>0, <1>1 DEF Enter, LockInv, TypeOK
  <2>3. StepInv'
    BY <1>t, <1>0, <1>1 DEF Enter, StepInv
  <2>4. TxnInv'
    BY <1>t, <1>0, <1>1 DEF Enter, TxnInv, IsOf
  <2>5. RequestInv'
    BY <1>t, <1>0, <1>1 DEF Enter, RequestInv
  <2>6. AnswerInv'
    BY <1>t, <1>0, <1>1 DEF Enter, AnswerInv, IsOf
  <2>7. KeylessInv'
    BY <1>t, <1>0, <1>1 DEF Enter, KeylessInv, IsOf
  <2>8. QED
    BY <1>0, <2>1, <2>2, <2>3, <2>4, <2>5, <2>6, <2>7 DEF LogInv
<1>2. ASSUME NEW c \in Calls, Replay(c) PROVE LogInv'
  <2>1. JournalIsExact'
    BY <1>t, <1>0, <1>2 DEF Replay, Return, JournalIsExact
  <2>2. LockInv'
    BY <1>t, <1>0, <1>2 DEF Replay, Return, LockInv
  <2>3. StepInv'
    BY <1>t, <1>0, <1>2 DEF Replay, Return, StepInv
  <2>4. TxnInv'
    BY <1>t, <1>0, <1>2 DEF Replay, Return, TxnInv, IsOf
  <2>5. RequestInv'
    BY <1>t, <1>0, <1>2 DEF Replay, Return, RequestInv
  <2>6. AnswerInv'
    BY <1>t, <1>0, <1>2 DEF Replay, Return, AnswerInv, TypeOK, LockInv, StepInv, RequestInv, IsOf
  <2>7. KeylessInv'
    <3> SUFFICES ASSUME NEW d \in Calls, Key[d] = NoKey,
                        pc'[d] = "ready" \/ (holder' = d /\ (step' = "lookup" \/ recovering'))
                 PROVE  /\ \A i \in DOMAIN journal' : ~IsOf(journal'[i], d)
                        /\ txn' # NoEvent => ~IsOf(txn', d)
      BY DEF KeylessInv
    <3>1. pc[d] = "ready" \/ (holder = d /\ (step = "lookup" \/ recovering))
      BY <1>t, <1>2 DEF Replay, Return, TypeOK, LockInv, StepInv
    <3>2. QED
      BY <1>t, <1>2, <3>1, KeylessAreDistinct DEF Replay, Return, KeylessInv, IsOf
  <2>8. QED
    BY <1>0, <2>1, <2>2, <2>3, <2>4, <2>5, <2>6, <2>7 DEF LogInv
<1>3. ASSUME NEW c \in Calls, WriteTransaction(c) PROVE LogInv'
  <2>1. JournalIsExact'
    BY <1>t, <1>0, <1>3 DEF WriteTransaction, JournalIsExact
  <2>2. LockInv'
    BY <1>t, <1>0, <1>3 DEF WriteTransaction, LockInv
  <2>3. StepInv'
    <3>1. txn' \in Events /\ txn'.seq = Len(journal) + 1
      BY <1>t, <1>0, <1>3, NextSequenceIsNext DEF WriteTransaction, TypeOK, Events
    <3>2. QED
      BY <1>t, <1>3, <3>1 DEF WriteTransaction, StepInv
  <2>4. TxnInv'
    <3>1. txn' \in Events /\ txn'.seq = Len(journal) + 1 /\ Len(journal) \in Nat /\ IsOf(txn', c)
      BY <1>t, <1>0, <1>3, NextSequenceIsNext DEF WriteTransaction, TypeOK, Events, IsOf
    <3>2. ASSUME NEW i \in DOMAIN journal, txn'.key # NoKey
          PROVE  journal[i].key # txn'.key
      <4>1. txn = NoEvent /\ requests[Key[c]] = NoEvent /\ txn'.key = Key[c]
        BY <1>t, <1>3, <3>1, <3>2 DEF WriteTransaction, StepInv, IsOf
      <4>2. journal[i] \in Events
        BY <1>t DEF TypeOK
      <4>3. QED
        BY <1>t, <3>2, <4>1, <4>2 DEF RequestInv
    <3>3. ASSUME NEW i \in DOMAIN journal, txn'.key = NoKey
          PROVE  ~(journal[i].key = NoKey /\ journal[i].payload = txn'.payload)
      BY <1>t, <1>3, <3>1, <3>3 DEF WriteTransaction, KeylessInv, IsOf
    <3>4. QED
      BY <1>3, <3>1, <3>2, <3>3 DEF WriteTransaction, TxnInv
  <2>5. RequestInv'
    BY <1>t, <1>0, <1>3 DEF WriteTransaction, RequestInv, TypeOK, StepInv
  <2>6. AnswerInv'
    BY <1>t, <1>0, <1>3 DEF WriteTransaction, AnswerInv, IsOf
  <2>7. KeylessInv'
    <3> SUFFICES ASSUME NEW d \in Calls, Key[d] = NoKey,
                        pc'[d] = "ready" \/ (holder' = d /\ (step' = "lookup" \/ recovering'))
                 PROVE  /\ \A i \in DOMAIN journal' : ~IsOf(journal'[i], d)
                        /\ txn' # NoEvent => ~IsOf(txn', d)
      BY DEF KeylessInv
    <3>1. pc[d] = "ready" /\ d # c
      BY <1>t, <1>3 DEF WriteTransaction, LockInv
    <3>2. \A i \in DOMAIN journal : ~IsOf(journal[i], d)
      BY <1>t, <3>1 DEF KeylessInv
    <3>3. txn'.key = Key[c] /\ txn'.payload = Payload[c]
      BY <1>3 DEF WriteTransaction
    <3>4. QED
      BY <1>3, <3>1, <3>2, <3>3, KeylessAreDistinct DEF WriteTransaction, IsOf
  <2>8. QED
    BY <1>0, <2>1, <2>2, <2>3, <2>4, <2>5, <2>6, <2>7 DEF LogInv
<1>4. ASSUME NEW c \in Calls, Finish(c) PROVE LogInv'
  <2>1. JournalIsExact'
    BY <1>t, <1>0, <1>4 DEF Finish, Return, JournalIsExact
  <2>2. LockInv'
    BY <1>t, <1>0, <1>4 DEF Finish, Return, LockInv
  <2>3. StepInv'
    BY <1>t, <1>0, <1>4 DEF Finish, Return, StepInv
  <2>4. TxnInv'
    BY <1>t, <1>0, <1>4 DEF Finish, Return, TxnInv, IsOf
  <2>5. RequestInv'
    BY <1>t, <1>0, <1>4 DEF Finish, Return, RequestInv, TypeOK, StepInv, TxnInv
  <2>6. AnswerInv'
    BY <1>t, <1>0, <1>4 DEF Finish, Return, AnswerInv, TypeOK, StepInv, TxnInv, IsOf
  <2>7. KeylessInv'
    <3> SUFFICES ASSUME NEW d \in Calls, Key[d] = NoKey,
                        pc'[d] = "ready" \/ (holder' = d /\ (step' = "lookup" \/ recovering'))
                 PROVE  /\ \A i \in DOMAIN journal' : ~IsOf(journal'[i], d)
                        /\ txn' # NoEvent => ~IsOf(txn', d)
      BY DEF KeylessInv
    <3>1. pc[d] = "ready" \/ (holder = d /\ (step = "lookup" \/ recovering))
      BY <1>t, <1>4 DEF Finish, Return, TypeOK, LockInv, StepInv
    <3>2. QED
      BY <1>t, <1>4, <3>1, KeylessAreDistinct DEF Finish, Return, KeylessInv, IsOf
  <2>8. QED
    BY <1>0, <2>1, <2>2, <2>3, <2>4, <2>5, <2>6, <2>7 DEF LogInv
<1>5. ASSUME NEW c \in Calls, Interrupt(c) PROVE LogInv'
  <2>1. JournalIsExact'
    BY <1>t, <1>0, <1>5 DEF Interrupt, JournalIsExact
  <2>2. LockInv'
    BY <1>t, <1>0, <1>5 DEF Interrupt, LockInv
  <2>3. StepInv'
    BY <1>t, <1>0, <1>5 DEF Interrupt, StepInv
  <2>4. TxnInv'
    BY <1>t, <1>0, <1>5 DEF Interrupt, TxnInv, IsOf
  <2>5. RequestInv'
    BY <1>t, <1>0, <1>5 DEF Interrupt, RequestInv
  <2>6. AnswerInv'
    BY <1>t, <1>0, <1>5 DEF Interrupt, AnswerInv, TypeOK, LockInv, StepInv, IsOf
  <2>7. KeylessInv'
    <3> SUFFICES ASSUME NEW d \in Calls, Key[d] = NoKey,
                        pc'[d] = "ready" \/ (holder' = d /\ (step' = "lookup" \/ recovering'))
                 PROVE  /\ \A i \in DOMAIN journal' : ~IsOf(journal'[i], d)
                        /\ txn' # NoEvent => ~IsOf(txn', d)
      BY DEF KeylessInv
    <3>1. pc[d] = "ready" \/ (holder = d /\ (step = "lookup" \/ recovering))
      BY <1>t, <1>5 DEF Interrupt, TypeOK, LockInv, StepInv
    <3>2. QED
      BY <1>t, <1>5, <3>1, KeylessAreDistinct DEF Interrupt, KeylessInv, IsOf
  <2>8. QED
    BY <1>0, <2>1, <2>2, <2>3, <2>4, <2>5, <2>6, <2>7 DEF LogInv
<1>6. ASSUME NEW c \in Calls, Retry(c) PROVE LogInv'
  <2>1. JournalIsExact'
    BY <1>t, <1>0, <1>6 DEF Retry, JournalIsExact
  <2>2. LockInv'
    BY <1>t, <1>0, <1>6 DEF Retry, LockInv
  <2>3. StepInv'
    BY <1>t, <1>0, <1>6 DEF Retry, StepInv
  <2>4. TxnInv'
    BY <1>t, <1>0, <1>6 DEF Retry, TxnInv, IsOf
  <2>5. RequestInv'
    BY <1>t, <1>0, <1>6 DEF Retry, RequestInv
  <2>6. AnswerInv'
    BY <1>t, <1>0, <1>6 DEF Retry, AnswerInv, IsOf
  <2>7. KeylessInv'
    BY <1>t, <1>0, <1>6 DEF Retry, KeylessInv, IsOf
  <2>8. QED
    BY <1>0, <2>1, <2>2, <2>3, <2>4, <2>5, <2>6, <2>7 DEF LogInv
<1>7. CASE WriteJournal
  <2>e. txn \in Events
    BY <1>t, <1>7 DEF WriteJournal, TypeOK, StepInv
  <2>j. \/ txn.seq = Len(journal) /\ recovering /\ UNCHANGED journal
        \/ txn.seq = Len(journal) + 1 /\ journal' = Append(journal, txn)
    BY <1>t, <1>7, <2>e DEF WriteJournal, TypeOK, JournalIsExact, StepInv, TxnInv, Events
  <2>a. journal' = Append(journal, txn) =>
          /\ Len(journal') = Len(journal) + 1 /\ Len(journal) \in Nat
          /\ DOMAIN journal' = 1..(Len(journal) + 1) /\ DOMAIN journal = 1..Len(journal)
          /\ \A i \in DOMAIN journal : journal'[i] = journal[i]
          /\ journal'[Len(journal) + 1] = txn
    BY <1>t, <2>e, AppendedJournal DEF TypeOK
  <2>1. JournalIsExact'
    <3>1. CASE UNCHANGED journal
      BY <1>t, <3>1 DEF JournalIsExact
    <3>2. CASE txn.seq = Len(journal) + 1 /\ journal' = Append(journal, txn)
      <4>1. \A i \in DOMAIN journal : txn.key # NoKey => journal[i].key # txn.key
        BY <1>t, <2>e, <3>2, NoEventIsNoEvent DEF TxnInv
      <4>2. \A i \in DOMAIN journal' : journal'[i].seq = i
        BY <1>t, <2>a, <3>2 DEF JournalIsExact
      <4>3. ASSUME NEW i \in DOMAIN journal', NEW j \in DOMAIN journal',
                   journal'[i].key # NoKey, journal'[i].key = journal'[j].key
            PROVE  i = j
        <5>1. CASE i = Len(journal) + 1 \/ j = Len(journal) + 1
          BY <2>a, <3>2, <4>1, <4>3, <5>1
        <5>2. CASE i \in DOMAIN journal /\ j \in DOMAIN journal
          BY <1>t, <2>a, <3>2, <4>3, <5>2 DEF JournalIsExact
        <5>3. QED
          BY <2>a, <3>2, <5>1, <5>2
      <4>4. QED
        BY <4>2, <4>3 DEF JournalIsExact
    <3>3. QED
      BY <2>j, <3>1, <3>2
  <2>2. LockInv'
    BY <1>t, <1>0, <1>7 DEF WriteJournal, LockInv
  <2>3. StepInv'
    BY <1>t, <1>7, <2>e, <2>j, <2>a DEF WriteJournal, StepInv
  <2>4. TxnInv'
    BY <1>t, <1>7, <2>e, <2>j, <2>a, NoEventIsNoEvent DEF WriteJournal, TxnInv, Events
  <2>5. RequestInv'
    BY <1>t, <1>7, <2>e, <2>j, <2>a DEF WriteJournal, RequestInv
  <2>6. AnswerInv'
    BY <1>t, <1>0, <1>7 DEF WriteJournal, AnswerInv, IsOf
  <2>7. KeylessInv'
    BY <1>t, <1>0, <1>7 DEF WriteJournal, KeylessInv, TypeOK, IsOf
  <2>8. QED
    BY <1>0, <2>1, <2>2, <2>3, <2>4, <2>5, <2>6, <2>7 DEF LogInv
<1>8. CASE WriteCursor
  <2>1. JournalIsExact'
    BY <1>t, <1>0, <1>8 DEF WriteCursor, JournalIsExact
  <2>2. LockInv'
    BY <1>t, <1>0, <1>8 DEF WriteCursor, LockInv
  <2>3. StepInv'
    BY <1>t, <1>0, <1>8 DEF WriteCursor, StepInv
  <2>4. TxnInv'
    BY <1>t, <1>0, <1>8 DEF WriteCursor, TxnInv, IsOf
  <2>5. RequestInv'
    BY <1>t, <1>0, <1>8 DEF WriteCursor, RequestInv, TypeOK, StepInv
  <2>6. AnswerInv'
    BY <1>t, <1>0, <1>8 DEF WriteCursor, AnswerInv, IsOf
  <2>7. KeylessInv'
    BY <1>t, <1>0, <1>8 DEF WriteCursor, KeylessInv, IsOf
  <2>8. QED
    BY <1>0, <2>1, <2>2, <2>3, <2>4, <2>5, <2>6, <2>7 DEF LogInv
<1>9. CASE WriteRequest
  <2>1. JournalIsExact'
    BY <1>t, <1>0, <1>9 DEF WriteRequest, JournalIsExact
  <2>2. LockInv'
    BY <1>t, <1>0, <1>9 DEF WriteRequest, LockInv
  <2>3. StepInv'
    BY <1>t, <1>0, <1>9 DEF WriteRequest, StepInv, TypeOK
  <2>4. TxnInv'
    BY <1>t, <1>0, <1>9 DEF WriteRequest, TxnInv, IsOf
  <2>5. RequestInv'
    <3>1. txn \in Events /\ txn # NoEvent /\ txn.seq = Len(journal) /\ journal[Len(journal)] = txn
      BY <1>t, <1>9 DEF WriteRequest, TypeOK, StepInv, TxnInv
    <3>2. Len(journal) \in DOMAIN journal
      BY <1>t, <3>1 DEF TypeOK, Events
    <3>3. \A i \in DOMAIN journal : i # Len(journal) /\ txn.key # NoKey => journal[i].key # txn.key
      BY <1>t, <3>1, <3>2 DEF JournalIsExact
    <3>4. QED
      BY <1>t, <1>9, <3>1, <3>2, <3>3 DEF WriteRequest, RequestInv, TypeOK, Events
  <2>6. AnswerInv'
    BY <1>t, <1>0, <1>9 DEF WriteRequest, AnswerInv, IsOf
  <2>7. KeylessInv'
    BY <1>t, <1>0, <1>9 DEF WriteRequest, KeylessInv, IsOf
  <2>8. QED
    BY <1>0, <2>1, <2>2, <2>3, <2>4, <2>5, <2>6, <2>7 DEF LogInv
<1>10. CASE UNCHANGED vars
  BY <1>t, <1>0, <1>10 DEF vars, LogInv, JournalIsExact, LockInv, StepInv, TxnInv, RequestInv, AnswerInv, KeylessInv, IsOf
<1>11. QED
  BY <1>1, <1>2, <1>3, <1>4, <1>5, <1>6, <1>7, <1>8, <1>9, <1>10 DEF Next

-----------------------------------------------------------------------------
\* An empty log is in order.
LEMMA LogInit == ASSUME Init PROVE LogInv
<1>1. TypeOK
  <2>1. recovering \in BOOLEAN
    BY Zenon DEF Init
  <2>2. QED
    BY <2>1 DEF Init, TypeOK
<1>2. JournalIsExact /\ LockInv /\ StepInv /\ TxnInv
  BY CallsAreFinite DEF Init, JournalIsExact, LockInv, StepInv, TxnInv
<1>3. RequestInv /\ AnswerInv /\ KeylessInv
  BY CallsAreFinite DEF Init, RequestInv, AnswerInv, KeylessInv
<1>4. QED
  BY <1>1, <1>2, <1>3 DEF LogInv

\* The inductive invariant of the journal.
THEOREM LogInvariant == Spec => []LogInv
<1>1. Init => LogInv
  BY LogInit
<1>2. LogInv /\ [Next]_vars => LogInv'
  BY LogStep
<1>3. QED
  BY <1>1, <1>2, PTL DEF Spec

\* The variables keep their types.
THEOREM TypeCorrect == Spec => []TypeOK
BY LogInvariant, PTL DEF LogInv

\* The journal is gapless and holds one event per key, however many appends are
\* interrupted (reconcileAppendTransaction).
THEOREM JournalAlwaysExact == Spec => []JournalIsExact
BY LogInvariant, PTL DEF LogInv

\* The four files agree whenever no transaction is pending.
THEOREM FilesAlwaysAgree == Spec => []FilesAgree
<1>1. LogInv => FilesAgree
  BY DEF LogInv, RequestInv, FilesAgree
<1>2. QED
  BY <1>1, LogInvariant, PTL

-----------------------------------------------------------------------------
(* EventLog implements EventJournal.                                       *)

\* An event more in the journal is its content more in the abstract log.
LEMMA AppendedContents ==
  ASSUME NEW s \in Seq(Events), NEW e \in Events
  PROVE  Contents(Append(s, e)) = Append(Contents(s), [key |-> e.key, payload |-> e.payload])
<1>1. Contents(s) \in Seq([key : Keys \cup {NoKey}, payload : Payloads]) /\ Len(Contents(s)) = Len(s)
  <2> DEFINE C == [key : Keys \cup {NoKey}, payload : Payloads]
  <2>1. ASSUME NEW i \in 1..Len(s) PROVE [key |-> s[i].key, payload |-> s[i].payload] \in C
    <3>1. s[i] \in Events
      OBVIOUS
    <3>2. QED
      BY <3>1 DEF Events
  <2>2. Contents(s) = [i \in 1..Len(s) |-> [key |-> s[i].key, payload |-> s[i].payload]] /\ Len(s) \in Nat
    BY DEF Contents
  <2> HIDE DEF C
  <2>3. Contents(s) \in [1..Len(s) -> C]
    BY <2>1, <2>2
  <2>4. Contents(s) \in Seq(C)
    BY <2>2, <2>3, SeqDef
  <2>5. Len(Contents(s)) = Len(s)
    BY <2>2, <2>3, <2>4, LenProperties
  <2>6. QED
    BY <2>4, <2>5 DEF C
<1>2. \A i \in 1..Len(s) : Contents(s)[i] = [key |-> s[i].key, payload |-> s[i].payload]
  BY DEF Contents
<1>3. QED
  BY <1>1, <1>2, AppendedJournal DEF Contents

\* A step of the journal's files is a step of the abstract journal, or none.
LEMMA AbstractStep ==
  ASSUME LogInv, LogInv', [Next]_vars PROVE [Abstract!Next]_(Abstract!vars)
<1> USE CallsAreFinite DEF fileVars, callVars
<1>t. TypeOK /\ JournalIsExact /\ StepInv /\ TxnInv /\ RequestInv /\ AnswerInv
  BY DEF LogInv
<1>c. \A i \in DOMAIN journal :
        Contents(journal)[i] = [key |-> journal[i].key, payload |-> journal[i].payload]
  BY DEF Contents
<1>d. DOMAIN Contents(journal) = DOMAIN journal
  BY DEF Contents
<1>1. ASSUME NEW c \in Calls, Replay(c) PROVE Abstract!Next
  <2>1. Key[c] \in Keys
    BY <1>1, ContentTypes DEF Replay
  <2>2. /\ requests[Key[c]].seq \in DOMAIN journal
        /\ journal[requests[Key[c]].seq] = requests[Key[c]] /\ requests[Key[c]].key = Key[c]
    BY <1>t, <1>1, <2>1 DEF Replay, RequestInv
  <2>3. CASE requests[Key[c]].payload = Payload[c]
    <3>1. Abstract!Answer(c)
      <4>1. told[c] = 0
        BY <1>t, <1>1 DEF Replay, AnswerInv, LogInv, LockInv
      <4>2. QED
        BY <1>1, <1>c, <1>d, <2>2, <2>3, <4>1 DEF Replay, Abstract!Answer, Abstract!Content
    <3>2. QED
      BY <3>1 DEF Abstract!Next
  <2>4. CASE requests[Key[c]].payload # Payload[c]
    <3>1. Abstract!Refuse(c)
      BY <1>1, <1>c, <1>d, <2>2, <2>4 DEF Replay, Abstract!Refuse
    <3>2. QED
      BY <3>1 DEF Abstract!Next
  <2>5. QED
    BY <2>3, <2>4
<1>2. ASSUME NEW c \in Calls, Finish(c) PROVE Abstract!Next \/ UNCHANGED Abstract!vars
  <2>1. CASE recovering
    BY <1>2, <2>1 DEF Finish, Abstract!vars
  <2>2. CASE ~recovering
    <3>1. /\ txn # NoEvent /\ txn.seq = Len(journal) /\ journal[Len(journal)] = txn
          /\ txn.key = Key[c] /\ txn.payload = Payload[c]
      BY <1>t, <1>2, <2>2 DEF Finish, StepInv, TxnInv
    <3>2. Len(journal) \in DOMAIN journal
      BY <1>t, <3>1 DEF TypeOK, Events
    <3>3. told[c] = 0
      BY <1>t, <1>2 DEF Finish, AnswerInv, LogInv, LockInv
    <3>4. Abstract!Answer(c)
      BY <1>2, <1>c, <1>d, <2>2, <3>1, <3>2, <3>3 DEF Finish, Abstract!Answer, Abstract!Content
    <3>5. QED
      BY <3>4 DEF Abstract!Next
  <2>3. QED
    BY <2>1, <2>2
<1>3. CASE WriteJournal
  <2>1. txn \in Events /\ txn # NoEvent
    BY <1>t, <1>3 DEF WriteJournal, TypeOK, StepInv
  <2>2. CASE UNCHANGED journal
    BY <1>3, <2>2 DEF WriteJournal, Abstract!vars
  <2>3. CASE journal' = Append(journal, txn)
    <3>1. PICK c \in Calls : IsOf(txn, c)
      BY <1>t, <2>1 DEF TxnInv
    <3>2. Contents(journal)' = Append(Contents(journal), Abstract!Content(c))
      BY <1>t, <2>1, <2>3, <3>1, AppendedContents DEF TypeOK, Abstract!Content, IsOf
    <3>3. txn.seq = Len(journal) + 1
      <4>1. CASE txn.seq = Len(journal)
        BY <1>t, <1>3, <2>1, <2>3, <4>1, AppendedJournal
           DEF WriteJournal, TypeOK, StepInv, TxnInv, JournalIsExact, Events
      <4>2. QED
        BY <1>t, <2>1, <4>1 DEF TxnInv
    <3>4. Abstract!IsNew(c)
      BY <1>t, <1>c, <1>d, <2>1, <3>1, <3>3 DEF TxnInv, IsOf, Abstract!IsNew, Abstract!Content
    <3>5. Abstract!Publish(c)
      BY <1>3, <3>2, <3>4 DEF WriteJournal, Abstract!Publish
    <3>6. QED
      BY <3>5 DEF Abstract!Next
  <2>4. QED
    BY <1>3, <2>2, <2>3 DEF WriteJournal
<1>4. ASSUME NEW c \in Calls, Enter(c) \/ WriteTransaction(c) \/ Interrupt(c) \/ Retry(c)
      PROVE  UNCHANGED Abstract!vars
  BY <1>4 DEF Enter, WriteTransaction, Interrupt, Retry, Abstract!vars
<1>5. CASE WriteCursor \/ WriteRequest \/ UNCHANGED vars
  BY <1>5 DEF WriteCursor, WriteRequest, vars, Abstract!vars
<1>6. QED
  BY <1>1, <1>2, <1>3, <1>4, <1>5 DEF Next

\* "replaying the same key and payload returns the original event": the journal
\* of files, interrupted anywhere, is the journal of EventJournal.
THEOREM ImplementsJournal == Spec => Journal
<1>1. Init => Abstract!Init
  BY DEF Init, Abstract!Init, Contents
<1>2. LogInv /\ LogInv' /\ [Next]_vars => [Abstract!Next]_(Abstract!vars)
  BY AbstractStep
<1>3. QED
  BY <1>1, <1>2, LogInvariant, PTL DEF Spec, Journal, Abstract!Spec
=============================================================================
