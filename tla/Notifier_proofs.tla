---------------------------- MODULE Notifier_proofs ----------------------------
(***************************************************************************)
(* Proofs that the notifier loses no notification silently and repeats no  *)
(* processed event, for every log, every number of recipients and every    *)
(* number of faults.                                                       *)
(***************************************************************************)
EXTENDS Notifier, TLAPS

-------------------------------------------------------------------------------
(* The records are well formed. *)

\* A message has a key, and its recipients are users; the bounds are numbers.
LEMMA Messages ==
    /\ Len(Log) \in Nat /\ MaxFaults \in Nat
    /\ \A n \in Offsets : Log[n].key \in Key /\ Recipients(Log[n]) \subseteq User
<1>1. Len(Log) \in Nat /\ \A n \in Offsets : Log[n] \in [key : Key, kind : Kind, owner : User]
  <2> DEFINE M == [key : Key, kind : Kind, owner : User]
  <2>1. Log \in Seq(M)
    BY NotifierAssumption
  <2> HIDE DEF M
  <2>2. Len(Log) \in Nat /\ \A n \in 1 .. Len(Log) : Log[n] \in M
    BY <2>1
  <2> QED
    BY <2>2 DEF M, Offsets
<1>2. \A n \in Offsets : Recipients(Log[n]) \subseteq User
  BY DEF Recipients
<1>3. MaxFaults \in Nat
  BY NotifierAssumption
<1> QED
  BY <1>1, <1>2, <1>3

\* A write that fails leaves what there was, or what there was to be.
LEMMA Written ==
    ASSUME NEW before, NEW after, NEW x \in MayWrite(before, after)
    PROVE  x = before \/ (x = after /\ ~stopping)
BY DEF MayWrite

\* A failed call is counted among the faults and may come with the end of the context.
LEMMA FailsTypes ==
    ASSUME TypeOK, NEW fault, Fails(fault)
    PROVE  stopping' \in BOOLEAN /\ faults' \in 0 .. MaxFaults
<1>1. CASE stopping
  BY <1>1 DEF Fails, TypeOK
<1>2. CASE ~stopping
  <2>1. stopping' \in BOOLEAN
    BY <1>2 DEF Fails, TypeOK
  <2>2. faults < MaxFaults /\ faults' = faults + 1
    BY <1>2 DEF Fails, Disturbed
  <2> QED
    BY <2>1, <2>2, Messages DEF TypeOK
<1> QED
  BY <1>1, <1>2

\* The consumer starts before the first message.
LEMMA InitTypes == Init => TypeOK
<1> SUFFICES ASSUME Init
             PROVE  TypeOK
  OBVIOUS
<1>1. sends \in [Key -> [User -> Nat]]
  BY DEF Init
<1>2. /\ committed \in 0 .. Len(Log) /\ position \in 0 .. Len(Log) /\ hand \in 0 .. Len(Log)
      /\ faults \in 0 .. MaxFaults
  BY Messages DEF Init
<1>3. /\ todo \subseteq User /\ processed \subseteq Key /\ skipped \subseteq Offsets
      /\ dead \subseteq Key \X User /\ unsaved \subseteq Key \X User
  BY DEF Init
<1> QED
  BY <1>1, <1>2, <1>3 DEF Init, TypeOK

\* Every step keeps the offsets within the log and the records well formed.
LEMMA NextTypes == TypeOK /\ [Next]_vars => TypeOK'
<1> SUFFICES ASSUME TypeOK, [Next]_vars
             PROVE  TypeOK'
  OBVIOUS
<1> USE Messages DEF TypeOK, Offsets
<1>1. CASE Fetch
  BY <1>1 DEF Fetch, effects
<1>2. CASE Exit \/ IsProcessed
  BY <1>2 DEF Exit, IsProcessed, Works, effects
<1>3. CASE Plan
  BY <1>3 DEF Plan, effects, Msg
<1>4. ASSUME NEW user \in User, Send(user)
      PROVE  TypeOK'
  <2>1. sends' \in [Key -> [User -> Nat]]
    BY <1>4 DEF Send, Event, Msg
  <2> QED
    BY <1>4, <2>1 DEF Send
<1>5. ASSUME NEW user \in User, SaveDeadLetter(user)
      PROVE  TypeOK'
  <2>1. <<Event, user>> \in Key \X User
    BY <1>5 DEF SaveDeadLetter, Event, Msg
  <2>2. dead' \in {dead, dead \cup {<<Event, user>>}}
    BY <1>5, Written DEF SaveDeadLetter
  <2>3. stopping' \in BOOLEAN /\ faults' \in 0 .. MaxFaults
    BY <1>5, FailsTypes DEF SaveDeadLetter, Works
  <2>4. unsaved' \in {unsaved, unsaved \cup {<<Event, user>>}}
    BY <1>5 DEF SaveDeadLetter
  <2> QED
    BY <1>5, <2>1, <2>2, <2>3, <2>4 DEF SaveDeadLetter
<1>6. CASE MarkProcessed
  BY <1>6 DEF MarkProcessed, Works, Event, Msg
<1>7. CASE HandleFails
  <2>1. hand \in Offsets /\ Event \in Key
    BY <1>7 DEF HandleFails, Event, Msg
  <2>2. processed' \subseteq Key
    BY <1>7, <2>1, Written DEF HandleFails
  <2>3. stopping' \in BOOLEAN /\ faults' \in 0 .. MaxFaults
    BY <1>7, FailsTypes DEF HandleFails
  <2> QED
    BY <1>7, <2>1, <2>2, <2>3 DEF HandleFails
<1>8. CASE Commit
  <2>1. committed' \in 0 .. Len(Log)
    BY <1>8, Written DEF Commit
  <2>2. stopping' \in BOOLEAN /\ faults' \in 0 .. MaxFaults
    BY <1>8, FailsTypes DEF Commit
  <2> QED
    BY <1>8, <2>1, <2>2 DEF Commit
<1>9. CASE Restart
  BY <1>9 DEF Restart, Rewind, effects
<1>10. CASE Rebalance
  BY <1>10 DEF Rebalance, Rewind, Disturbed, effects
<1>11. CASE Crash
  BY <1>11 DEF Crash, Disturbed, effects
<1>12. CASE Sigterm
  <2>1. faults' \in 0 .. MaxFaults /\ stopping' \in BOOLEAN
    BY <1>12 DEF Sigterm, Disturbed
  <2> QED
    BY <1>12, <2>1 DEF Sigterm, effects
<1>13. CASE UNCHANGED vars
  BY <1>13 DEF vars
<1> QED
  BY <1>1, <1>2, <1>3, <1>4, <1>5, <1>6, <1>7, <1>8, <1>9, <1>10, <1>11, <1>12, <1>13
     DEF Next, Step

\* The offsets are within the log and the records well formed in every reachable state.
THEOREM NotifierTypeCorrect == Spec => []TypeOK
BY InitTypes, NextTypes, PTL DEF Spec

-------------------------------------------------------------------------------
(* An event that is worked on is not processed. *)

\* Between the lookup and the mark, the event in hand is not among the processed ones.
Unprocessed == pc \in {"plan", "deliver"} => Event \notin processed

\* Only MarkProcessed, which ends the work on the event, and HandleFails, which gives it
\* up, add to the processed events; only the lookup starts the work.
LEMMA NextUnprocessed ==
    ASSUME TypeOK, Unprocessed, [Next]_vars
    PROVE  Unprocessed'
<1> USE DEF Unprocessed, Event, Msg
<1>1. CASE Fetch \/ Exit \/ IsProcessed
  BY <1>1 DEF Fetch, Exit, IsProcessed, Works, effects
<1>2. CASE Plan
  BY <1>2 DEF Plan, effects
<1>3. ASSUME NEW user \in User, Send(user) \/ SaveDeadLetter(user)
      PROVE  Unprocessed'
  BY <1>3 DEF Send, SaveDeadLetter
<1>4. CASE MarkProcessed \/ HandleFails
  BY <1>4 DEF MarkProcessed, HandleFails
<1>5. CASE Commit \/ Restart
  BY <1>5 DEF Commit, Restart
<1>6. CASE Crash \/ Sigterm \/ Rebalance
  BY <1>6 DEF Crash, Sigterm, Rebalance, Rewind, effects
<1>7. CASE UNCHANGED vars
  BY <1>7 DEF vars
<1> QED
  BY <1>1, <1>2, <1>3, <1>4, <1>5, <1>6, <1>7 DEF Next, Step

\* A step that notifies anyone, or files a dead letter, works on an event that is not
\* processed.
LEMMA StepIsQuiet ==
    ASSUME TypeOK, Unprocessed, [Next]_vars, NEW k \in processed
    PROVE  /\ sends'[k] = sends[k]
           /\ dead' \cap ({k} \X User) = dead \cap ({k} \X User)
<1>1. ASSUME NEW user \in User, Send(user)
      PROVE  sends'[k] = sends[k] /\ UNCHANGED dead
  BY <1>1 DEF Send, Unprocessed, TypeOK
<1>2. ASSUME NEW user \in User, SaveDeadLetter(user)
      PROVE  /\ UNCHANGED sends
             /\ dead' \cap ({k} \X User) = dead \cap ({k} \X User)
  <2>1. Event # k /\ dead' \in {dead, dead \cup {<<Event, user>>}}
    BY <1>2, Written DEF SaveDeadLetter, Unprocessed
  <2>2. <<Event, user>> \notin {k} \X User
    BY <2>1
  <2> QED
    BY <1>2, <2>1, <2>2 DEF SaveDeadLetter
<1>3. CASE ~\E user \in User : Send(user) \/ SaveDeadLetter(user)
  <2>1. UNCHANGED <<sends, dead>>
    BY <1>3 DEF Next, Step, vars, Fetch, Exit, IsProcessed, Plan, MarkProcessed, HandleFails,
                Commit, Restart, Rebalance, Rewind, Crash, Sigterm, effects
  <2> QED
    BY <2>1
<1> QED
  BY <1>1, <1>2, <1>3

\* Once an event is marked as processed nobody is notified of it again, whatever is
\* delivered twice by the topic, a restart or a rebalance.
THEOREM NeverRepeated == Spec => QuietOnceProcessed
<1>1. Init => Unprocessed
  BY DEF Init, Unprocessed
<1>2. TypeOK /\ Unprocessed /\ [Next]_vars =>
        [\A k \in processed : /\ sends'[k] = sends[k]
                              /\ dead' \cap ({k} \X User) = dead \cap ({k} \X User)]_vars
  BY StepIsQuiet
<1> QED
  BY <1>1, <1>2, NotifierTypeCorrect, NextUnprocessed, PTL DEF Spec, QuietOnceProcessed

-------------------------------------------------------------------------------
(* No notification vanishes. *)

\* The notification reached the user, is filed, or was reported as not filed.
Kept(k, user) == Settled(k, user) \/ <<k, user>> \in unsaved

\* The event of the message at n is marked as processed, or there is nothing to do for it.
Handled(n) == Log[n].key \in processed \/ Log[n].kind \in {"poison", "unknown"}

\* The recipients of processed events are accounted for, and the messages before the
\* committed offset were handled unless they were skipped.
Recorded ==
    /\ \A n \in Offsets : Log[n].key \in processed =>
            \A user \in Recipients(Log[n]) : Kept(Log[n].key, user)
    /\ \A n \in Offsets : n <= committed /\ n \notin skipped => Handled(n)

\* A consumer that runs has handled, or skipped, every message up to the reader's place,
\* but for the one in hand.
InOrder ==
    pc # "down" =>
        \A n \in Offsets : n <= position /\ n \notin skipped /\ (n = hand => pc = "fetch")
                               => Handled(n)

\* So it has with every message before the one in hand, which a commit will cover; the one
\* to commit is handled; whoever is not left to notify is accounted for.
InHand ==
    /\ pc \in {"check", "plan", "deliver", "commit"} =>
            \A n \in Offsets : n < hand /\ n \notin skipped => Handled(n)
    /\ pc = "commit" => Handled(hand)
    /\ pc = "deliver" /\ ~stopping => \A user \in Recipients(Msg) \ todo : Kept(Event, user)

Progress == Recorded /\ InOrder /\ InHand

\* What is processed stays processed.
LEMMA HandledStays ==
    ASSUME [Next]_vars, NEW n \in Offsets, Handled(n)
    PROVE  Handled(n)'
<1>1. processed \subseteq processed'
  <2>1. CASE MarkProcessed \/ HandleFails
    BY <2>1, Written DEF MarkProcessed, HandleFails
  <2>2. CASE ~(MarkProcessed \/ HandleFails)
    BY <2>2 DEF Next, Step, vars, Fetch, Exit, IsProcessed, Plan, Send, SaveDeadLetter,
                Commit, Restart, Rebalance, Rewind, Crash, Sigterm, effects
  <2> QED
    BY <2>1, <2>2
<1> QED
  BY <1>1 DEF Handled

\* What is kept stays kept, until a new pass over the event starts.
LEMMA KeptStays ==
    ASSUME TypeOK, [Next]_vars, NEW k \in Key, NEW user \in User, Kept(k, user),
           Plan => k # Event
    PROVE  Kept(k, user)'
<1> USE DEF Kept, Settled
<1>1. ASSUME NEW u \in User, Send(u)
      PROVE  Kept(k, user)'
  <2>1. sends'[k][user] \in {sends[k][user], sends[k][user] + 1} /\ sends[k][user] \in Nat
    BY <1>1 DEF Send, TypeOK
  <2> QED
    BY <1>1, <2>1 DEF Send
<1>2. ASSUME NEW u \in User, SaveDeadLetter(u)
      PROVE  Kept(k, user)'
  <2>1. dead \subseteq dead'
    BY <1>2, Written DEF SaveDeadLetter
  <2> QED
    BY <1>2, <2>1 DEF SaveDeadLetter
<1>3. CASE Plan
  BY <1>3 DEF Plan
<1>4. CASE ~\E u \in User : Plan \/ Send(u) \/ SaveDeadLetter(u)
  <2>1. CASE User = {}
    BY <2>1
  <2>2. CASE User # {}
    BY <1>4, <2>2 DEF Next, Step, vars, Fetch, Exit, IsProcessed, MarkProcessed, HandleFails,
                Commit, Restart, Rebalance, Rewind, Crash, Sigterm, effects
  <2> QED
    BY <2>1, <2>2
<1> QED
  BY <1>1, <1>2, <1>3, <1>4

\* Whoever is accounted for when an event is marked stays so: a new pass starts only over
\* an event that is not processed.
LEMMA ProcessedStaysKept ==
    ASSUME TypeOK, Unprocessed, [Next]_vars,
           NEW n \in Offsets, Log[n].key \in processed,
           NEW user \in Recipients(Log[n]), Kept(Log[n].key, user)
    PROVE  Kept(Log[n].key, user)'
<1>1. Plan => Log[n].key # Event
  BY DEF Plan, Unprocessed
<1> QED
  BY <1>1, KeptStays, Messages

\* When there is nobody left to notify and the context is alive, the recipients of every
\* message of the event in hand are accounted for.
LEMMA NothingLeft ==
    ASSUME TypeOK, InHand, pc = "deliver", todo = {}, ~stopping,
           NEW n \in Offsets, Log[n].key = Event
    PROVE  \A user \in Recipients(Log[n]) : Kept(Log[n].key, user)
<1>1. hand \in Offsets /\ \A user \in Recipients(Msg) : Kept(Event, user)
  BY DEF TypeOK, InHand
<1>2. Recipients(Log[n]) = Recipients(Msg)
  BY <1>1, KeyAssumption DEF Event, Msg
<1> QED
  BY <1>1, <1>2

\* A message is marked as processed when its recipients are accounted for.
LEMMA NextProcessed ==
    ASSUME TypeOK, Unprocessed, Progress, [Next]_vars
    PROVE  \A n \in Offsets : Log[n].key \in processed' =>
                \A user \in Recipients(Log[n]) : Kept(Log[n].key, user)'
<1> SUFFICES ASSUME NEW n \in Offsets, Log[n].key \in processed',
                    NEW user \in Recipients(Log[n])
             PROVE  Kept(Log[n].key, user)'
  OBVIOUS
<1>1. CASE Log[n].key \in processed
  BY <1>1, ProcessedStaysKept DEF Progress, Recorded
<1>2. CASE Log[n].key \notin processed
  <2>1. /\ pc = "deliver" /\ todo = {} /\ ~stopping /\ Log[n].key = Event
        /\ UNCHANGED <<sends, dead, unsaved>>
    <3>1. CASE MarkProcessed
      BY <1>2, <3>1 DEF MarkProcessed, Works
    <3>2. CASE HandleFails
      <4>1. processed' = processed \cup {Event} /\ ~stopping /\ pc = "deliver" /\ todo = {}
        BY <1>2, <3>2, Written DEF HandleFails
      <4> QED
        BY <1>2, <3>2, <4>1 DEF HandleFails
    <3>3. CASE ~(MarkProcessed \/ HandleFails)
      <4>1. processed' = processed
        BY <3>3 DEF Next, Step, vars, Fetch, Exit, IsProcessed, Plan, Send, SaveDeadLetter,
                    Commit, Restart, Rebalance, Rewind, Crash, Sigterm, effects
      <4> QED
        BY <1>2, <4>1
    <3> QED
      BY <3>1, <3>2, <3>3
  <2>2. Kept(Log[n].key, user)
    BY <2>1, NothingLeft DEF Progress
  <2> QED
    BY <2>1, <2>2 DEF Kept, Settled
<1> QED
  BY <1>1, <1>2

\* A commit covers only messages that were handled or skipped.
LEMMA NextCommitted ==
    ASSUME TypeOK, Progress, [Next]_vars
    PROVE  \A n \in Offsets : n <= committed' /\ n \notin skipped' => Handled(n)'
<1> USE DEF Progress, Recorded
<1>a. \A n \in Offsets : Handled(n) => Handled(n)'
  BY HandledStays
<1>1. CASE Commit
  <2>1. hand \in Offsets /\ committed' \in {committed, hand}
        /\ skipped' = skipped \ {hand} /\ Handled(hand)
    BY <1>1, Written DEF Commit, TypeOK, InHand
  <2>2. \A n \in Offsets : n < hand /\ n \notin skipped => Handled(n)
    BY <1>1 DEF Commit, InHand
  <2>3. ASSUME NEW n \in Offsets, n <= committed', n \notin skipped'
        PROVE  Handled(n)
    <3>1. CASE n = hand
      BY <2>1, <3>1
    <3>2. CASE n # hand
      BY <2>1, <2>2, <2>3, <3>2, Messages DEF Offsets
    <3> QED
      BY <3>1, <3>2
  <2> QED
    BY <1>a, <2>3
<1>2. CASE ~Commit
  <2>1. committed' = committed /\ skipped \subseteq skipped'
    BY <1>2 DEF Next, Step, vars, Fetch, Exit, IsProcessed, Plan, Send, SaveDeadLetter,
                MarkProcessed, HandleFails, Restart, Rebalance, Rewind, Crash, Sigterm, effects
  <2> QED
    BY <1>a, <2>1
<1> QED
  BY <1>1, <1>2

\* The reader goes past a message when the one before it is handled or skipped, and jumps
\* only to what is committed.
LEMMA NextInOrder ==
    ASSUME TypeOK, Progress, [Next]_vars
    PROVE  InOrder'
<1> USE DEF Progress, InOrder
<1>a. \A n \in Offsets : Handled(n) => Handled(n)'
  BY HandledStays
<1>1. CASE Fetch
  <2>1. ASSUME NEW n \in Offsets, n <= position', n \notin skipped', n # hand'
        PROVE  Handled(n)
    BY <1>1, <2>1, Messages DEF Fetch, effects, TypeOK, Offsets
  <2>2. pc' # "fetch"
    BY <1>1 DEF Fetch
  <2> QED
    BY <1>a, <2>1, <2>2
<1>2. CASE HandleFails
  <2>1. /\ UNCHANGED <<position, hand>> /\ pc # "down"
        /\ skipped' = skipped \cup {hand}
    BY <1>2 DEF HandleFails
  <2> QED
    BY <1>a, <2>1
<1>3. CASE Commit
  <2>1. /\ UNCHANGED <<position, hand>> /\ pc = "commit"
        /\ skipped' = skipped \ {hand} /\ Handled(hand)
    BY <1>3 DEF Commit, InHand
  <2> QED
    BY <1>a, <2>1
<1>4. CASE Restart \/ Rebalance
  <2>1. position' = committed /\ UNCHANGED skipped
    BY <1>4 DEF Restart, Rebalance, Rewind, effects
  <2> QED
    BY <1>a, <2>1 DEF Recorded
<1>5. CASE Exit \/ Crash
  BY <1>5 DEF Exit, Crash
<1>6. CASE IsProcessed \/ Plan \/ MarkProcessed
  <2>1. UNCHANGED <<position, hand, skipped>> /\ pc \notin {"fetch", "down"} /\ pc' # "fetch"
    BY <1>6 DEF IsProcessed, Plan, MarkProcessed, effects
  <2> QED
    BY <1>a, <2>1
<1>7. CASE Sigterm \/ UNCHANGED vars
  <2>1. UNCHANGED <<position, hand, skipped, pc>>
    BY <1>7 DEF Sigterm, effects, vars
  <2> QED
    BY <1>a, <2>1
<1>8. ASSUME NEW user \in User, Send(user) \/ SaveDeadLetter(user)
      PROVE  InOrder'
  <2>1. UNCHANGED <<position, hand, skipped, pc>>
    BY <1>8 DEF Send, SaveDeadLetter
  <2> QED
    BY <1>a, <2>1
<1> QED
  BY <1>1, <1>2, <1>3, <1>4, <1>5, <1>6, <1>7, <1>8 DEF Next, Step

\* What a commit of the message in hand would cover was handled or skipped.
LEMMA NextBehind ==
    ASSUME TypeOK, Progress, [Next]_vars
    PROVE  /\ pc' \in {"check", "plan", "deliver", "commit"} =>
                    \A n \in Offsets : n < hand' /\ n \notin skipped' => Handled(n)'
           /\ pc' = "commit" => Handled(hand)'
<1> USE DEF Progress, InHand
<1>a. \A n \in Offsets : Handled(n) => Handled(n)'
  BY HandledStays
<1>1. CASE Fetch
  <2>1. ASSUME NEW n \in Offsets, n < hand', n \notin skipped'
        PROVE  Handled(n)
    BY <1>1, <2>1, Messages DEF Fetch, effects, InOrder, TypeOK, Offsets
  <2>2. pc' = "commit" => hand' \in Offsets /\ Log[hand'].kind = "poison"
    BY <1>1, Messages DEF Fetch, TypeOK, Offsets
  <2> QED
    BY <1>a, <2>1, <2>2 DEF Handled
<1>2. CASE IsProcessed
  <2>1. UNCHANGED <<hand, skipped, processed>> /\ pc = "check"
    BY <1>2 DEF IsProcessed, effects
  <2>2. pc' = "commit" => Log[hand].key \in processed
    BY <1>2 DEF IsProcessed, Event, Msg
  <2> QED
    BY <1>a, <2>1, <2>2 DEF Handled
<1>3. CASE Plan
  <2>1. UNCHANGED <<hand, skipped, processed>> /\ pc = "plan"
    BY <1>3 DEF Plan, effects
  <2>2. pc' = "commit" => Log[hand].kind = "unknown"
    BY <1>3 DEF Plan, Msg
  <2> QED
    BY <1>a, <2>1, <2>2 DEF Handled
<1>4. CASE MarkProcessed
  <2>1. UNCHANGED <<hand, skipped>> /\ pc = "deliver" /\ Log[hand].key \in processed'
    BY <1>4 DEF MarkProcessed, Event, Msg
  <2> QED
    BY <1>a, <2>1 DEF Handled
<1>5. CASE Exit \/ HandleFails \/ Commit \/ Restart \/ Crash
  BY <1>5 DEF Exit, HandleFails, Commit, Restart, Crash
<1>6. CASE Rebalance \/ Sigterm \/ UNCHANGED vars
  <2>1. UNCHANGED <<hand, skipped, pc, processed>>
    BY <1>6 DEF Rebalance, Rewind, Sigterm, effects, vars
  <2> QED
    BY <1>a, <2>1 DEF Handled
<1>7. ASSUME NEW user \in User, Send(user) \/ SaveDeadLetter(user)
      PROVE  UNCHANGED <<hand, skipped, pc>> /\ pc = "deliver"
  BY <1>7 DEF Send, SaveDeadLetter
<1>8. CASE \E user \in User : Send(user) \/ SaveDeadLetter(user)
  BY <1>a, <1>7, <1>8
<1> QED
  BY <1>1, <1>2, <1>3, <1>4, <1>5, <1>6, <1>8 DEF Next, Step

\* A recipient leaves the list of those to notify when the notification was sent, filed or
\* reported, as long as the context is alive.
LEMMA NextServed ==
    ASSUME TypeOK, Progress, [Next]_vars
    PROVE  pc' = "deliver" /\ ~stopping' =>
                \A user \in (Recipients(Msg) \ todo)' : Kept(Event, user)'
<1> USE DEF Progress, InHand
<1>1. CASE Plan
  BY <1>1 DEF Plan, effects, Msg
<1>2. ASSUME NEW u \in User, Send(u)
      PROVE  \A user \in (Recipients(Msg) \ todo)' : ~stopping' => Kept(Event, user)'
  <2>1. hand \in Offsets /\ Event \in Key /\ sends[Event][u] \in Nat
    BY <1>2, Messages DEF Send, TypeOK, Event, Msg
  <2>2. Kept(Event, u)'
    <3>1. sends'[Event][u] = sends[Event][u] + 1 /\ Event' = Event
      BY <1>2, <2>1 DEF Send, TypeOK, Event, Msg
    <3> QED
      BY <2>1, <3>1 DEF Kept, Settled
  <2>3. pc = "deliver" /\ UNCHANGED <<hand, stopping>> /\ todo' = todo \ {u} /\ ~Plan
    BY <1>2 DEF Send, Plan
  <2>4. \A user \in Recipients(Msg) \ todo : ~stopping => Kept(Event, user)'
    BY <2>1, <2>3, KeptStays, Messages DEF Event, Msg, Kept, Settled
  <2> QED
    BY <2>2, <2>3, <2>4 DEF Event, Msg
<1>3. ASSUME NEW u \in User, SaveDeadLetter(u)
      PROVE  \A user \in (Recipients(Msg) \ todo)' : ~stopping' => Kept(Event, user)'
  <2>1. hand \in Offsets /\ Event \in Key
    BY <1>3, Messages DEF SaveDeadLetter, TypeOK, Event, Msg
  <2>2. ~stopping' => ~stopping /\ Kept(Event, u)'
    BY <1>3 DEF SaveDeadLetter, Works, Fails, Kept, Settled, Event, Msg
  <2>3. pc = "deliver" /\ UNCHANGED hand /\ todo' = todo \ {u} /\ ~Plan
    BY <1>3 DEF SaveDeadLetter, Plan
  <2>4. \A user \in Recipients(Msg) \ todo : ~stopping => Kept(Event, user)'
    BY <2>1, <2>3, KeptStays, Messages DEF Event, Msg, Kept, Settled
  <2> QED
    BY <2>2, <2>3, <2>4 DEF Event, Msg
<1>4. CASE Fetch \/ Exit \/ IsProcessed \/ MarkProcessed \/ HandleFails \/ Commit
  BY <1>4 DEF Fetch, Exit, IsProcessed, MarkProcessed, HandleFails, Commit
<1>5. CASE Restart \/ Crash
  BY <1>5 DEF Restart, Crash
<1>6. CASE Rebalance \/ Sigterm \/ UNCHANGED vars
  <2>1. UNCHANGED <<hand, pc, todo, sends, dead, unsaved>> /\ (~stopping' => ~stopping)
    BY <1>6 DEF Rebalance, Rewind, Sigterm, effects, vars
  <2> QED
    BY <2>1 DEF Kept, Settled, Event, Msg
<1> QED
  BY <1>1, <1>2, <1>3, <1>4, <1>5, <1>6 DEF Next, Step

\* Once an event is marked as processed, or its offset is committed without its handling
\* having failed, each recipient was notified, has a dead letter, or is one whose dead
\* letter the table failed to take: not a call of a process that was told to stop.
THEOREM NothingEverVanishes == Spec => []NothingVanishes
<1>1. Init => Progress /\ Unprocessed
  BY Messages DEF Init, Progress, Recorded, InOrder, InHand, Unprocessed, Offsets
<1>2. TypeOK /\ Unprocessed /\ Progress /\ [Next]_vars => Progress' /\ Unprocessed'
  <2> SUFFICES ASSUME TypeOK, Unprocessed, Progress, [Next]_vars
               PROVE  Progress' /\ Unprocessed'
    OBVIOUS
  <2>1. Recorded'
    BY NextProcessed, NextCommitted DEF Recorded
  <2>2. InHand'
    BY NextBehind, NextServed DEF InHand, Handled
  <2> QED
    BY <2>1, <2>2, NextInOrder, NextUnprocessed DEF Progress
<1>3. Progress => NothingVanishes
  <2> SUFFICES ASSUME Progress, NEW n \in Offsets, NEW user \in Recipients(Log[n]),
                      Log[n].key \in processed \/ (n <= committed /\ n \notin skipped)
               PROVE  Kept(Log[n].key, user)
    BY DEF NothingVanishes, Kept
  <2>1. Handled(n)
    BY DEF Progress, Recorded, Handled
  <2>2. Log[n].key \in processed
    BY <2>1 DEF Handled, Recipients
  <2> QED
    BY <2>2 DEF Progress, Recorded
<1> QED
  BY <1>1, <1>2, <1>3, NotifierTypeCorrect, PTL DEF Spec
===============================================================================
