------------------------------- MODULE Notifier -------------------------------
(***************************************************************************)
(* The notifier process: a consumer of the topic of booking events         *)
(* (internal/notifications/consumer.go) that hands every event to a        *)
(* dispatcher (dispatcher.go), which looks the event up among those already *)
(* processed, notifies the recipients one by one, files the notifications  *)
(* that fail as dead letters, and marks the event as processed.  Only then *)
(* is the offset committed.                                                *)
(*                                                                         *)
(* The process may crash or be told to stop at any point, each of its      *)
(* calls to the database and to Kafka may fail or be cut short, and after  *)
(* a restart or a rebalance it reads the topic again from the committed    *)
(* offset; a rebalance leaves alone the message it is working on.          *)
(***************************************************************************)
EXTENDS Integers, Sequences

CONSTANTS
    Key,            \* dedup keys of events
    User,           \* whom notifications are sent to
    Admins,         \* the administrators
    Log,            \* one partition of the topic: a message per offset, from 1
    Faults,         \* the calls that fail and the disturbances that happen
    MaxFaults       \* bound: no more faults than this

Kind == {"to_owner", "pending_approval", "unknown", "poison"}

FaultKind == {"dedup", "admins", "mark", "deadletter", "commit",
              "crash", "sigterm", "rebalance"}

ASSUME NotifierAssumption ==
    /\ Admins \subseteq User
    /\ Log \in Seq([key : Key, kind : Kind, owner : User])
    /\ Faults \subseteq FaultKind
    /\ MaxFaults \in Nat

VARIABLES
    committed,      \* the offset up to which the consumer group has committed
    position,       \* where the reader is: the offset before the next to be fetched
    hand,           \* the offset of the message in hand, or of the last one
    pc,             \* where the consumer is in its loop; "down" between runs
    todo,           \* recipients of the event in hand not yet served
    processed,      \* table processed_events
    sends,          \* sends[k][u]: notifications of event k that reached u
    dead,           \* table notification_dead_letter
    unsaved,        \* dead letters the last pass over their event failed to save
    skipped,        \* offsets whose last handling failed, as the log tells
    stopping,       \* SIGTERM was received: the context is cancelled
    faults          \* how many faults there were

vars == <<committed, position, hand, pc, todo, processed, sends, dead, unsaved, skipped,
          stopping, faults>>

\* What a pass over a message may write, apart from its place in the loop.
effects == <<processed, sends, dead, unsaved, skipped>>

Offsets == 1 .. Len(Log)

\* The message in hand and its dedup key.
Msg == Log[hand]
Event == Msg.key

\* Whom the dispatcher notifies of a message.
Recipients(m) == {user \in User : \/ m.kind = "to_owner" /\ user = m.owner
                                  \/ m.kind = "pending_approval" /\ user \in Admins}

\* A key is the id of one event, which the topic may hold several times; a message that
\* does not decode has a key of nobody else.
ASSUME KeyAssumption ==
    \A m, n \in Offsets : Log[m].key = Log[n].key => Recipients(Log[m]) = Recipients(Log[n])

Disturbed(fault) == fault \in Faults /\ faults < MaxFaults /\ faults' = faults + 1

\* A call fails: by a fault of its own, or because its context is cancelled, be it before
\* the call or while it lasts.
Fails(fault) ==
    \/ stopping /\ UNCHANGED <<stopping, faults>>
    \/ ~stopping /\ Disturbed(fault) /\ UNCHANGED stopping
    \/ ~stopping /\ Disturbed("sigterm") /\ stopping' = TRUE

\* A write that fails was made all the same or not; with a cancelled context it is not.
MayWrite(before, after) == {before} \cup (IF stopping THEN {} ELSE {after})

Works == ~stopping /\ UNCHANGED <<stopping, faults>>

-------------------------------------------------------------------------------
(* The loop of the consumer. *)

\* A message that does not decode is passed over.  A cancelled context and a message
\* at hand are both ready: either may be taken.
Fetch ==
    /\ pc = "fetch"
    /\ position < Len(Log)
    /\ position' = position + 1
    /\ hand' = position + 1
    /\ pc' = IF Log[position + 1].kind = "poison" THEN "commit" ELSE "check"
    /\ UNCHANGED <<committed, todo, effects, stopping, faults>>

Exit ==
    /\ pc = "fetch"
    /\ stopping
    /\ pc' = "down"
    /\ UNCHANGED <<committed, position, hand, todo, effects, stopping, faults>>

\* Fault: nothing looks the event up.
IsProcessed_Blind ==
    /\ pc = "check"
    /\ Works
    /\ pc' = "plan"
    /\ UNCHANGED <<committed, position, hand, todo, effects>>

\* An event that was processed needs nothing but the commit.
IsProcessed ==
    /\ pc = "check"
    /\ Works
    /\ pc' = IF Event \in processed THEN "commit" ELSE "plan"
    /\ UNCHANGED <<committed, position, hand, todo, effects>>

\* An event of an unknown type is not handled and not marked.  The administrators are
\* read from the database.  With a new pass the log's reports of the last one are stale.
Plan ==
    /\ pc = "plan"
    /\ Msg.kind = "pending_approval" => ~stopping
    /\ pc' = IF Msg.kind = "unknown" THEN "commit" ELSE "deliver"
    /\ todo' = Recipients(Msg)
    /\ unsaved' = unsaved \ ({Event} \X User)
    /\ UNCHANGED <<committed, position, hand, processed, sends, dead, skipped, stopping,
                   faults>>

\* One of the attempts to send succeeds.
Send(user) ==
    /\ pc = "deliver" /\ user \in todo
    /\ todo' = todo \ {user}
    /\ sends' = [sends EXCEPT ![Event][user] = @ + 1]
    /\ UNCHANGED <<committed, position, hand, pc, processed, dead, unsaved, skipped,
                   stopping, faults>>

\* Fault: the notification is dropped when the last attempt fails.
SaveDeadLetter_Dropped(user) ==
    /\ pc = "deliver" /\ user \in todo
    /\ todo' = todo \ {user}
    /\ UNCHANGED <<committed, position, hand, pc, effects, stopping, faults>>

\* All attempts fail and the notification is filed.  When filing it fails too, the loop
\* over the recipients goes on; the failures of the table itself are kept account of.
SaveDeadLetter(user) ==
    /\ pc = "deliver" /\ user \in todo
    /\ todo' = todo \ {user}
    /\ \/ Works /\ dead' = dead \cup {<<Event, user>>} /\ UNCHANGED unsaved
       \/ /\ Fails("deadletter")
          /\ dead' \in MayWrite(dead, dead \cup {<<Event, user>>})
          /\ unsaved' = IF stopping' THEN unsaved ELSE unsaved \cup {<<Event, user>>}
    /\ UNCHANGED <<committed, position, hand, pc, processed, sends, skipped>>

MarkProcessed ==
    /\ pc = "deliver" /\ todo = {}
    /\ Works
    /\ processed' = processed \cup {Event}
    /\ pc' = "commit"
    /\ UNCHANGED <<committed, position, hand, todo, sends, dead, unsaved, skipped>>

\* Handle returns an error: the consumer logs that the event will be delivered again
\* and fetches the next message.
HandleFails ==
    /\ \/ pc = "check" /\ Fails("dedup") /\ UNCHANGED processed
       \/ /\ pc = "plan" /\ Msg.kind = "pending_approval"
          /\ Fails("admins")
          /\ UNCHANGED processed
       \/ /\ pc = "deliver" /\ todo = {}
          /\ Fails("mark")
          /\ processed' \in MayWrite(processed, processed \cup {Event})
    /\ pc' = "fetch"
    /\ skipped' = skipped \cup {hand}
    /\ UNCHANGED <<committed, position, hand, todo, sends, dead, unsaved>>

\* Fault: the committed offset is one too far.
Commit_OneTooFar ==
    /\ pc = "commit"
    /\ pc' = "fetch"
    /\ committed' = hand + 1
    /\ skipped' = skipped \ {hand}
    /\ UNCHANGED <<position, hand, todo, processed, sends, dead, unsaved, stopping, faults>>

\* A commit covers every offset before it.  When it fails, that is only logged.
Commit ==
    /\ pc = "commit"
    /\ pc' = "fetch"
    /\ \/ committed' = hand /\ UNCHANGED <<stopping, faults>>
       \/ Fails("commit") /\ committed' \in MayWrite(committed, hand)
    /\ skipped' = skipped \ {hand}
    /\ UNCHANGED <<position, hand, todo, processed, sends, dead, unsaved>>

-------------------------------------------------------------------------------
(* Disturbances. *)

\* The process dies, or its Run returns the error of a read.
Crash ==
    /\ pc # "down"
    /\ Disturbed("crash")
    /\ pc' = "down"
    /\ todo' = {}
    /\ UNCHANGED <<committed, position, hand, effects, stopping>>

Sigterm ==
    /\ pc # "down" /\ ~stopping
    /\ Disturbed("sigterm")
    /\ stopping' = TRUE
    /\ UNCHANGED <<committed, position, hand, pc, todo, effects>>

\* Fault: a new reader starts at the end of the topic.
Rewind_ToEnd ==
    /\ position' = Len(Log)
    /\ UNCHANGED <<committed, hand, todo, effects>>

\* The reader goes back, or forth, to the committed offset.
Rewind ==
    /\ position' = committed
    /\ UNCHANGED <<committed, hand, todo, effects>>

\* restart: unless-stopped
Restart ==
    /\ pc = "down"
    /\ pc' = "fetch"
    /\ stopping' = FALSE
    /\ Rewind
    /\ UNCHANGED faults

\* The group rebalances, in the reader's own goroutines, wherever the loop is: the work on
\* the message in hand goes on, and its commit is made in the new generation.
Rebalance ==
    /\ pc # "down"
    /\ Disturbed("rebalance")
    /\ Rewind
    /\ UNCHANGED <<pc, stopping>>

-------------------------------------------------------------------------------
Init == /\ committed = 0
        /\ position = 0
        /\ hand = 0
        /\ pc = "fetch"
        /\ todo = {}
        /\ processed = {}
        /\ sends = [k \in Key |-> [u \in User |-> 0]]
        /\ dead = {}
        /\ unsaved = {}
        /\ skipped = {}
        /\ stopping = FALSE
        /\ faults = 0

Step == \/ Fetch
        \/ Exit
        \/ IsProcessed
        \/ Plan
        \/ \E user \in User : Send(user) \/ SaveDeadLetter(user)
        \/ MarkProcessed
        \/ HandleFails
        \/ Commit
        \/ Restart

Next == Step \/ Crash \/ Sigterm \/ Rebalance

\* The process does not rest while it has something to do, and is restarted.
Spec == Init /\ [][Next]_vars /\ WF_vars(Step)

-------------------------------------------------------------------------------
(* Properties. *)

\* The offsets are within the log and the records well formed.
TypeOK == /\ committed \in 0 .. Len(Log)
          /\ position \in 0 .. Len(Log)
          /\ hand \in 0 .. Len(Log)
          /\ pc \in {"fetch", "check", "plan", "deliver", "commit", "down"}
          /\ pc \notin {"fetch", "down"} => hand \in Offsets
          /\ todo \subseteq User
          /\ processed \subseteq Key
          /\ sends \in [Key -> [User -> Nat]]
          /\ dead \subseteq Key \X User
          /\ unsaved \subseteq Key \X User
          /\ skipped \subseteq Offsets
          /\ stopping \in BOOLEAN
          /\ faults \in 0 .. MaxFaults

\* The user was notified of the event, or the notification is kept as a dead letter.
Settled(k, user) == sends[k][user] > 0 \/ <<k, user>> \in dead

\* No notification disappears without an error in the log, whatever fails and wherever
\* the process stops: once an event is marked as processed, each of its recipients was
\* notified or has a dead letter, save for the dead letters their table failed to take; and
\* once its offset is committed so has each, unless its last handling failed.  A stop in
\* the middle of the deliveries is no excuse: the event is then not marked.
NothingVanishes ==
    \A n \in Offsets : \A user \in Recipients(Log[n]) :
        LET k == Log[n].key
        IN  (k \in processed \/ (n <= committed /\ n \notin skipped))
                => Settled(k, user) \/ <<k, user>> \in unsaved

\* A processed event is never notified again, be it that its message comes back after a
\* restart or a rebalance, or that the topic holds the event twice.
QuietOnceProcessed ==
    [][ \A k \in processed : /\ sends'[k] = sends[k]
                             /\ dead' \cap ({k} \X User) = dead \cap ({k} \X User) ]_vars

\* Every event is dealt with in the end, in spite of crashes, stops and failed calls: an
\* dead letter its table did not take, or a failed handling that no restart repeats, is
\* the exception.
AllSettled ==
    <>[](\A n \in Offsets \ skipped : \A user \in Recipients(Log[n]) :
            \/ Settled(Log[n].key, user)
            \/ <<Log[n].key, user>> \in unsaved)

\* notifications/spec.md:93-95, consumer.go:75-77: an event is not lost, its offset is not
\* committed before it was handled.  The code does not keep this when a handling fails.
AtLeastOnce ==
    \A n \in 1 .. committed : \A user \in Recipients(Log[n]) : Settled(Log[n].key, user)
===============================================================================
