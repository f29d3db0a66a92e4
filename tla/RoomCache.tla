------------------------------- MODULE RoomCache -------------------------------
(***************************************************************************)
(* The cache of free rooms: Redis keys rooms:available:<window>            *)
(* (internal/cache/redis.go), filled by searches that miss                 *)
(* (Booking.GetAvailableRooms) and emptied by every request that changed a *)
(* booking (invalidateRoomCache), after its commit.                        *)
(*                                                                         *)
(* A search asks the cache, then the database, then fills the cache; an    *)
(* invalidation scans for keys, batch by batch, and then deletes what it   *)
(* found.  These steps interleave freely with each other, with commits and *)
(* with the end of an entry's TTL.                                         *)
(***************************************************************************)
EXTENDS Integers

CONSTANTS
    Rooms,          \* rooms that may exist
    Contents,       \* what the row of a room says, but for its status
    Windows,        \* the intervals that are searched
    Searches,       \* searches in flight at one time
    Changes,        \* requests that change bookings, in flight at one time
    MaxChanges      \* bound: no more changes of rooms and bookings than this

ASSUME CacheAssumption == MaxChanges \in Nat

VARIABLES
    rooms,          \* table rooms: the rows of the rooms that exist, by id
    busy,           \* pairs of a room and a window that an active booking overlaps
    changed,        \* how many changes there were
    cache,          \* the keys in Redis: cached lists by window
    search,         \* what each search is about to do
    change,         \* what each changing request is about to do
    astray          \* windows whose entry is stale for a reason that no request mends

vars == <<rooms, busy, changed, cache, search, change, astray>>

Row == [content : Contents, active : BOOLEAN]

\* A list of rooms holds their rows, all of them active.
List == SUBSET (Rooms \X Contents)

\* What a query of the database answers for a window.
Available(w) ==
    {<<r, rooms[r].content>> : r \in {x \in DOMAIN rooms : rooms[x].active /\ <<x, w>> \notin busy}}

Stale(w) == w \in DOMAIN cache /\ cache[w] # Available(w)

Without(ws) == [w \in DOMAIN cache \ ws |-> cache[w]]

Idle == [step |-> "idle"]

\* A search that asks the database, one that fills the cache with what it was told.
Searching == [step : {"query"}, window : Windows]
        \cup [step : {"fill"}, window : Windows, list : List]

\* A request whose commit has left windows to scan, or keys to delete.
Invalidating == [step : {"invalidate"}, left : SUBSET Windows, found : SUBSET Windows]

-------------------------------------------------------------------------------
(* Searches. *)

\* The window is not cached, or Redis does not answer.  A hit changes nothing.
Miss(s, w) ==
    /\ search[s] = Idle
    /\ search' = [search EXCEPT ![s] = [step |-> "query", window |-> w]]
    /\ UNCHANGED <<rooms, busy, changed, cache, change, astray>>

Query(s) ==
    /\ search[s].step = "query"
    /\ search' = [search EXCEPT ![s] = [step |-> "fill", window |-> @.window,
                                        list |-> Available(@.window)]]
    /\ UNCHANGED <<rooms, busy, changed, cache, change, astray>>

\* The list may be out of date by now: whoever made it so may have scanned already.
Fill(s) ==
    /\ search[s].step = "fill"
    /\ LET w == search[s].window
           list == search[s].list
       IN  /\ cache' = [v \in DOMAIN cache \cup {w} |-> IF v = w THEN list ELSE cache[v]]
           /\ astray' = IF list = Available(w) THEN astray \ {w} ELSE astray \cup {w}
    /\ search' = [search EXCEPT ![s] = Idle]
    /\ UNCHANGED <<rooms, busy, changed, change>>

\* The database or Redis fails, or the request is cut off.
SearchEnds(s) ==
    /\ search[s] # Idle
    /\ search' = [search EXCEPT ![s] = Idle]
    /\ UNCHANGED <<rooms, busy, changed, cache, change, astray>>

-------------------------------------------------------------------------------
(* Changes of bookings. *)

\* A booking takes a room in some windows, or gives it up.
Commit(c, r, ws) ==
    /\ change[c] = Idle
    /\ changed < MaxChanges
    /\ r \in DOMAIN rooms
    /\ \/ ({r} \X ws) \cap busy = {} /\ busy' = busy \cup ({r} \X ws)
       \/ ({r} \X ws) \subseteq busy /\ busy' = busy \ ({r} \X ws)
    /\ changed' = changed + 1
    /\ change' = [change EXCEPT ![c] = [step |-> "invalidate", left |-> Windows,
                                        found |-> {}]]
    /\ UNCHANGED <<rooms, cache, search, astray>>

\* Fault: the scan ends after its first batch.
Scan_OneBatch(c, ws) ==
    /\ change[c].step = "invalidate"
    /\ ws # {} /\ ws \subseteq change[c].left
    /\ change' = [change EXCEPT ![c] = [step |-> "invalidate", left |-> {},
                                        found |-> ws \cap DOMAIN cache]]
    /\ UNCHANGED <<rooms, busy, changed, cache, search, astray>>

\* A batch of SCAN: it returns those of the keys it passes that are there.
Scan(c, ws) ==
    /\ change[c].step = "invalidate"
    /\ ws # {} /\ ws \subseteq change[c].left
    /\ change' = [change EXCEPT ![c].left = @ \ ws,
                                ![c].found = @ \cup (ws \cap DOMAIN cache)]
    /\ UNCHANGED <<rooms, busy, changed, cache, search, astray>>

\* DEL of the keys found, whatever they hold by now.
Delete(c) ==
    /\ change[c].step = "invalidate" /\ change[c].left = {}
    /\ cache' = Without(change[c].found)
    /\ astray' = astray \ change[c].found
    /\ change' = [change EXCEPT ![c] = Idle]
    /\ UNCHANGED <<rooms, busy, changed, search>>

\* Redis fails, or the request is cut off: only a warning is logged, and what it would have
\* deleted stays.
InvalidationFails(c) ==
    /\ change[c].step = "invalidate"
    /\ astray' = astray \cup {w \in change[c].left \cup change[c].found : Stale(w)}
    /\ change' = [change EXCEPT ![c] = Idle]
    /\ UNCHANGED <<rooms, busy, changed, cache, search>>

-------------------------------------------------------------------------------
(* Changes of rooms.  None of them invalidates. *)

\* The table of rooms becomes another: cached lists that it would answer otherwise go stale.
RoomsBecome(table) ==
    /\ changed < MaxChanges
    /\ changed' = changed + 1
    /\ rooms' = table
    /\ UNCHANGED <<busy, cache, search, change>>
    /\ astray' = astray \cup {w \in DOMAIN cache : Available(w)' # Available(w)}

With(r, row) == [x \in DOMAIN rooms \cup {r} |-> IF x = r THEN row ELSE rooms[x]]

RoomCreate(r, content) ==
    /\ r \notin DOMAIN rooms
    /\ RoomsBecome(With(r, [content |-> content, active |-> TRUE]))

\* The name, the capacity, the floor or the equipment change, all of which the lists hold.
RoomUpdate(r, content) ==
    /\ r \in DOMAIN rooms
    /\ RoomsBecome(With(r, [rooms[r] EXCEPT !.content = content]))

\* An operator, or an update that writes back the status it had read.
StatusChange(r) ==
    /\ r \in DOMAIN rooms
    /\ RoomsBecome(With(r, [rooms[r] EXCEPT !.active = ~@]))

\* Fault: a room is deleted with its bookings.
RoomDelete_Anyway(r) ==
    /\ r \in DOMAIN rooms
    /\ RoomsBecome([x \in DOMAIN rooms \ {r} |-> rooms[x]])

RoomDelete(r) ==
    /\ r \in DOMAIN rooms
    /\ ({r} \X Windows) \cap busy = {}
    /\ RoomsBecome([x \in DOMAIN rooms \ {r} |-> rooms[x]])

-------------------------------------------------------------------------------
(* The rest of the world. *)

\* Fault: entries have no TTL.
Expire_Never(w) == FALSE /\ UNCHANGED vars

Expire(w) ==
    /\ w \in DOMAIN cache
    /\ cache' = Without({w})
    /\ astray' = astray \ {w}
    /\ UNCHANGED <<rooms, busy, changed, search, change>>

Init == /\ rooms \in [Rooms -> [content : Contents, active : {TRUE}]]
        /\ busy = {}
        /\ changed = 0
        /\ cache = [w \in {} |-> {}]
        /\ search = [s \in Searches |-> Idle]
        /\ change = [c \in Changes |-> Idle]
        /\ astray = {}

Next ==
    \/ \E s \in Searches : \/ \E w \in Windows : Miss(s, w)
                           \/ Query(s) \/ Fill(s) \/ SearchEnds(s)
    \/ \E c \in Changes : \/ \E r \in Rooms, ws \in SUBSET Windows \ {{}} : Commit(c, r, ws)
                          \/ \E ws \in SUBSET Windows : Scan(c, ws)
                          \/ Delete(c) \/ InvalidationFails(c)
    \/ \E r \in Rooms : \/ \E content \in Contents : RoomCreate(r, content) \/ RoomUpdate(r, content)
                        \/ StatusChange(r) \/ RoomDelete(r)
    \/ \E w \in Windows : Expire(w)

\* Requests end (the router cuts them off after 30 seconds), and so does every TTL.
Fairness ==
    /\ \A s \in Searches : WF_vars(Query(s) \/ Fill(s) \/ SearchEnds(s))
    /\ \A w \in Windows : WF_vars(Expire(w))

Spec == Init /\ [][Next]_vars /\ Fairness

-------------------------------------------------------------------------------
(* Properties. *)

\* The keys and the requests are well formed.
TypeOK == /\ DOMAIN rooms \subseteq Rooms
          /\ rooms \in [DOMAIN rooms -> Row]
          /\ busy \subseteq (DOMAIN rooms) \X Windows
          /\ changed \in 0 .. MaxChanges
          /\ DOMAIN cache \subseteq Windows
          /\ cache \in [DOMAIN cache -> List]
          /\ search \in [Searches -> {Idle} \cup Searching]
          /\ change \in [Changes -> {Idle} \cup Invalidating]
          /\ astray \subseteq Windows

\* A cached list that disagrees with the database has a reason: a request that changed a
\* booking has yet to delete it; or its invalidation failed, the search that filled it was
\* overtaken by a change, or a room that this list should show, hide or show otherwise was
\* created, updated, deleted, put out of service or put back.
StaleForAReason ==
    \A w \in Windows : Stale(w) =>
        \/ w \in astray
        \/ \E c \in Changes : /\ change[c].step = "invalidate"
                              /\ w \in change[c].left \cup change[c].found

\* Whatever failed and whoever was overtaken, a stale list does not stay: when nothing
\* changes any more, the cache agrees with the database in the end.
EventuallyFresh == <>[](\A w \in Windows : ~Stale(w))
===============================================================================
