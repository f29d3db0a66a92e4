---------------------------- MODULE RoomCache_proofs ----------------------------
(***************************************************************************)
(* Proof that a stale list of free rooms always has one of the reasons the *)
(* code allows for, whatever the numbers of windows, rooms and requests.   *)
(***************************************************************************)
EXTENDS RoomCache, TLAPS

\* What changes a room.
RoomChange(r) ==
    \/ \E content \in Contents : RoomCreate(r, content) \/ RoomUpdate(r, content)
    \/ StatusChange(r)
    \/ RoomDelete(r)

\* Whatever a search does next is one of its kinds of step.
LEMMA SearchTypes ==
    /\ Idle \in {Idle} \cup Searching
    /\ \A w \in Windows : [step |-> "query", window |-> w] \in {Idle} \cup Searching
    /\ \A w \in Windows, list \in List :
            [step |-> "fill", window |-> w, list |-> list] \in {Idle} \cup Searching
BY DEF Idle, Searching

\* What the step of a search tells about its other fields.
LEMMA SearchFields ==
    ASSUME TypeOK, NEW s \in Searches
    PROVE  /\ search[s].step = "query" => search[s].window \in Windows
           /\ search[s].step = "fill" => /\ search[s].window \in Windows
                                         /\ search[s].list \in List
<1>1. search[s] \in {Idle} \cup Searching
  BY DEF TypeOK
<1>2. CASE search[s] = Idle
  BY <1>2 DEF Idle
<1>3. CASE search[s] \in [step : {"query"}, window : Windows]
  BY <1>3
<1>4. CASE search[s] \in [step : {"fill"}, window : Windows, list : List]
  BY <1>4
<1> QED
  BY <1>1, <1>2, <1>3, <1>4 DEF Searching

\* A change in progress has sets of windows to scan and to delete.
LEMMA ChangeFields ==
    ASSUME TypeOK, NEW c \in Changes, change[c].step = "invalidate"
    PROVE  change[c] \in Invalidating
<1>1. change[c] \in {Idle} \cup Invalidating
  BY DEF TypeOK
<1> QED
  BY <1>1 DEF Idle

\* The table that a room change makes is one of rows, and keeps the rooms that are busy.
LEMMA RoomChangeTypes ==
    ASSUME TypeOK, NEW r \in Rooms, RoomChange(r)
    PROVE  TypeOK'
<1>1. /\ DOMAIN rooms' \subseteq Rooms
      /\ rooms' \in [DOMAIN rooms' -> Row]
      /\ busy \subseteq (DOMAIN rooms') \X Windows
  <2>1. ASSUME NEW content \in Contents, RoomCreate(r, content)
        PROVE  /\ DOMAIN rooms' \subseteq Rooms
               /\ rooms' \in [DOMAIN rooms' -> Row]
               /\ busy \subseteq (DOMAIN rooms') \X Windows
    BY <2>1 DEF RoomCreate, RoomsBecome, With, TypeOK, Row
  <2>2. ASSUME NEW content \in Contents, RoomUpdate(r, content)
        PROVE  /\ DOMAIN rooms' \subseteq Rooms
               /\ rooms' \in [DOMAIN rooms' -> Row]
               /\ busy \subseteq (DOMAIN rooms') \X Windows
    <3>1. [rooms[r] EXCEPT !.content = content] \in Row
      BY <2>2 DEF RoomUpdate, TypeOK, Row
    <3> QED
      BY <2>2, <3>1 DEF RoomUpdate, RoomsBecome, With, TypeOK
  <2>3. CASE StatusChange(r)
    <3>1. [rooms[r] EXCEPT !.active = ~@] \in Row
      BY <2>3 DEF StatusChange, TypeOK, Row
    <3> QED
      BY <2>3, <3>1 DEF StatusChange, RoomsBecome, With, TypeOK
  <2>4. CASE RoomDelete(r)
    BY <2>4 DEF RoomDelete, RoomsBecome, TypeOK
  <2> QED
    BY <2>1, <2>2, <2>3, <2>4 DEF RoomChange
<1>2. PICK table : RoomsBecome(table)
  BY DEF RoomChange, RoomCreate, RoomUpdate, StatusChange, RoomDelete
<1> QED
  BY <1>1, <1>2, CacheAssumption DEF RoomsBecome, TypeOK

\* No key, no request in flight.
LEMMA InitTypes == Init => TypeOK
<1> SUFFICES ASSUME Init
             PROVE  TypeOK
  OBVIOUS
<1>1. rooms \in [Rooms -> [content : Contents, active : {TRUE}]] /\ DOMAIN rooms = Rooms
  BY DEF Init
<1>2. rooms \in [DOMAIN rooms -> Row]
  BY <1>1 DEF Row
<1>3. cache \in [DOMAIN cache -> List] /\ DOMAIN cache = {}
  BY DEF Init
<1> QED
  BY <1>1, <1>2, <1>3, CacheAssumption, SearchTypes DEF Init, TypeOK

\* Every step leaves keys and requests well formed.
LEMMA NextTypes == TypeOK /\ [Next]_vars => TypeOK'
<1> SUFFICES ASSUME TypeOK, [Next]_vars
             PROVE  TypeOK'
  OBVIOUS
<1> USE CacheAssumption
<1>1. ASSUME NEW s \in Searches, NEW w \in Windows, Miss(s, w)
      PROVE  TypeOK'
  BY <1>1, SearchTypes DEF TypeOK, Miss
<1>2. ASSUME NEW s \in Searches, Query(s)
      PROVE  TypeOK'
  <2>1. search[s].window \in Windows
    BY <1>2, SearchFields DEF Query
  <2>2. Available(search[s].window) \in List
    <3>1. \A r \in DOMAIN rooms : r \in Rooms /\ rooms[r].content \in Contents
      <4> SUFFICES ASSUME NEW r \in DOMAIN rooms
                   PROVE  r \in Rooms /\ rooms[r].content \in Contents
        OBVIOUS
      <4>1. rooms[r] \in Row
        BY DEF TypeOK
      <4> QED
        BY <4>1 DEF TypeOK, Row
    <3>2. \A p \in Available(search[s].window) : p \in Rooms \X Contents
      <4> SUFFICES ASSUME NEW p \in Available(search[s].window)
                   PROVE  p \in Rooms \X Contents
        OBVIOUS
      <4>1. PICK r \in DOMAIN rooms : p = <<r, rooms[r].content>>
        BY DEF Available
      <4> QED
        BY <3>1, <4>1
    <3> QED
      BY <3>2 DEF List
  <2>3. search' = [search EXCEPT ![s] = [step |-> "fill", window |-> search[s].window,
                                         list |-> Available(search[s].window)]]
    BY <1>2 DEF Query
  <2> QED
    BY <1>2, <2>1, <2>2, <2>3, SearchTypes DEF TypeOK, Query
<1>3. ASSUME NEW s \in Searches, Fill(s)
      PROVE  TypeOK'
  <2>1. search[s].window \in Windows /\ search[s].list \in List
    BY <1>3, SearchFields DEF Fill
  <2>2. search' \in [Searches -> {Idle} \cup Searching]
    BY <1>3, SearchTypes DEF TypeOK, Fill
  <2> QED
    BY <1>3, <2>1, <2>2 DEF TypeOK, Fill
<1>4. ASSUME NEW s \in Searches, SearchEnds(s)
      PROVE  TypeOK'
  BY <1>4, SearchTypes DEF TypeOK, SearchEnds
<1>5. ASSUME NEW c \in Changes, NEW r \in Rooms, NEW ws \in SUBSET Windows \ {{}},
             Commit(c, r, ws)
      PROVE  TypeOK'
  <2>1. [step |-> "invalidate", left |-> Windows, found |-> {}] \in {Idle} \cup Invalidating
    BY DEF Invalidating
  <2>2. change' \in [Changes -> {Idle} \cup Invalidating]
    BY <1>5, <2>1 DEF TypeOK, Commit
  <2>3. busy' \subseteq (DOMAIN rooms) \X Windows
    BY <1>5 DEF TypeOK, Commit
  <2> QED
    BY <1>5, <2>2, <2>3 DEF TypeOK, Commit
<1>6. ASSUME NEW c \in Changes, NEW ws \in SUBSET Windows, Scan(c, ws)
      PROVE  TypeOK'
  <2>1. change[c] \in Invalidating
    BY <1>6, ChangeFields DEF Scan
  <2>2. [change[c] EXCEPT !.left = @ \ ws, !.found = @ \cup (ws \cap DOMAIN cache)]
            \in {Idle} \cup Invalidating
    BY <2>1 DEF Invalidating
  <2>3. change' = [change EXCEPT ![c] =
            [change[c] EXCEPT !.left = @ \ ws, !.found = @ \cup (ws \cap DOMAIN cache)]]
    BY <1>6 DEF Scan, TypeOK
  <2>4. change' \in [Changes -> {Idle} \cup Invalidating]
    BY <2>2, <2>3 DEF TypeOK
  <2> QED
    BY <1>6, <2>4 DEF TypeOK, Scan
<1>7. ASSUME NEW c \in Changes, Delete(c) \/ InvalidationFails(c)
      PROVE  TypeOK'
  <2>1. change' \in [Changes -> {Idle} \cup Invalidating]
    BY <1>7 DEF TypeOK, Delete, InvalidationFails
  <2>2. DOMAIN cache' \subseteq Windows /\ cache' \in [DOMAIN cache' -> List]
    <3>1. CASE Delete(c)
      BY <3>1 DEF Delete, Without, TypeOK
    <3>2. CASE InvalidationFails(c)
      BY <3>2 DEF InvalidationFails, TypeOK
    <3> QED
      BY <1>7, <3>1, <3>2
  <2>3. astray' \subseteq Windows
    <3>1. change[c] \in Invalidating
      BY <1>7, ChangeFields DEF Delete, InvalidationFails
    <3> QED
      BY <1>7, <3>1 DEF Delete, InvalidationFails, TypeOK, Invalidating
  <2> QED
    BY <1>7, <2>1, <2>2, <2>3 DEF TypeOK, Delete, InvalidationFails
<1>8. ASSUME NEW r \in Rooms, RoomChange(r)
      PROVE  TypeOK'
  BY <1>8, RoomChangeTypes
<1>9. ASSUME NEW w \in Windows, Expire(w)
      PROVE  TypeOK'
  BY <1>9 DEF TypeOK, Expire, Without
<1>10. CASE UNCHANGED vars
  BY <1>10 DEF TypeOK, vars
<1> QED
  BY <1>1, <1>2, <1>3, <1>4, <1>5, <1>6, <1>7, <1>8, <1>9, <1>10 DEF Next, RoomChange

\* The keys and the requests in flight are well formed in every reachable state.
THEOREM CacheTypeCorrect == Spec => []TypeOK
BY InitTypes, NextTypes, PTL DEF Spec

\* No step makes a list stale without a reason, or takes the reason of a stale list away.
LEMMA NextStaleForAReason ==
    ASSUME TypeOK, StaleForAReason, [Next]_vars
    PROVE  StaleForAReason'
<1> DEFINE Pending(w, c) == /\ change[c].step = "invalidate"
                            /\ w \in change[c].left \cup change[c].found
<1> SUFFICES ASSUME NEW w \in Windows, Stale(w)', w \notin astray'
             PROVE  \E c \in Changes : Pending(w, c)'
  BY DEF StaleForAReason
<1>a. Stale(w) /\ w \notin astray => \E c \in Changes : Pending(w, c)
  BY DEF StaleForAReason
<1>1. ASSUME NEW s \in Searches, NEW v \in Windows, Miss(s, v)
      PROVE  \E c \in Changes : Pending(w, c)'
  BY <1>1, <1>a DEF Miss, Stale, Available
<1>2. ASSUME NEW s \in Searches, Query(s) \/ SearchEnds(s)
      PROVE  \E c \in Changes : Pending(w, c)'
  <2>1. UNCHANGED <<rooms, busy, cache, change, astray>>
    BY <1>2 DEF Query, SearchEnds
  <2>2. Available(w)' = Available(w)
    BY <2>1 DEF Available
  <2> QED
    BY <2>1, <2>2, <1>a DEF Stale
<1>3. ASSUME NEW s \in Searches, Fill(s)
      PROVE  \E c \in Changes : Pending(w, c)'
  <2>1. search[s].window # w
    BY <1>3 DEF Fill, Stale, Available
  <2> QED
    BY <1>3, <2>1, <1>a DEF Fill, Stale, Available
<1>4. ASSUME NEW c \in Changes, NEW r \in Rooms, NEW ws \in SUBSET Windows \ {{}},
             Commit(c, r, ws)
      PROVE  Pending(w, c)'
  BY <1>4 DEF Commit, TypeOK
<1>5. ASSUME NEW c \in Changes, NEW ws \in SUBSET Windows, Scan(c, ws)
      PROVE  \E d \in Changes : Pending(w, d)'
  <2>1. Stale(w) /\ w \notin astray /\ w \in DOMAIN cache
    BY <1>5 DEF Scan, Stale, Available
  <2>2. PICK d \in Changes : Pending(w, d)
    BY <2>1, <1>a
  <2>3. CASE d # c
    BY <1>5, <2>2, <2>3 DEF Scan, TypeOK
  <2>4. CASE d = c
    <3>1. change[c] \in Invalidating
      BY <1>5, ChangeFields DEF Scan
    <3>2. /\ change'[c].step = "invalidate"
          /\ change'[c].left = change[c].left \ ws
          /\ change'[c].found = change[c].found \cup (ws \cap DOMAIN cache)
      BY <1>5, <3>1 DEF Scan, TypeOK, Invalidating
    <3> QED
      BY <2>1, <2>2, <2>4, <3>2
  <2> QED
    BY <2>3, <2>4
<1>6. ASSUME NEW c \in Changes, Delete(c)
      PROVE  \E d \in Changes : Pending(w, d)'
  <2>1. w \notin change[c].found /\ Stale(w) /\ w \notin astray
    BY <1>6 DEF Delete, Stale, Available, Without
  <2>2. PICK d \in Changes : Pending(w, d)
    BY <2>1, <1>a
  <2>3. d # c
    BY <1>6, <2>1, <2>2 DEF Delete
  <2> QED
    BY <1>6, <2>2, <2>3 DEF Delete, TypeOK
<1>7. ASSUME NEW c \in Changes, InvalidationFails(c)
      PROVE  \E d \in Changes : Pending(w, d)'
  <2>1. /\ Stale(w) /\ w \notin astray
        /\ w \notin change[c].left \cup change[c].found
    BY <1>7 DEF InvalidationFails, Stale, Available
  <2>2. PICK d \in Changes : Pending(w, d)
    BY <2>1, <1>a
  <2>3. d # c
    BY <2>1, <2>2
  <2> QED
    BY <1>7, <2>2, <2>3 DEF InvalidationFails, TypeOK
<1>8. ASSUME NEW r \in Rooms, RoomChange(r)
      PROVE  \E c \in Changes : Pending(w, c)'
  <2>1. PICK table : RoomsBecome(table)
    BY <1>8 DEF RoomChange, RoomCreate, RoomUpdate, StatusChange, RoomDelete
  <2>2. Available(w)' = Available(w) /\ w \notin astray
    BY <2>1 DEF RoomsBecome, Stale
  <2>3. Stale(w)
    BY <2>1, <2>2 DEF RoomsBecome, Stale
  <2> QED
    BY <2>1, <2>2, <2>3, <1>a DEF RoomsBecome
<1>9. ASSUME NEW v \in Windows, Expire(v)
      PROVE  \E c \in Changes : Pending(w, c)'
  <2>1. Stale(w) /\ w \notin astray
    BY <1>9 DEF Expire, Stale, Available, Without
  <2> QED
    BY <1>9, <2>1, <1>a DEF Expire
<1>10. CASE UNCHANGED vars
  BY <1>10, <1>a DEF vars, Stale, Available
<1> QED
  BY <1>1, <1>2, <1>3, <1>4, <1>5, <1>6, <1>7, <1>8, <1>9, <1>10 DEF Next, RoomChange

\* A cached list that disagrees with the database is about to be deleted, or escaped
\* through a failed invalidation, an overtaken search or a change of a room that shows in it.
THEOREM StaleHasAReason == Spec => []StaleForAReason
<1>1. Init => StaleForAReason
  BY DEF Init, StaleForAReason, Stale
<1> QED
  BY <1>1, InitTypes, NextTypes, NextStaleForAReason, PTL DEF Spec
===============================================================================
