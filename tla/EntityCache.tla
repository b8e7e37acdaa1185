---------------------------- MODULE EntityCache ----------------------------
(***************************************************************************)
(* The user cache of one replica of the compliance entity (cachedUserService  *)
(* over cache.Cache): it keeps each user under his id and under his uuid for   *)
(* TTL, fills both on a miss, and forgets both when a user is written through  *)
(* this replica.  The other replicas share only the database.  A request's     *)
(* queries and its steps on the cache interleave with those of the others.    *)
(*                                                                         *)
(* A user's contents are his status and the versions of his row and of his    *)
(* team memberships, which a read fetches one after the other.  uuids never    *)
(* change, so an entry under a uuid is named by its user.  An expired entry    *)
(* reads as absent, and is.                                                  *)
(***************************************************************************)
EXTENDS Naturals, Sequences

CONSTANTS
    Requests,    \* handlers under way at the same time
    People,
    TTL,         \* the time to live, in ticks
    MaxWrites,   \* bound: writes to one row
    Missing      \* neither a row nor an entry

VARIABLES
    db,          \* the rows of `user` with their teams
    cache,       \* the two caches
    request,     \* what each request is doing
    settled      \* history: the versions that each user's latest answered write
                 \* through this replica has left

cacheVars == <<db, cache, request, settled>>

CacheKeys == { "byID", "byUUID" }
Versions  == [ row : 0..MaxWrites, teams : 0..MaxWrites ]

\* uuid: the row has one.
Contents == [ status : { "ACTIVE", "INACTIVE" }, uuid : BOOLEAN,
              row : 0..MaxWrites, teams : 0..MaxWrites ]

ASSUME CacheAssumption ==
    /\ TTL \in Nat \ {0} /\ MaxWrites \in Nat
    /\ People # {} /\ Missing \notin Contents

NewUser    == [ status |-> "ACTIVE", uuid |-> TRUE, row |-> 0, teams |-> 0 ]
LegacyUser == [ NewUser EXCEPT !.uuid = FALSE ]

\* raced: history, the user was forgotten while this entry's contents were on their way.
Entry == [ user : Contents, left : 1..TTL, raced : BOOLEAN ]

\* keys: the entries a request has yet to set or to delete.
Request == [ pc : { "idle", "row", "teams", "remember", "forgetOld", "write", "read back", "forget" },
             op : { "byID", "byUUID", "create", "update" }, user : People,
             found : Contents, keys : Seq(CacheKeys), raced : BOOLEAN ]

CacheTypeOK ==
    /\ db \in [ People -> Contents \cup { Missing } ]
    /\ cache \in [ CacheKeys -> [ People -> Entry \cup { Missing } ] ]
    /\ request \in [ Requests -> Request ]
    /\ settled \in [ People -> Versions ]

NoRequest == [ pc |-> "idle", op |-> "byID", user |-> CHOOSE u \in People : TRUE,
               found |-> NewUser, keys |-> <<>>, raced |-> FALSE ]

NothingCached == [ k \in CacheKeys |-> [ u \in People |-> Missing ] ]

CacheInit ==
    /\ db \in [ People -> { NewUser, LegacyUser, Missing } ]
    /\ cache = NothingCached
    /\ request = [ h \in Requests |-> NoRequest ]
    /\ settled = [ u \in People |-> [ row |-> 0, teams |-> 0 ] ]

Cached(k, u) == cache[k][u] # Missing

\* The keys remember sets and forget deletes, in this order.
KeysOf(c) == IF c.uuid THEN <<"byID", "byUUID">> ELSE <<"byID">>

\* u can be named by a uuid.
Named(u) == db[u] # Missing => db[u].uuid

New(op, u, pc) == [ NoRequest EXCEPT !.pc = pc, !.op = op, !.user = u ]

Begin(h, q) == request[h].pc = "idle" /\ request' = [ request EXCEPT ![h] = q ]

End(h) == request' = [ request EXCEPT ![h] = NoRequest ]

-----------------------------------------------------------------------------
(* GetUserByID and GetUserByUUID, each named by the cache it looks into.  A hit       *)
(* changes nothing. *)

Miss(h, k, u) ==
    /\ k = "byUUID" => Named(u)
    /\ ~Cached(k, u)
    /\ Begin(h, New(k, u, "row"))
    /\ UNCHANGED <<db, cache, settled>>

\* The query by uuid is restricted to active users.
Selects(k, u) == db[u] # Missing /\ (k = "byUUID" => db[u].status = "ACTIVE")

ReadRow(h) ==
    LET q == request[h] IN
    /\ q.pc = "row"
    /\ IF Selects(q.op, q.user)
         THEN request' = [ request EXCEPT ![h].pc = "teams",
                  ![h].found = [ db[q.user] EXCEPT !.teams = 0 ] ]
         ELSE End(h)
    /\ UNCHANGED <<db, cache, settled>>

ReadTeams(h) ==
    LET q == request[h] IN
    /\ q.pc = "teams"
    /\ request' = [ request EXCEPT ![h].pc = "remember",
           ![h].found.teams = db[q.user].teams, ![h].keys = KeysOf(q.found) ]
    /\ UNCHANGED <<db, cache, settled>>

\* remember, one Set at a time; each gives its entry a fresh TTL.
Remember(h) ==
    LET q == request[h] IN
    /\ q.pc = "remember"
    /\ cache' = [ cache EXCEPT ![Head(q.keys)][q.user] =
           [ user |-> q.found, left |-> TTL, raced |-> q.raced ] ]
    /\ IF Len(q.keys) = 1 THEN End(h) ELSE request' = [ request EXCEPT ![h].keys = Tail(@) ]
    /\ UNCHANGED <<db, settled>>

-----------------------------------------------------------------------------
(* CreateUser and UpdateUser. *)

\* CreateUser, an upsert on the uuid, first forgets the user it finds under it ...
StartCreate(h, u) ==
    /\ Named(u)
    /\ Begin(h, IF Cached("byUUID", u)
                  THEN [ New("create", u, "forgetOld") EXCEPT
                           !.keys = KeysOf(cache["byUUID"][u].user) ]
                  ELSE New("create", u, "write"))
    /\ UNCHANGED <<db, cache, settled>>

\* ... UpdateUser remembers whom it found, to forget him afterwards.
StartUpdate(h, u) ==
    /\ Begin(h, [ New("update", u, "write") EXCEPT !.keys =
                    IF Cached("byID", u) THEN KeysOf(cache["byID"][u].user) ELSE <<>> ])
    /\ UNCHANGED <<db, cache, settled>>

\* What a committed write can leave; without a row there is nobody to update.
Committed(op, u) ==
    IF db[u] = Missing THEN IF op = "create" THEN { NewUser } ELSE {}
    ELSE IF op = "create" THEN { [ db[u] EXCEPT !.row = @ + 1 ] }
    ELSE { [ db[u] EXCEPT !.status = s, !.row = @ + 1, !.teams = t ] :
             s \in { "ACTIVE", "INACTIVE" }, t \in { db[u].teams, db[u].row + 1 } }

MayWrite(u) == db[u] # Missing => db[u].row < MaxWrites

\* One transaction.
Write(h) ==
    LET q == request[h] IN
    /\ q.pc = "write" /\ MayWrite(q.user)
    /\ \E c \in Committed(q.op, q.user) :
           /\ db' = [ db EXCEPT ![q.user] = c ]
           /\ request' = [ request EXCEPT ![h].pc = "read back", ![h].found = c ]
    /\ UNCHANGED <<cache, settled>>

\* Mutant: the entry under the uuid stays.
KeysByID(q) == <<"byID">>

\* Those of the user found before the write, then those of the user it left.
KeysToForget(q) == q.keys \o KeysOf(q.found)

\* The write answers with the user it reads back; without it nobody is forgotten.
ReadBack(h) ==
    LET q == request[h] IN
    /\ q.pc = "read back"
    /\ request' = [ request EXCEPT ![h].pc = "forget", ![h].keys = KeysToForget(q) ]
    /\ UNCHANGED <<db, cache, settled>>

\* A request that has read the user before he is forgotten.
Overtaken(g, q) ==
    /\ request[g].pc \in { "teams", "remember" }
    /\ request[g].user = q.user

Forgotten(q) == [ cache EXCEPT ![Head(q.keys)][q.user] = Missing ]

ForgetOld(h) ==
    LET q == request[h] IN
    /\ q.pc = "forgetOld"
    /\ cache' = Forgotten(q)
    /\ request' = [ request EXCEPT ![h].keys = Tail(@),
           ![h].pc = IF Len(q.keys) = 1 THEN "write" ELSE @ ]
    /\ UNCHANGED <<db, settled>>

Forget(h) ==
    LET q == request[h]
        done == Len(q.keys) = 1
    IN
    /\ q.pc = "forget"
    /\ cache' = Forgotten(q)
    /\ request' = [ g \in Requests |->
           IF g = h THEN IF done THEN NoRequest ELSE [ q EXCEPT !.keys = Tail(@) ]
                    ELSE [ request[g] EXCEPT !.raced = @ \/ Overtaken(g, q) ] ]
    /\ settled' = IF done /\ settled[q.user].row < q.found.row
                    THEN [ settled EXCEPT ![q.user] =
                             [ row |-> q.found.row, teams |-> q.found.teams ] ]
                    ELSE settled
    /\ UNCHANGED db

-----------------------------------------------------------------------------
(* The surroundings. *)

\* A query fails, or finds nobody to update, or its answer is lost: the write may be
\* committed by then.
QueryFails(h) ==
    /\ request[h].pc \in { "row", "teams", "write", "read back" }
    /\ End(h)
    /\ UNCHANGED <<db, cache, settled>>

\* Mutant: an entry is good for ever.
Ageless(e) == e

Aged(e) == IF e = Missing \/ e.left = 1 THEN Missing ELSE [ e EXCEPT !.left = @ - 1 ]

Tick ==
    /\ cache' = [ k \in CacheKeys |-> [ u \in People |-> Aged(cache[k][u]) ] ]
    /\ UNCHANGED <<db, request, settled>>

\* A write through another replica.
WriteElsewhere(u) ==
    /\ MayWrite(u)
    /\ \E op \in { "create", "update" } :
           /\ op = "create" => Named(u)
           /\ \E c \in Committed(op, u) : db' = [ db EXCEPT ![u] = c ]
    /\ UNCHANGED <<cache, request, settled>>

\* A restart: empty caches, and the requests are gone.
Restart ==
    /\ cache' = NothingCached
    /\ request' = [ h \in Requests |-> NoRequest ]
    /\ UNCHANGED <<db, settled>>

Arrives(h) == \E u \in People :
    \/ \E k \in CacheKeys : Miss(h, k, u)
    \/ StartCreate(h, u) \/ StartUpdate(h, u)

Proceeds(h) ==
    \/ ReadRow(h) \/ ReadTeams(h) \/ Remember(h)
    \/ ForgetOld(h) \/ Write(h) \/ ReadBack(h) \/ Forget(h)
    \/ QueryFails(h)

CacheNext ==
    \/ \E h \in Requests : Arrives(h) \/ Proceeds(h)
    \/ Tick
    \/ \E u \in People : WriteElsewhere(u)
    \/ Restart

CacheSpec == CacheInit /\ [][CacheNext]_cacheVars

\* Handlers are answered or give up, and time passes.
FairCacheSpec == CacheSpec /\ WF_cacheVars(Tick) /\ \A h \in Requests : WF_cacheVars(Proceeds(h))

=============================================================================
