----------------------- MODULE EntityCacheProperties -----------------------
(***************************************************************************)
(* What EntityCache is checked for.                                          *)
(***************************************************************************)
EXTENDS EntityCache

\* What is answered from the cache is at least as new as the latest write that was
\* answered here, whatever the key the user was cached or written under, unless
\* the write was under way while the entry was: a read that began before the write
\* forgot the user puts back what it found (remember, forget).
OwnWriteIsSeen ==
    /\ CacheTypeOK
    /\ \A k \in CacheKeys, u \in People :
          LET e == cache[k][u] IN
          Cached(k, u) /\ ~e.raced =>
              /\ e.user.row >= settled[u].row
              /\ e.user.teams >= settled[u].teams

Stale(k, u) ==
    /\ Cached(k, u)
    /\ LET e == cache[k][u].user IN
       e.row < db[u].row \/ e.teams < db[u].teams

\* Once nobody writes any more, the cache comes to answer what the database holds
\* and goes on doing so: neither a race, nor a write through another replica or
\* without an answer, nor users who are looked up all the time outlive the TTL.
EventuallyFresh == <>[](\A k \in CacheKeys, u \in People : ~Stale(k, u))

\* user_repo.go:120 says of the lookup by uuid that users who are not active read as
\* "not found"; the cache answers it with whomever a lookup by id has put there.
UUIDFindsOnlyActive ==
    \A u \in People :
        Cached("byUUID", u) => cache["byUUID"][u].user.status = "ACTIVE"

=============================================================================
