---------------------------- MODULE Members_proofs ----------------------------
(***************************************************************************)
(* Proofs about Members for any number of users, requests, processes,      *)
(* changes and failures.  The argument: whoever holds a row that another   *)
(* request changes is marked, so that a request which is not marked knows  *)
(* the row of its target as it is; if it takes an administrator away, it   *)
(* has counted another one who is still there.  A role that is cached      *)
(* without a mark is the row's, or its invalidation is on the way.         *)
(***************************************************************************)
EXTENDS Members, FiniteSetTheorems, TLAPS

-----------------------------------------------------------------------------
(* What a request looks like.                                              *)

LEMMA HandlerShape ==
  ASSUME TypeOK, NEW h \in Handlers
  PROVE  /\ handler[h] \in HandlerState
         /\ handler[h].pc = "looked" => handler[h] \in ArrivalState
         /\ handler[h].pc \in {"caching", "admitted"} => handler[h] \in CallerState
         /\ handler[h].pc \in {"checking", "writing"} => handler[h] \in ChangerState
         /\ handler[h].pc = "invalidating" => handler[h] \in InvalidatorState
  <1>1. handler[h] \in HandlerState
    BY DEF TypeOK
  <1>2. \/ handler[h] = Idle \/ handler[h] \in ArrivalState \/ handler[h] \in CallerState
        \/ handler[h] \in ChangerState \/ handler[h] \in InvalidatorState
    BY <1>1 DEF HandlerState
  <1>3. Idle.pc = "idle"
    BY DEF Idle
  <1>4. \A c \in ArrivalState : c.pc = "looked"
    BY DEF ArrivalState
  <1>5. \A c \in CallerState : c.pc \in {"caching", "admitted"}
    BY DEF CallerState
  <1>6. \A c \in ChangerState : c.pc \in {"checking", "writing"}
    BY DEF ChangerState
  <1>7. \A c \in InvalidatorState : c.pc = "invalidating"
    BY DEF InvalidatorState
  <1> QED
    BY <1>1, <1>2, <1>3, <1>4, <1>5, <1>6, <1>7

\* A mark touches one field of whoever holds a row.
LEMMA ChangedIs ==
  ASSUME TypeOK, NEW u \in Users, NEW h \in Handlers
  PROVE  /\ Changed(u)[h] \in HandlerState
         /\ Changed(u)[h].pc = handler[h].pc
         /\ ~Holding(h) => Changed(u)[h] = handler[h]
         /\ Holding(h) => Changed(u)[h].changed = handler[h].changed \cup {u}
         /\ handler[h].pc \in {"caching", "admitted"} =>
              /\ Changed(u)[h].caller = handler[h].caller
              /\ Changed(u)[h].role = handler[h].role
              /\ Changed(u)[h].own <=> handler[h].own
         /\ handler[h].pc = "invalidating" => Changed(u)[h].target = handler[h].target
  <1>1. CASE ~Holding(h)
    <2>1. Changed(u)[h] = handler[h]
      BY <1>1 DEF Changed
    <2> QED
      BY <1>1, <2>1, HandlerShape
  <1>2. CASE Holding(h)
    <2> DEFINE new == [handler[h] EXCEPT !.changed = @ \cup {u}]
    <2>1. Changed(u)[h] = new
      BY <1>2 DEF Changed
    <2>2. CASE handler[h].pc \in {"caching", "admitted"}
      <3>1. handler[h] \in CallerState
        BY <2>2, HandlerShape
      <3>2. /\ new \in CallerState /\ new.pc = handler[h].pc
            /\ new.changed = handler[h].changed \cup {u}
            /\ new.caller = handler[h].caller /\ new.role = handler[h].role
            /\ new.own = handler[h].own
        BY <3>1 DEF CallerState
      <3> QED
        BY <1>2, <2>1, <2>2, <3>2 DEF HandlerState
    <2>3. CASE handler[h].pc \in {"checking", "writing"}
      <3>1. handler[h] \in ChangerState
        BY <2>3, HandlerShape
      <3>2. /\ new \in ChangerState /\ new.pc = handler[h].pc
            /\ new.changed = handler[h].changed \cup {u}
        BY <3>1 DEF ChangerState
      <3> QED
        BY <1>2, <2>1, <2>3, <3>2 DEF HandlerState
    <2> QED
      BY <1>2, <2>2, <2>3 DEF Holding
  <1> QED
    BY <1>1, <1>2

LEMMA ChangedType ==
  ASSUME TypeOK, NEW u \in Users, NEW h \in Handlers, NEW s \in HandlerState
  PROVE  [Changed(u) EXCEPT ![h] = s] \in [Handlers -> HandlerState]
  BY ChangedIs DEF Changed

LEMMA IdleType == Idle \in HandlerState
  BY DEF HandlerState

-----------------------------------------------------------------------------
(* Rows.                                                                   *)

LEMMA AfterIs ==
  ASSUME NEW row \in User, NEW change \in Changes
  PROVE  /\ After(row, change) \in User
         /\ change = Deletion => After(row, change).state = "gone"
         /\ change # Deletion => After(row, change).state = row.state
  <1>1. CASE change = Deletion
    BY <1>1 DEF After, NoRow, User, Roles
  <1>2. CASE change # Deletion
    <2>1. change \in Update
      BY <1>2 DEF Changes
    <2> DEFINE role == IF change.role = Same THEN row.role ELSE change.role
               active == IF change.active = Same THEN row.active ELSE change.active
    <2>2. role \in Roles
      BY <2>1 DEF Update, User
    <2>3. change.active \in BOOLEAN \cup {Same} /\ row.active \in BOOLEAN
      BY <2>1 DEF Update, User
    <2>4. active \in BOOLEAN
      BY <2>3, Zenon
    <2>5. After(row, change) = [row EXCEPT !.role = role, !.active = active]
      BY <1>2 DEF After
    <2> HIDE DEF role, active
    <2>6. [row EXCEPT !.role = role, !.active = active] \in User
      BY <2>2, <2>4 DEF User
    <2>7. [row EXCEPT !.role = role, !.active = active].state = row.state
      BY DEF User
    <2> QED
      BY <1>2, <2>5, <2>6, <2>7
  <1> QED
    BY <1>1, <1>2

\* A change that is not protected leaves an administrator one.
LEMMA UnprotectedStays ==
  ASSUME NEW row \in User, NEW change \in Changes,
         row.state = "there", row.role = "org_admin", row.active,
         ~Protected(row, change)
  PROVE  /\ After(row, change).state = "there"
         /\ After(row, change).role = "org_admin"
         /\ After(row, change).active
  <1>1. change # Deletion
    BY DEF Protected
  <1>2. change \in Update
    BY <1>1 DEF Changes
  <1> DEFINE role == IF change.role = Same THEN row.role ELSE change.role
             active == IF change.active = Same THEN row.active ELSE change.active
  <1>3. change.role # "member"
    BY <1>1 DEF Protected
  <1>4. role = "org_admin"
    BY <1>2, <1>3 DEF Update, Roles
  <1>5. ~(change.active = FALSE)
    BY <1>1, Zenon DEF Protected
  <1>6. change.active \in BOOLEAN \cup {Same} /\ row.active \in BOOLEAN
    BY <1>2 DEF Update, User
  <1>7. active = TRUE
    BY <1>5, <1>6, Zenon
  <1>8. After(row, change) = [row EXCEPT !.role = role, !.active = active]
    BY <1>1 DEF After
  <1> HIDE DEF role, active
  <1> QED
    BY <1>4, <1>7, <1>8 DEF User

LEMMA AdminsFinite == Admins \subseteq Users /\ IsFiniteSet(Admins)
  <1>1. Admins \subseteq Users
    BY DEF Admins
  <1> QED
    BY <1>1, MembersConstantsOK, FS_Subset

\* Where there are several, there is another one.
LEMMA SeveralAdmins ==
  ASSUME NEW u, ~(Cardinality(Admins) <= 1)
  PROVE  \E v \in Admins : v # u
  <1> SUFFICES ASSUME Admins \subseteq {u} PROVE FALSE
    OBVIOUS
  <1>1. IsFiniteSet({u}) /\ Cardinality({u}) = 1
    BY FS_Singleton
  <1>2. Cardinality(Admins) <= Cardinality({u})
    BY <1>1, FS_Subset
  <1> QED
    BY <1>1, <1>2

-----------------------------------------------------------------------------
(* Type correctness.                                                       *)

LEMMA InitType == Init => TypeOK
  <1> SUFFICES ASSUME Init PROVE TypeOK
    OBVIOUS
  <1>0. NoRow("none") \in User /\ [state : {"there"}, role : Roles, active : {TRUE}] \subseteq User
    BY DEF NoRow, User, Roles
  <1>1. {NoRow("none")} \cup [state : {"there"}, role : Roles, active : {TRUE}] \subseteq User
    BY <1>0
  <1>2. user \in [Users -> User]
    BY <1>1 DEF Init
  <1>3. NoProfile \in Profile
    BY DEF NoProfile, Profile
  <1>4. cache \in [Stores -> [Users -> Profile]]
    BY <1>3 DEF Init
  <1>5. handler \in [Handlers -> HandlerState]
    BY IdleType DEF Init
  <1>6. changes \in 0..MaxChanges /\ faults \in 0..MaxFaults
    BY MembersConstantsOK DEF Init
  <1> QED
    BY <1>2, <1>4, <1>5, <1>6 DEF TypeOK, Init

LEMMA CallsType ==
  ASSUME TypeOK, NEW up \in BOOLEAN, Calls(up)
  PROVE  faults' \in 0..MaxFaults
  BY MembersConstantsOK DEF Calls, Fault, TypeOK

LEMMA FaultType ==
  ASSUME TypeOK, Fault
  PROVE  faults' \in 0..MaxFaults
  BY MembersConstantsOK DEF Fault, TypeOK

LEMMA MayChangeIs ==
  ASSUME TypeOK, NEW h \in Handlers, MayChange(h)
  PROVE  /\ changes' \in 0..MaxChanges
         /\ handler[h].pc = "admitted" /\ handler[h] \in CallerState
  BY MembersConstantsOK, HandlerShape DEF MayChange, TypeOK

\* The state of one request and the rest as given.
LEMMA HandlerType ==
  ASSUME TypeOK, NEW h \in Handlers, NEW s \in HandlerState,
         handler' = [handler EXCEPT ![h] = s],
         user' = user, cache' = cache, raced' \in BOOLEAN,
         changes' \in 0..MaxChanges, faults' \in 0..MaxFaults
  PROVE  TypeOK'
  BY DEF TypeOK

\* An invalidation leaves profiles.
LEMMA WithoutIs ==
  ASSUME TypeOK, NEW u \in Users, NEW S
  PROVE  /\ Without(u, S) \in [Stores -> [Users -> Profile]]
         /\ \A s \in Stores, v \in Users : v # u => Without(u, S)[s][v] = cache[s][v]
         /\ \A s \in Stores : Without(u, S)[s][u].role = None \/ Without(u, S)[s][u].late
         /\ \A s \in Stores : cache[s][u].role = None => Without(u, S)[s][u].role = None
  <1> DEFINE new(s) == IF s \in S \/ cache[s][u].role = None THEN NoProfile
                       ELSE [cache[s][u] EXCEPT !.late = TRUE]
  <1>1. \A s \in Stores : cache[s] \in [Users -> Profile] /\ cache[s][u] \in Profile
    BY DEF TypeOK
  <1>2. \A s \in Stores : /\ new(s) \in Profile
                          /\ new(s).role = None \/ new(s).late
                          /\ cache[s][u].role = None => new(s).role = None
    BY <1>1 DEF Profile, NoProfile
  <1>3. \A s \in Stores : Without(u, S)[s] = [cache[s] EXCEPT ![u] = new(s)]
    BY DEF Without
  <1>4. Without(u, S) = [s \in Stores |-> Without(u, S)[s]]
    BY DEF Without
  <1> HIDE DEF new
  <1>5. \A s \in Stores : Without(u, S)[s] \in [Users -> Profile]
    <2> SUFFICES ASSUME NEW s \in Stores PROVE Without(u, S)[s] \in [Users -> Profile]
      OBVIOUS
    <2>1. cache[s] \in [Users -> Profile] /\ new(s) \in Profile
      BY <1>1, <1>2
    <2>2. [cache[s] EXCEPT ![u] = new(s)] \in [Users -> Profile]
      BY <2>1
    <2> QED
      BY <1>3, <2>2
  <1>6. Without(u, S) \in [Stores -> [Users -> Profile]]
    BY <1>4, <1>5
  <1> QED
    BY <1>1, <1>2, <1>3, <1>6

-----------------------------------------------------------------------------
(* The invariant, request by request.                                      *)

\* What the invariant says of one request, when the rows and the administrators are
\* those given.
Sound(c, rows, admins) ==
    /\ c.pc \in {"looked", "caching"} => rows[c.caller].state # "none"
    /\ c.pc = "caching" =>
          c.own /\ (c.caller \in c.changed \/ c.role = rows[c.caller].role)
    /\ c.pc \in {"checking", "writing"} /\ c.changed = {} => c.read = rows[c.target]
    /\ c.pc \in {"caching", "admitted"} /\ c.own /\ c.changed = {} =>
          rows[c.caller] = [state |-> "there", role |-> c.role, active |-> TRUE]
    /\ c.pc = "writing" /\ c.changed = {} /\ Protected(c.read, c.change) =>
          \E u \in admins : u # c.target

CachedExist ==
    \A s \in Stores, u \in Users : cache[s][u].role # None => user[u].state # "none"

Core ==
    /\ TypeOK /\ AdminRemains /\ CacheIsCurrent /\ CachedExist
    /\ \A h \in Handlers : Sound(handler[h], user, Admins)

LEMMA CoreSuffices == Core => IInv
  <1> SUFFICES ASSUME Core PROVE IInv
    OBVIOUS
  <1>1. NoneUnborn /\ ReadersAreCurrent /\ ChangersAreCurrent
    BY DEF Core, Sound, CachedExist, NoneUnborn, ReadersAreCurrent, ChangersAreCurrent
  <1>2. AnotherAdmin
    BY DEF Core, Sound, AnotherAdmin
  <1> QED
    BY <1>1, <1>2 DEF Core, IInv

LEMMA IdleSound ==
  ASSUME NEW rows, NEW admins
  PROVE  Sound(Idle, rows, admins)
  BY DEF Sound, Idle

LEMMA InitCore == Init => Core
  <1> SUFFICES ASSUME Init PROVE Core
    OBVIOUS
  <1>1. AdminRemains
    BY DEF Init, AdminRemains
  <1>2. CacheIsCurrent /\ CachedExist
    BY DEF Init, CacheIsCurrent, CachedExist, NoProfile
  <1>3. \A h \in Handlers : Sound(handler[h], user, Admins)
    BY IdleSound DEF Init
  <1> QED
    BY <1>1, <1>2, <1>3, InitType DEF Core

\* One request moves, users and profiles stay.
LEMMA HandlerMoves ==
  ASSUME Core, NEW h \in Handlers, NEW s \in HandlerState,
         handler' = [handler EXCEPT ![h] = s], handler[h].pc # "invalidating",
         Sound(s, user, Admins),
         user' = user, cache' = cache, raced' \in BOOLEAN, raced => raced',
         changes' \in 0..MaxChanges, faults' \in 0..MaxFaults
  PROVE  Core'
  <1>1. TypeOK'
    BY HandlerType DEF Core
  <1>2. Admins' = Admins
    BY DEF Admins, Admin, There
  <1>3. AdminRemains'
    BY <1>2 DEF Core, AdminRemains
  <1>4. \A g \in Handlers : handler'[g] = IF g = h THEN s ELSE handler[g]
    BY DEF Core, TypeOK
  <1>5. CacheIsCurrent'
    BY <1>4 DEF Core, CacheIsCurrent, There
  <1>6. CachedExist'
    BY DEF Core, CachedExist
  <1>7. \A g \in Handlers : Sound(handler'[g], user', Admins')
    BY <1>2, <1>4 DEF Core
  <1> QED
    BY <1>1, <1>3, <1>5, <1>6, <1>7 DEF Core

\* Profiles change, and at most one request moves.
LEMMA CacheMoves ==
  ASSUME Core, NEW h \in Handlers, NEW s \in HandlerState,
         handler' = [handler EXCEPT ![h] = s], Sound(s, user, Admins),
         user' = user, cache' \in [Stores -> [Users -> Profile]], raced' = raced,
         changes' = changes, faults' \in 0..MaxFaults,
         CacheIsCurrent', CachedExist'
  PROVE  Core'
  <1>1. TypeOK'
    BY DEF Core, TypeOK
  <1>2. Admins' = Admins
    BY DEF Admins, Admin, There
  <1>3. AdminRemains'
    BY <1>2 DEF Core, AdminRemains
  <1>4. \A g \in Handlers : handler'[g] = IF g = h THEN s ELSE handler[g]
    BY DEF Core, TypeOK
  <1>7. \A g \in Handlers : Sound(handler'[g], user', Admins')
    BY <1>2, <1>4 DEF Core
  <1> QED
    BY <1>1, <1>3, <1>7 DEF Core

-----------------------------------------------------------------------------
(* Callers.                                                                *)

LEMMA ArriveCore ==
  ASSUME Core, NEW h \in Handlers, NEW u \in Users, NEW p \in Processes,
         NEW up \in BOOLEAN, Arrive(h, u, p, up)
  PROVE  Core'
  <1> DEFINE s == [pc |-> "looked", at |-> p, caller |-> u, role |-> Lookup(u, p, up),
                   own |-> FALSE, changed |-> {}]
  <1>1. Lookup(u, p, up) \in Roles \cup {None}
    <2>1. Redis \in Stores /\ p \in Stores
      BY DEF Stores
    <2>2. cache[Redis][u] \in Profile /\ cache[p][u] \in Profile
      BY <2>1 DEF Core, TypeOK
    <2> QED
      BY <2>2 DEF Lookup, Profile
  <1>2. s \in ArrivalState
    BY <1>1 DEF ArrivalState
  <1>3. s \in HandlerState
    BY <1>2 DEF HandlerState
  <1>4. Sound(s, user, Admins)
    BY DEF Arrive, Sound
  <1>5. handler' = [handler EXCEPT ![h] = s] /\ handler[h].pc = "idle"
    BY DEF Arrive
  <1>6. faults' \in 0..MaxFaults /\ changes' \in 0..MaxChanges /\ raced' \in BOOLEAN
    BY CallsType DEF Arrive, Core, TypeOK
  <1> HIDE DEF s
  <1> QED
    BY <1>3, <1>4, <1>5, <1>6, HandlerMoves DEF Arrive

LEMMA CheckCallerCore ==
  ASSUME Core, NEW h \in Handlers, CheckCaller(h)
  PROVE  Core'
  <1> DEFINE c == handler[h]
             row == user[c.caller]
             admitted == [c EXCEPT !.pc = "admitted"]
             caching == [c EXCEPT !.pc = "caching", !.role = row.role, !.own = TRUE]
  <1>1. c \in ArrivalState /\ c.pc = "looked"
    BY HandlerShape DEF CheckCaller, Core
  <1>2. c.caller \in Users /\ row \in User
    BY <1>1 DEF ArrivalState, Core, TypeOK
  <1>3. raced' \in BOOLEAN /\ changes' \in 0..MaxChanges /\ faults' \in 0..MaxFaults
        /\ user' = user /\ cache' = cache /\ raced' = raced
    BY DEF CheckCaller, Core, TypeOK
  <1>4. CASE ~(There(c.caller) /\ row.active)
    <2>1. handler' = [handler EXCEPT ![h] = Idle]
      BY <1>4 DEF CheckCaller
    <2> QED
      BY <1>1, <1>3, <2>1, IdleType, IdleSound, HandlerMoves
  <1>5. CASE There(c.caller) /\ row.active /\ c.role # None
    <2>1. handler' = [handler EXCEPT ![h] = admitted]
      BY <1>5 DEF CheckCaller
    <2>2. admitted \in CallerState /\ admitted.pc = "admitted" /\ ~admitted.own
      BY <1>1, <1>5 DEF ArrivalState, CallerState
    <2>3. admitted \in HandlerState
      BY <2>2 DEF HandlerState
    <2>4. Sound(admitted, user, Admins)
      BY <2>2 DEF Sound
    <2> HIDE DEF admitted
    <2> QED
      BY <1>1, <1>3, <2>1, <2>3, <2>4, HandlerMoves
  <1>6. CASE There(c.caller) /\ row.active /\ c.role = None
    <2>1. handler' = [handler EXCEPT ![h] = caching]
      BY <1>6 DEF CheckCaller
    <2>2. /\ caching \in CallerState /\ caching.pc = "caching" /\ caching.own
          /\ caching.role = row.role /\ caching.caller = c.caller
      BY <1>1, <1>2 DEF ArrivalState, CallerState, User
    <2>3. caching \in HandlerState
      BY <2>2 DEF HandlerState
    <2>4. row = [state |-> "there", role |-> row.role, active |-> TRUE]
      BY <1>2, <1>6 DEF User, There
    <2>5. Sound(caching, user, Admins)
      BY <1>6, <2>2, <2>4 DEF Sound, There
    <2> HIDE DEF caching
    <2> QED
      BY <1>1, <1>3, <2>1, <2>3, <2>5, HandlerMoves
  <1> QED
    BY <1>4, <1>5, <1>6

LEMMA RememberCore ==
  ASSUME Core, NEW h \in Handlers, NEW up \in BOOLEAN, Remember(h, up)
  PROVE  Core'
  <1> DEFINE c == handler[h]
             store == IF up THEN Redis ELSE c.at
             late == c.caller \in c.changed
             entry == [role |-> c.role, late |-> late]
             s == [c EXCEPT !.pc = "admitted"]
  <1>1. c \in CallerState /\ c.pc = "caching"
    BY HandlerShape DEF Remember, Core
  <1>2. store \in Stores /\ c.caller \in Users /\ c.role \in Roles
    BY <1>1 DEF CallerState, Stores
  <1>3. late \in BOOLEAN
    OBVIOUS
  <1>4. entry \in Profile
    <2> HIDE DEF late
    <2> QED
      BY <1>2, <1>3 DEF Profile
  <1>5. cache' = [cache EXCEPT ![store][c.caller] = entry]
    BY DEF Remember
  <1>6. handler' = [handler EXCEPT ![h] = s]
    BY DEF Remember, Core, TypeOK
  <1>7. /\ s \in CallerState /\ s.pc = "admitted" /\ (s.own <=> c.own)
        /\ s.changed = c.changed /\ s.role = c.role /\ s.caller = c.caller
    BY <1>1 DEF CallerState
  <1>8. s \in HandlerState
    BY <1>7 DEF HandlerState
  <1>9. Sound(s, user, Admins)
    BY <1>1, <1>7 DEF Sound, Core
  <1>10. faults' \in 0..MaxFaults /\ user' = user /\ raced' = raced /\ changes' = changes
    BY CallsType DEF Remember, Core
  <1>11. \A t \in Stores, u \in Users :
            cache'[t][u] = IF t = store /\ u = c.caller THEN entry ELSE cache[t][u]
    BY <1>2, <1>5 DEF Core, TypeOK
  <1>12. entry.role = c.role /\ (~entry.late => c.role = user[c.caller].role)
    BY <1>1 DEF Sound, Core
  <1>13. user[c.caller].state # "none"
    BY <1>1 DEF Sound, Core
  <1>14. \A g \in Handlers : handler[g].pc = "invalidating" => handler'[g] = handler[g]
    BY <1>1, <1>6 DEF Core, TypeOK
  <1> HIDE DEF entry, s, store
  <1>15. CacheIsCurrent'
    BY <1>10, <1>11, <1>12, <1>14 DEF CacheIsCurrent, Core, There
  <1>16. CachedExist'
    BY <1>10, <1>11, <1>13 DEF CachedExist, Core
  <1>17. cache' \in [Stores -> [Users -> Profile]]
    BY <1>2, <1>4, <1>5 DEF Core, TypeOK
  <1> QED
    BY <1>6, <1>8, <1>9, <1>10, <1>15, <1>16, <1>17, CacheMoves

LEMMA ServeCore ==
  ASSUME Core, NEW h \in Handlers, Serve(h)
  PROVE  Core'
  <1>1. raced' \in BOOLEAN /\ changes' \in 0..MaxChanges /\ faults' \in 0..MaxFaults
    BY DEF Serve, Core, TypeOK
  <1> QED
    BY <1>1, IdleType, IdleSound, HandlerMoves DEF Serve

-----------------------------------------------------------------------------
(* The stores.                                                             *)

\* Some profiles are dropped.
LEMMA DropCore ==
  ASSUME Core, cache' \in [Stores -> [Users -> Profile]],
         \A s \in Stores, u \in Users :
            cache'[s][u].role = None \/ cache'[s][u] = cache[s][u],
         UNCHANGED <<user, handler, raced, changes>>, faults' \in 0..MaxFaults
  PROVE  Core'
  <1>1. Admins' = Admins
    BY DEF Admins, Admin, There
  <1>2. TypeOK' /\ AdminRemains' /\ CachedExist'
    BY <1>1 DEF Core, TypeOK, AdminRemains, CachedExist
  <1>3. CacheIsCurrent'
    BY DEF Core, CacheIsCurrent, There
  <1> QED
    BY <1>1, <1>2, <1>3 DEF Core

LEMMA ExpireCore ==
  ASSUME Core, NEW s \in Stores, NEW u \in Users, Expire(s, u)
  PROVE  Core'
  <1>1. NoProfile \in Profile /\ NoProfile.role = None
    BY DEF NoProfile, Profile
  <1>2. cache' \in [Stores -> [Users -> Profile]]
    BY <1>1 DEF Expire, Core, TypeOK
  <1>3. \A t \in Stores, v \in Users :
           cache'[t][v] = IF t = s /\ v = u THEN NoProfile ELSE cache[t][v]
    BY DEF Expire, Core, TypeOK
  <1>4. UNCHANGED <<user, handler, raced, changes>> /\ faults' \in 0..MaxFaults
    BY DEF Expire, Core, TypeOK
  <1> QED
    BY <1>1, <1>2, <1>3, <1>4, DropCore

LEMMA PurgeCore ==
  ASSUME Core, NEW p \in Processes, NEW up \in BOOLEAN, Purge(p, up)
  PROVE  Core'
  <1>1. NoProfile \in Profile /\ NoProfile.role = None
    BY DEF NoProfile, Profile
  <1>2. [u \in Users |-> NoProfile] \in [Users -> Profile]
    BY <1>1
  <1>3. cache' \in [Stores -> [Users -> Profile]]
    BY <1>2 DEF Purge, Core, TypeOK
  <1>4. \A t \in Stores, v \in Users :
           cache'[t][v] = NoProfile \/ cache'[t][v] = cache[t][v]
    BY DEF Purge, Core, TypeOK
  <1>5. UNCHANGED <<user, handler, raced, changes>> /\ faults' \in 0..MaxFaults
    BY CallsType DEF Purge, Core
  <1> QED
    BY <1>1, <1>3, <1>4, <1>5, DropCore

\* An invalidation ends, wherever it has come to.
LEMMA InvalidationCore ==
  ASSUME Core, NEW h \in Handlers, handler[h].pc = "invalidating", NEW S,
         cache' = Without(handler[h].target, S),
         handler' = [handler EXCEPT ![h] = Idle],
         UNCHANGED <<user, raced, changes>>, faults' \in 0..MaxFaults
  PROVE  Core'
  <1> DEFINE u == handler[h].target
  <1>1. u \in Users
    BY HandlerShape DEF Core, InvalidatorState
  <1>2. cache' \in [Stores -> [Users -> Profile]]
    BY <1>1, WithoutIs DEF Core
  <1>3. \A s \in Stores, v \in Users : v # u => cache'[s][v] = cache[s][v]
    BY <1>1, WithoutIs DEF Core
  <1>4. \A s \in Stores : cache'[s][u].role = None \/ cache'[s][u].late
    BY <1>1, WithoutIs DEF Core
  <1>5. \A s \in Stores : cache[s][u].role = None => cache'[s][u].role = None
    BY <1>1, WithoutIs DEF Core
  <1>6. \A g \in Handlers : handler'[g] = IF g = h THEN Idle ELSE handler[g]
    BY DEF Core, TypeOK
  <1>7. CacheIsCurrent'
    <2> SUFFICES ASSUME NEW s \in Stores, NEW v \in Users, v # u,
                        There(v), cache[s][v].role # None, ~cache[s][v].late
                 PROVE  \/ cache[s][v].role = user[v].role
                        \/ \E g \in Handlers : handler'[g].pc = "invalidating" /\ handler'[g].target = v
      BY <1>3, <1>4 DEF CacheIsCurrent, There
    <2> QED
      BY <1>6 DEF Core, CacheIsCurrent
  <1>8. CachedExist'
    BY <1>3, <1>5 DEF Core, CachedExist
  <1> QED
    BY <1>2, <1>7, <1>8, IdleType, IdleSound, CacheMoves

LEMMA InvalidateCore ==
  ASSUME Core, NEW h \in Handlers, NEW up \in BOOLEAN, Invalidate(h, up)
  PROVE  Core'
  BY InvalidationCore, CallsType DEF Invalidate, Core

LEMMA AbortCore ==
  ASSUME Core, NEW h \in Handlers, Abort(h)
  PROVE  Core'
  <1>1. faults' \in 0..MaxFaults /\ raced' \in BOOLEAN /\ changes' \in 0..MaxChanges
    BY FaultType DEF Abort, Core, TypeOK
  <1>2. CASE handler[h].pc = "invalidating"
    BY <1>1, <1>2, InvalidationCore DEF Abort
  <1>3. CASE handler[h].pc # "invalidating"
    BY <1>1, <1>3, IdleType, IdleSound, HandlerMoves DEF Abort
  <1> QED
    BY <1>2, <1>3

-----------------------------------------------------------------------------
(* Changing users.                                                         *)

LEMMA ReadTargetCore ==
  ASSUME Core, NEW h \in Handlers, NEW t \in Users, NEW change \in Changes,
         ReadTarget(h, t, change)
  PROVE  Core'
  <1> DEFINE c == handler[h]
             own == c.own /\ t = c.caller
             read == IF own THEN [state |-> "there", role |-> c.role, active |-> TRUE]
                     ELSE user[t]
             changed == IF own THEN c.changed ELSE {}
             s == [pc |-> "checking", at |-> c.at, target |-> t, change |-> change,
                   read |-> read, changed |-> changed]
  <1>1. c \in CallerState /\ c.pc = "admitted" /\ changes' \in 0..MaxChanges
    BY MayChangeIs DEF ReadTarget, Core
  <1>2. read \in User
    BY <1>1 DEF CallerState, User, Core, TypeOK
  <1>3. changed \in SUBSET Users /\ c.at \in Processes
    BY <1>1 DEF CallerState
  <1>4. changed = {} => read = user[t]
    BY <1>1 DEF Sound, Core
  <1>5. handler' = [handler EXCEPT ![h] = s]
    BY DEF ReadTarget
  <1> HIDE DEF read, changed, own
  <1>6. s \in ChangerState /\ s.pc = "checking" /\ s.changed = changed
        /\ s.read = read /\ s.target = t
    BY <1>2, <1>3 DEF ChangerState
  <1>7. s \in HandlerState
    BY <1>6 DEF HandlerState
  <1>8. Sound(s, user, Admins)
    BY <1>4, <1>6 DEF Sound
  <1>9. user' = user /\ cache' = cache /\ raced' = raced /\ raced' \in BOOLEAN
        /\ faults' \in 0..MaxFaults
    BY DEF ReadTarget, Core, TypeOK
  <1> HIDE DEF s
  <1> QED
    BY <1>1, <1>5, <1>7, <1>8, <1>9, HandlerMoves

LEMMA CheckAdminsCore ==
  ASSUME Core, NEW h \in Handlers, CheckAdmins(h)
  PROVE  Core'
  <1> DEFINE c == handler[h]
             s == [c EXCEPT !.pc = "writing"]
  <1>1. c \in ChangerState /\ c.pc = "checking"
    BY HandlerShape DEF CheckAdmins, Core
  <1>2. user' = user /\ cache' = cache /\ raced' = raced /\ raced' \in BOOLEAN
        /\ faults' \in 0..MaxFaults /\ changes' \in 0..MaxChanges
    BY DEF CheckAdmins, Core, TypeOK
  <1>3. CASE Protected(c.read, c.change) /\ Cardinality(Admins) <= 1
    <2>1. handler' = [handler EXCEPT ![h] = Idle]
      BY <1>3 DEF CheckAdmins
    <2> QED
      BY <1>1, <1>2, <2>1, IdleType, IdleSound, HandlerMoves
  <1>4. CASE ~(Protected(c.read, c.change) /\ Cardinality(Admins) <= 1)
    <2>1. handler' = [handler EXCEPT ![h] = s]
      BY <1>4 DEF CheckAdmins
    <2>2. /\ s \in ChangerState /\ s.pc = "writing" /\ s.changed = c.changed
          /\ s.read = c.read /\ s.target = c.target /\ s.change = c.change
      BY <1>1 DEF ChangerState
    <2>3. s \in HandlerState
      BY <2>2 DEF HandlerState
    <2>4. Protected(s.read, s.change) => \E u \in Admins : u # s.target
      BY <1>4, <2>2, SeveralAdmins
    <2>5. Sound(s, user, Admins)
      BY <1>1, <2>2, <2>4 DEF Sound, Core
    <2> HIDE DEF s
    <2> QED
      BY <1>1, <1>2, <2>1, <2>3, <2>5, HandlerMoves
  <1> QED
    BY <1>3, <1>4

\* Whoever holds a row is marked, and then nothing is claimed of it.
LEMMA MarkedSound ==
  ASSUME Core, NEW t \in Users, NEW g \in Handlers, NEW row \in User, row.state # "none",
         NEW admins
  PROVE  Sound(Changed(t)[g], [user EXCEPT ![t] = row], admins)
  <1> DEFINE c == handler[g]
             new == Changed(t)[g]
             rows == [user EXCEPT ![t] = row]
  <1>1. /\ new.pc = c.pc
        /\ ~Holding(g) => new = c
        /\ Holding(g) => new.changed = c.changed \cup {t}
        /\ c.pc \in {"caching", "admitted"} =>
             new.caller = c.caller /\ new.role = c.role /\ (new.own <=> c.own)
    BY ChangedIs DEF Core
  <1>2. \A u \in Users : rows[u] = IF u = t THEN row ELSE user[u]
    BY DEF Core, TypeOK
  <1>3. Sound(c, user, Admins)
    BY DEF Core
  <1>4. Holding(g) => new.changed # {}
    BY <1>1
  <1> HIDE DEF new, rows
  <1>5. CASE c.pc = "looked"
    <2>1. ~Holding(g) /\ c \in ArrivalState
      BY <1>5, HandlerShape DEF Holding, Core
    <2>2. new = c /\ c.caller \in Users
      BY <1>1, <2>1 DEF ArrivalState
    <2> QED
      BY <1>2, <1>3, <1>5, <2>2 DEF Sound, rows, new
  <1>6. CASE c.pc = "caching"
    <2>1. c.own /\ c \in CallerState
      BY <1>3, <1>6, HandlerShape DEF Sound, Core
    <2>2. Holding(g) /\ c.caller \in Users
      BY <1>6, <2>1 DEF Holding, CallerState
    <2>3. rows[new.caller].state # "none"
      BY <1>1, <1>2, <1>3, <1>6, <2>2 DEF Sound
    <2>4. new.caller \in new.changed \/ new.role = rows[new.caller].role
      BY <1>1, <1>2, <1>3, <1>6, <2>2 DEF Sound
    <2> QED
      BY <1>1, <1>4, <1>6, <2>1, <2>2, <2>3, <2>4 DEF Sound, rows, new
  <1>7. CASE c.pc = "admitted"
    <2>1. c.own => Holding(g)
      BY <1>7 DEF Holding
    <2> QED
      BY <1>1, <1>4, <1>7, <2>1 DEF Sound, rows, new
  <1>8. CASE c.pc \in {"checking", "writing"}
    <2>1. Holding(g)
      BY <1>8 DEF Holding
    <2> QED
      BY <1>1, <1>4, <1>8, <2>1 DEF Sound, rows, new
  <1>9. CASE c.pc \notin {"looked", "caching", "admitted", "checking", "writing"}
    BY <1>1, <1>9 DEF Sound, rows, new
  <1> QED
    BY <1>5, <1>6, <1>7, <1>8, <1>9

\* A row changes, and everybody who holds one is marked.
LEMMA RowChanges ==
  ASSUME Core, NEW h \in Handlers, NEW t \in Users, NEW row \in User, row.state # "none",
         NEW s \in HandlerState, handler[h].pc # "invalidating",
         user' = [user EXCEPT ![t] = row],
         handler' = [Changed(t) EXCEPT ![h] = s],
         \A rows, admins : Sound(s, rows, admins),
         row.state = "there" =>
            (s.pc = "invalidating" /\ s.target = t) \/ user[t].state = "none",
         cache' = cache, raced' \in BOOLEAN, AdminRemains',
         changes' \in 0..MaxChanges, faults' \in 0..MaxFaults
  PROVE  Core'
  <1>1. \A u \in Users : user'[u] = IF u = t THEN row ELSE user[u]
    BY DEF Core, TypeOK
  <1>2. \A g \in Handlers : handler'[g] = IF g = h THEN s ELSE Changed(t)[g]
    BY DEF Changed
  <1>3. TypeOK'
    <2>1. user' \in [Users -> User]
      BY DEF Core, TypeOK
    <2>2. handler' \in [Handlers -> HandlerState]
      BY ChangedType DEF Core
    <2> QED
      BY <2>1, <2>2 DEF Core, TypeOK
  <1>4. CachedExist'
    BY <1>1 DEF Core, CachedExist
  <1>5. \A g \in Handlers : Sound(handler'[g], user', Admins')
    <2> DEFINE rows == user'
               admins == Admins'
    <2>1. rows = [user EXCEPT ![t] = row]
      OBVIOUS
    <2>2. ASSUME NEW g \in Handlers PROVE Sound(Changed(t)[g], rows, admins)
      <3>1. Sound(Changed(t)[g], [user EXCEPT ![t] = row], admins)
        <4> HIDE DEF admins
        <4> QED
          BY MarkedSound
      <3> QED
        BY <2>1, <3>1
    <2> HIDE DEF rows, admins
    <2>3. \A g \in Handlers : Sound(IF g = h THEN s ELSE Changed(t)[g], rows, admins)
      <3>1. ASSUME NEW g \in Handlers
            PROVE  Sound(IF g = h THEN s ELSE Changed(t)[g], rows, admins)
        <4>1. CASE g = h
          <5>1. Sound(s, rows, admins)
            OBVIOUS
          <5> QED
            BY <4>1, <5>1
        <4>2. CASE g # h
          BY <2>2, <4>2
        <4> QED
          BY <4>1, <4>2
      <3> QED
        BY <3>1
    <2> QED
      BY <1>2, <2>3 DEF rows, admins
  <1>6. CacheIsCurrent'
    <2> SUFFICES ASSUME NEW st \in Stores, NEW u \in Users, user'[u].state = "there",
                        cache[st][u].role # None, ~cache[st][u].late
                 PROVE  \/ cache[st][u].role = user'[u].role
                        \/ \E g \in Handlers : handler'[g].pc = "invalidating" /\ handler'[g].target = u
      BY DEF CacheIsCurrent, There
    <2>1. CASE u = t
      BY <1>1, <1>2, <2>1 DEF Core, CachedExist
    <2>2. CASE u # t
      <3>1. \/ cache[st][u].role = user[u].role
            \/ \E g \in Handlers : handler[g].pc = "invalidating" /\ handler[g].target = u
        BY <1>1, <2>2 DEF Core, CacheIsCurrent, There
      <3>2. ASSUME NEW g \in Handlers, handler[g].pc = "invalidating", handler[g].target = u
            PROVE  handler'[g].pc = "invalidating" /\ handler'[g].target = u
        BY <1>2, <3>2, ChangedIs DEF Core
      <3> QED
        BY <1>1, <2>2, <3>1, <3>2
    <2> QED
      BY <2>1, <2>2
  <1> QED
    BY <1>3, <1>4, <1>5, <1>6 DEF Core

LEMMA CreateCore ==
  ASSUME Core, NEW h \in Handlers, NEW u \in Users, NEW role \in Roles, Create(h, u, role)
  PROVE  Core'
  <1> DEFINE row == [state |-> "there", role |-> role, active |-> TRUE]
  <1>1. row \in User
    BY DEF User
  <1>2. changes' \in 0..MaxChanges /\ handler[h].pc = "admitted"
    BY MayChangeIs DEF Create, Core
  <1>3. user' = [user EXCEPT ![u] = row] /\ user[u].state = "none"
        /\ handler' = [Changed(u) EXCEPT ![h] = Idle] /\ cache' = cache
    BY DEF Create
  <1>4. raced' = raced /\ raced' \in BOOLEAN /\ faults' \in 0..MaxFaults
    BY DEF Create, Core, TypeOK
  <1>5. Admins \subseteq Admins'
    BY <1>3 DEF Admins, Admin, There, Core, TypeOK
  <1>6. AdminRemains'
    BY <1>4, <1>5 DEF AdminRemains, Core
  <1>7. row.state = "there"
    OBVIOUS
  <1> HIDE DEF row
  <1> QED
    BY <1>1, <1>2, <1>3, <1>4, <1>6, <1>7, IdleType, IdleSound, RowChanges

LEMMA NextStateIs ==
  ASSUME NEW change \in Changes, NEW t \in Users, NEW p \in Processes
  PROVE  /\ Next_(change, t, p) \in HandlerState
         /\ change # Deletion =>
              Next_(change, t, p).pc = "invalidating" /\ Next_(change, t, p).target = t
         /\ \A rows, admins : Sound(Next_(change, t, p), rows, admins)
  BY IdleType, IdleSound DEF Next_, HandlerState, InvalidatorState, Sound

\* The tenant keeps an administrator, or the change was overtaken.
LEMMA CommitKeepsAdmin ==
  ASSUME Core, NEW h \in Handlers, Commit(h), There(handler[h].target)
  PROVE  AdminRemains'
  <1> DEFINE c == handler[h]
             t == c.target
             row == After(user[t], c.change)
  <1>1. c \in ChangerState /\ c.pc = "writing"
    BY HandlerShape DEF Commit, Core
  <1>2. t \in Users /\ c.change \in Changes /\ user[t] \in User
    BY <1>1 DEF ChangerState, Core, TypeOK
  <1>3. user' = [user EXCEPT ![t] = row]
    BY DEF Commit
  <1>4. raced' <=> (raced \/ (c.changed # {} /\ Admin(t) /\ Protected(user[t], c.change)))
    BY DEF Commit
  <1>5. \A u \in Users : user'[u] = IF u = t THEN row ELSE user[u]
    BY <1>3 DEF Core, TypeOK
  <1>6. SUFFICES ASSUME ~raced' PROVE Admins' # {}
    BY DEF AdminRemains
  <1>7. Admins # {}
    BY <1>4, <1>6 DEF Core, AdminRemains
  <1>8. \A u \in Admins : u # t => u \in Admins'
    BY <1>5 DEF Admins, Admin, There
  <1>9. CASE ~Admin(t)
    BY <1>7, <1>8, <1>9 DEF Admins
  <1>10. CASE Admin(t) /\ ~Protected(user[t], c.change)
    <2>1. row.state = "there" /\ row.role = "org_admin" /\ row.active
      BY <1>2, <1>10, UnprotectedStays DEF Admin, There
    <2>2. t \in Admins'
      BY <1>2, <1>5, <2>1 DEF Admins, Admin, There
    <2> QED
      BY <2>2
  <1>11. CASE Admin(t) /\ Protected(user[t], c.change)
    <2>1. c.changed = {}
      BY <1>4, <1>6, <1>11
    <2>2. Sound(c, user, Admins)
      BY DEF Core
    <2>3. c.read = user[t]
      BY <1>1, <2>1, <2>2 DEF Sound
    <2>4. \E u \in Admins : u # t
      BY <1>1, <1>11, <2>1, <2>2, <2>3 DEF Sound
    <2> QED
      BY <1>8, <2>4
  <1> QED
    BY <1>9, <1>10, <1>11

LEMMA CommitCore ==
  ASSUME Core, NEW h \in Handlers, Commit(h)
  PROVE  Core'
  <1> DEFINE c == handler[h]
             t == c.target
             row == After(user[t], c.change)
             s == Next_(c.change, t, c.at)
  <1>1. c \in ChangerState /\ c.pc = "writing"
    BY HandlerShape DEF Commit, Core
  <1>2. t \in Users /\ c.change \in Changes /\ c.at \in Processes /\ user[t] \in User
    BY <1>1 DEF ChangerState, Core, TypeOK
  <1>3. cache' = cache /\ changes' \in 0..MaxChanges /\ faults' \in 0..MaxFaults
    BY DEF Commit, Core, TypeOK
  <1>4. CASE ~There(t)
    <2>1. handler' = [handler EXCEPT ![h] = Idle] /\ user' = user /\ raced' = raced
      BY <1>4 DEF Commit
    <2>2. raced' \in BOOLEAN
      BY <2>1 DEF Core, TypeOK
    <2> QED
      BY <1>1, <1>3, <2>1, <2>2, IdleType, IdleSound, HandlerMoves
  <1>5. CASE There(t)
    <2>1. user' = [user EXCEPT ![t] = row]
      BY <1>5 DEF Commit
    <2>2. handler' = [(IF row = user[t] THEN handler ELSE Changed(t)) EXCEPT ![h] = s]
      BY <1>5 DEF Commit
    <2>3. raced' = (raced \/ (c.changed # {} /\ Admin(t) /\ Protected(user[t], c.change)))
      BY <1>5 DEF Commit
    <2>4. raced' \in BOOLEAN /\ (raced => raced')
      BY <2>3
    <2>5. s \in HandlerState /\ \A rows, admins : Sound(s, rows, admins)
      BY <1>2, NextStateIs
    <2>6. row \in User
      BY <1>2, AfterIs
    <2>7. c.change = Deletion => row.state = "gone"
      BY <1>2, AfterIs
    <2>8. c.change # Deletion =>
            row.state = "there" /\ s.pc = "invalidating" /\ s.target = t
      BY <1>2, <1>5, AfterIs, NextStateIs DEF There
    <2>9. AdminRemains'
      BY <1>5, CommitKeepsAdmin
    <2> HIDE DEF row, s
    <2>10. CASE row = user[t]
      <3>1. user' = user
        BY <2>1, <2>10 DEF Core, TypeOK
      <3>2. handler' = [handler EXCEPT ![h] = s]
        BY <2>2, <2>10
      <3> QED
        BY <1>1, <1>3, <2>4, <2>5, <3>1, <3>2, HandlerMoves
    <2>11. CASE row # user[t]
      <3>1. handler' = [Changed(t) EXCEPT ![h] = s]
        BY <2>2, <2>11
      <3>2. row.state # "none"
        BY <2>7, <2>8
      <3>3. row.state = "there" => s.pc = "invalidating" /\ s.target = t
        BY <2>7, <2>8
      <3> QED
        BY <1>1, <1>2, <1>3, <2>1, <2>4, <2>5, <2>6, <2>9, <3>1, <3>2, <3>3, RowChanges
    <2> QED
      BY <2>10, <2>11
  <1> QED
    BY <1>4, <1>5

-----------------------------------------------------------------------------
LEMMA NextCore == Core /\ [Next]_vars => Core'
  <1> SUFFICES ASSUME Core, [Next]_vars PROVE Core'
    OBVIOUS
  <1>1. ASSUME NEW h \in Handlers, HandlerStep(h) PROVE Core'
    BY <1>1, CheckCallerCore, ServeCore, CheckAdminsCore, CommitCore, AbortCore,
       RememberCore, InvalidateCore, ArriveCore, CreateCore, ReadTargetCore DEF HandlerStep
  <1>2. ASSUME NEW s \in Stores, NEW u \in Users, Expire(s, u) PROVE Core'
    BY <1>2, ExpireCore
  <1>3. ASSUME NEW p \in Processes, NEW up \in BOOLEAN, Purge(p, up) PROVE Core'
    BY <1>3, PurgeCore
  <1>4. CASE UNCHANGED vars
    <2>1. UNCHANGED <<user, handler, raced, changes>> /\ cache' = cache
          /\ faults' \in 0..MaxFaults
      BY <1>4 DEF vars, Core, TypeOK
    <2> QED
      BY <2>1, DropCore DEF Core, TypeOK
  <1> QED
    BY <1>1, <1>2, <1>3, <1>4 DEF Next

\* The inductive invariant: types, rows that are what requests take them for, and
\* roles that are cached as they are; for any number of everything.
THEOREM IInvHolds == Spec => []IInv
  <1>1. Spec => []Core
    BY InitCore, NextCore, PTL DEF Spec
  <1> QED
    BY <1>1, CoreSuffices, PTL

\* The tenant keeps an active administrator, unless a change was committed on a check
\* that another change had overtaken.
THEOREM AdminAlwaysRemains == Spec => []AdminRemains
  BY IInvHolds, PTL DEF IInv

\* A cached role is that of the row or about to be invalidated, but for readers and
\* stores that the invalidation could not reach.
THEOREM CacheStaysCurrent == Spec => []CacheIsCurrent
  BY IInvHolds, PTL DEF IInv
=============================================================================
