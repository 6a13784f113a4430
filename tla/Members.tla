------------------------------- MODULE Members -------------------------------
(***************************************************************************)
(* The users of one tenant, who may change them, and the profile cache that *)
(* every request consults for the role of its caller.                      *)
(*                                                                         *)
(*   handlers  requests: get_current_user (auth/dependencies.py), then, for *)
(*             some, create, update, deactivate, reactivate or delete a    *)
(*             user (users/service.py)                                     *)
(*   stores    Redis, and the fallback of every API process                *)
(*             (core/cache.py)                                             *)
(*                                                                         *)
(* Reads see what is committed.  An UPDATE writes the fields it was given,  *)
(* so that UPDATE and COMMIT are one step.                                 *)
(***************************************************************************)
EXTENDS Integers, FiniteSets

CONSTANTS
    Users,       \* user ids: bound on users that ever exist
    Handlers,    \* requests that can be in flight together
    Processes,   \* API processes, each with its fallback store
    Redis,       \* the store they share
    MaxChanges,  \* bound on requests that change a user
    MaxFaults,   \* bound on Redis errors and failing requests
    None,        \* no cached profile
    Same         \* a field that an update was not given

ASSUME MembersConstantsOK ==
    /\ IsFiniteSet(Users)
    /\ Redis \notin Processes
    /\ MaxChanges \in Nat
    /\ MaxFaults \in Nat
    /\ None \notin {"org_admin", "member"}
    /\ Same \notin {"org_admin", "member"}
    /\ Same \notin BOOLEAN

VARIABLES
    user,     \* the rows of the tenant's users
    cache,    \* the profiles in every store
    handler,  \* state of every request
    raced,    \* history: an administrator was removed on a check that had been overtaken
    changes,  \* changing requests still to come
    faults    \* failures still to come

vars == <<user, cache, handler, raced, changes, faults>>

Stores == Processes \cup {Redis}

\* Every role but org_admin has the same rights over users.
Roles == {"org_admin", "member"}

User == [state : {"none", "there", "gone"}, role : Roles, active : BOOLEAN]

\* A user who does not exist yet, or any more.
NoRow(state) == [state |-> state, role |-> "member", active |-> FALSE]

\* `late' is a history variable of a cached profile: it was read before an
\* update, or spared by an invalidation.
Profile == [role : Roles \cup {None}, late : BOOLEAN]
NoProfile == [role |-> None, late |-> FALSE]

\* What a request asks for: new values of some fields, or the end of the user.
Update == [kind : {"update"}, role : Roles \cup {Same}, active : BOOLEAN \cup {Same}]
Deletion == [kind |-> "delete"]
Changes == Update \cup {Deletion}

Idle == [pc |-> "idle"]

There(u) == user[u].state = "there"
Admin(u) == There(u) /\ user[u].role = "org_admin" /\ user[u].active
Admins == {u \in Users : Admin(u)}

Fault == faults > 0 /\ faults' = faults - 1

\* A call of Redis succeeds or raises a RedisError, which the cache absorbs.
Calls(up) == IF up THEN UNCHANGED faults ELSE Fault

\* Some users, among them an active administrator; nothing is cached.
Init ==
    /\ user \in [Users -> {NoRow("none")} \cup
          [state : {"there"}, role : Roles, active : {TRUE}]]
    /\ Admins # {}
    /\ cache = [s \in Stores |-> [u \in Users |-> NoProfile]]
    /\ handler = [h \in Handlers |-> Idle]
    /\ raced = FALSE
    /\ changes = MaxChanges
    /\ faults = MaxFaults

-----------------------------------------------------------------------------
(* get_current_user, RoleChecker and the cache.                            *)

\* CacheManager.get: Redis, and on a miss or an error the fallback.
Lookup(u, p, up) ==
    IF up /\ cache[Redis][u].role # None THEN cache[Redis][u].role ELSE cache[p][u].role

\* A request of u arrives at process p and looks for the profile.
Arrive(h, u, p, up) ==
    /\ handler[h].pc = "idle"
    /\ user[u].state # "none"
    /\ Calls(up)
    /\ handler' = [handler EXCEPT ![h] =
          [pc |-> "looked", at |-> p, caller |-> u, role |-> Lookup(u, p, up),
           own |-> FALSE, changed |-> {}]]
    /\ UNCHANGED <<user, cache, raced, changes>>

\* Mutant: a hit starts a new time to live.
MutantHitRenews(h) ==
    /\ handler[h].pc = "looked"
    /\ LET c == handler[h]
           row == user[c.caller]
       IN  handler' = [handler EXCEPT ![h] =
              IF ~(There(c.caller) /\ row.active) THEN Idle
              ELSE [c EXCEPT !.pc = "caching", !.role = IF @ = None THEN row.role ELSE @,
                             !.own = c.role = None]]
    /\ UNCHANGED <<user, cache, raced, changes, faults>>

\* The row decides whether the caller may go on, a cached profile as who.  On a
\* miss the row stays in the session, and is going to be cached.
CheckCaller(h) ==
    /\ handler[h].pc = "looked"
    /\ LET c == handler[h]
           row == user[c.caller]
       IN  handler' = [handler EXCEPT ![h] =
              IF ~(There(c.caller) /\ row.active) THEN Idle
              ELSE IF c.role # None THEN [c EXCEPT !.pc = "admitted"]
              ELSE [c EXCEPT !.pc = "caching", !.role = row.role, !.own = TRUE]]
    /\ UNCHANGED <<user, cache, raced, changes, faults>>

\* CacheManager.set: Redis, on an error the fallback.
Remember(h, up) ==
    /\ handler[h].pc = "caching"
    /\ Calls(up)
    /\ LET c == handler[h]
           store == IF up THEN Redis ELSE c.at
       IN  cache' = [cache EXCEPT ![store][c.caller] =
              [role |-> c.role, late |-> c.caller \in c.changed]]
    /\ handler' = [handler EXCEPT ![h].pc = "admitted"]
    /\ UNCHANGED <<user, raced, changes>>

\* The time to live of an entry ends.
Expire(s, u) ==
    /\ cache[s][u].role # None
    /\ cache' = [cache EXCEPT ![s][u] = NoProfile]
    /\ UNCHANGED <<user, handler, raced, changes, faults>>

\* CacheManager.clear, for purge_cache of maintenance/service.py.
Purge(p, up) ==
    /\ Calls(up)
    /\ cache' = [s \in Stores |->
          IF s = p \/ (up /\ s = Redis) THEN [u \in Users |-> NoProfile] ELSE cache[s]]
    /\ UNCHANGED <<user, handler, raced, changes>>

\* The request does not change a user, or is not allowed to.
Serve(h) ==
    /\ handler[h].pc = "admitted"
    /\ handler' = [handler EXCEPT ![h] = Idle]
    /\ UNCHANGED <<user, cache, raced, changes, faults>>

-----------------------------------------------------------------------------
(* Changing users.                                                         *)

\* Whoever holds a row while somebody else commits a change of user u.
Holding(h) ==
    \/ handler[h].pc \in {"checking", "writing"}
    \/ handler[h].pc \in {"caching", "admitted"} /\ handler[h].own

Changed(u) ==
    [h \in Handlers |->
        IF Holding(h) THEN [handler[h] EXCEPT !.changed = @ \cup {u}] ELSE handler[h]]

MayChange(h) ==
    /\ handler[h].pc = "admitted"
    /\ handler[h].role = "org_admin"
    /\ changes > 0 /\ changes' = changes - 1

\* create_user.
Create(h, u, role) ==
    /\ MayChange(h)
    /\ user[u].state = "none"
    /\ user' = [user EXCEPT ![u] = [state |-> "there", role |-> role, active |-> TRUE]]
    /\ handler' = [Changed(u) EXCEPT ![h] = Idle]
    /\ UNCHANGED <<cache, raced, faults>>

\* The target is read; its fields come from the session if it is the caller and
\* was read there.
ReadTarget(h, t, change) ==
    /\ MayChange(h)
    /\ There(t)
    /\ LET c == handler[h]
           own == c.own /\ t = c.caller
       IN  handler' = [handler EXCEPT ![h] =
              [pc |-> "checking", at |-> c.at, target |-> t, change |-> change,
               read |-> IF own THEN [state |-> "there", role |-> c.role, active |-> TRUE]
                        ELSE user[t],
               changed |-> IF own THEN c.changed ELSE {}]]
    /\ UNCHANGED <<user, cache, raced, faults>>

\* Mutant: only a demotion and a deletion are checked.
MutantDeactivationUnchecked(row, change) ==
    /\ row.role = "org_admin"
    /\ IF change = Deletion THEN row.active ELSE change.role = "member"

\* A change that would take an administrator away, as far as the row tells.
Protected(row, change) ==
    /\ row.role = "org_admin"
    /\ IF change = Deletion THEN row.active
       ELSE change.role = "member" \/ (change.active = FALSE /\ row.active)

\* _check_last_admin_protection, for such a change.
CheckAdmins(h) ==
    /\ handler[h].pc = "checking"
    /\ handler' = [handler EXCEPT ![h] =
          IF Protected(@.read, @.change) /\ Cardinality(Admins) <= 1 THEN Idle
          ELSE [@ EXCEPT !.pc = "writing"]]
    /\ UNCHANGED <<user, cache, raced, changes, faults>>

\* The row that a change leaves.
After(row, change) ==
    IF change = Deletion THEN NoRow("gone")
    ELSE [row EXCEPT !.role = IF change.role = Same THEN @ ELSE change.role,
                     !.active = IF change.active = Same THEN @ ELSE change.active]

\* Only an update invalidates the profile.
Next_(change, target, p) ==
    IF change = Deletion THEN Idle ELSE [pc |-> "invalidating", at |-> p, target |-> target]

\* Mutant: the profile is left to its time to live.
MutantNoInvalidation(h) ==
    /\ handler[h].pc = "writing"
    /\ LET c == handler[h]
           t == c.target
           row == After(user[t], c.change)
       IN  /\ There(t)
           /\ user' = [user EXCEPT ![t] = row]
           /\ handler' = [Changed(t) EXCEPT ![h] = Idle]
           /\ raced' = (raced \/ (c.changed # {} /\ Admin(t) /\ Protected(user[t], c.change)))
    /\ UNCHANGED <<cache, changes, faults>>

\* UPDATE or DELETE, and the commit.  A user who is gone meanwhile is not found.
Commit(h) ==
    /\ handler[h].pc = "writing"
    /\ LET c == handler[h]
           t == c.target
           row == After(user[t], c.change)
       IN  IF ~There(t)
           THEN handler' = [handler EXCEPT ![h] = Idle] /\ UNCHANGED <<user, raced>>
           ELSE /\ user' = [user EXCEPT ![t] = row]
                /\ handler' = [(IF row = user[t] THEN handler ELSE Changed(t))
                      EXCEPT ![h] = Next_(c.change, t, c.at)]
                /\ raced' = (raced \/ (c.changed # {} /\ Admin(t) /\ Protected(user[t], c.change)))
    /\ UNCHANGED <<cache, changes, faults>>

\* The profiles of u after an invalidation that reaches the stores in S.
Without(u, S) ==
    [s \in Stores |-> [cache[s] EXCEPT ![u] =
        IF s \in S \/ @.role = None THEN NoProfile ELSE [@ EXCEPT !.late = TRUE]]]

\* CacheManager.invalidate: Redis and the fallback of this process only.
Invalidate(h, up) ==
    /\ handler[h].pc = "invalidating"
    /\ Calls(up)
    /\ cache' = Without(handler[h].target, {handler[h].at} \cup (IF up THEN {Redis} ELSE {}))
    /\ handler' = [handler EXCEPT ![h] = Idle]
    /\ UNCHANGED <<user, raced, changes>>

\* A request fails or dies: its transaction is rolled back, its invalidation
\* does not happen.
Abort(h) ==
    /\ handler[h].pc # "idle"
    /\ Fault
    /\ cache' = IF handler[h].pc = "invalidating" THEN Without(handler[h].target, {}) ELSE cache
    /\ handler' = [handler EXCEPT ![h] = Idle]
    /\ UNCHANGED <<user, raced, changes>>

-----------------------------------------------------------------------------
HandlerStep(h) ==
    \/ CheckCaller(h) \/ Serve(h) \/ CheckAdmins(h) \/ Commit(h) \/ Abort(h)
    \/ \E up \in BOOLEAN : Remember(h, up) \/ Invalidate(h, up)
    \/ \E u \in Users, p \in Processes, up \in BOOLEAN : Arrive(h, u, p, up)
    \/ \E u \in Users, role \in Roles : Create(h, u, role)
    \/ \E t \in Users, change \in Changes : ReadTarget(h, t, change)

Next ==
    \/ \E h \in Handlers : HandlerStep(h)
    \/ \E s \in Stores, u \in Users : Expire(s, u)
    \/ \E p \in Processes, up \in BOOLEAN : Purge(p, up)

Spec == Init /\ [][Next]_vars

\* Entries expire, and a request that has read a profile goes on.
FairSpec ==
    /\ Spec
    /\ \A h \in Handlers : WF_vars(Remember(h, TRUE) \/ Remember(h, FALSE))
    /\ \A s \in Stores, u \in Users : WF_vars(Expire(s, u))

-----------------------------------------------------------------------------
ArrivalState ==
    [pc : {"looked"}, at : Processes, caller : Users, role : Roles \cup {None},
     own : {FALSE}, changed : {{}}]
CallerState ==
    [pc : {"caching", "admitted"}, at : Processes, caller : Users, role : Roles,
     own : BOOLEAN, changed : SUBSET Users]
ChangerState ==
    [pc : {"checking", "writing"}, at : Processes, target : Users, change : Changes,
     read : User, changed : SUBSET Users]
InvalidatorState == [pc : {"invalidating"}, at : Processes, target : Users]

HandlerState ==
    {Idle} \cup ArrivalState \cup CallerState \cup ChangerState \cup InvalidatorState

\* Every variable stays in its type.
TypeOK ==
    /\ user \in [Users -> User]
    /\ cache \in [Stores -> [Users -> Profile]]
    /\ handler \in [Handlers -> HandlerState]
    /\ raced \in BOOLEAN
    /\ changes \in 0..MaxChanges
    /\ faults \in 0..MaxFaults

\* The tenant keeps an active administrator, unless a change was committed on a
\* check that another committed change had overtaken.
AdminRemains == raced \/ Admins # {}

\* A cached role is that of the row, but while its invalidation is on its way; or
\* it was read before the update and cached after it, or the invalidation could
\* not reach it.
CacheIsCurrent ==
    \A s \in Stores, u \in Users :
        LET entry == cache[s][u]
        IN  There(u) /\ entry.role # None /\ ~entry.late =>
                \/ entry.role = user[u].role
                \/ \E h \in Handlers : handler[h].pc = "invalidating" /\ handler[h].target = u

\* Nobody has been read or cached before having existed.
NoneUnborn ==
    /\ \A s \in Stores, u \in Users :
          cache[s][u].role # None => user[u].state # "none"
    /\ \A h \in Handlers :
          handler[h].pc \in {"looked", "caching"} => user[handler[h].caller].state # "none"

\* What a request is going to cache is still the row, or it is known to be late.
ReadersAreCurrent ==
    \A h \in Handlers : handler[h].pc = "caching" =>
        /\ handler[h].own
        /\ \/ handler[h].caller \in handler[h].changed
           \/ handler[h].role = user[handler[h].caller].role

\* A request that nobody has overtaken has the row of its target as it is ...
ChangersAreCurrent ==
    \A h \in Handlers :
        /\ handler[h].pc \in {"checking", "writing"} /\ handler[h].changed = {} =>
              handler[h].read = user[handler[h].target]
        /\ handler[h].pc \in {"caching", "admitted"} /\ handler[h].own /\ handler[h].changed = {} =>
              user[handler[h].caller] =
                  [state |-> "there", role |-> handler[h].role, active |-> TRUE]

\* ... and leaves an administrator.
AnotherAdmin ==
    \A h \in Handlers :
        LET c == handler[h]
        IN  c.pc = "writing" /\ c.changed = {} /\ Protected(c.read, c.change) =>
                \E u \in Admins : u # c.target

\* The inductive invariant of Members_proofs.
IInv ==
    /\ TypeOK /\ AdminRemains /\ CacheIsCurrent /\ NoneUnborn
    /\ ReadersAreCurrent /\ ChangersAreCurrent /\ AnotherAdmin

\* Once users are not changed any more, every cached role becomes right.
Agree(u) == There(u) => \A s \in Stores : cache[s][u].role \in {None, user[u].role}
StaleRolesEnd == \A u \in Users : <>[]Agree(u)
=============================================================================
