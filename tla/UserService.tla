---------------------------- MODULE UserService ----------------------------
(***************************************************************************)
(* The user service: gRPC handlers run interleaved in one process over one *)
(* users table and one Redis cache, in which a user is found under         *)
(* user:<id> and under user:<email>.  Entries are set with a TTL.  Of a    *)
(* user only the roles and isActive are modelled.  Nothing here ever       *)
(* inserts a row: CreateUser cannot (see Check), so users come from        *)
(* outside.                                                                *)
(***************************************************************************)
EXTENDS Naturals

CONSTANTS
    Users,      \* user ids (uuids, never reused)
    Emails,     \* e-mail addresses
    EmailOf,    \* EmailOf[u]: the address of u, which no update changes
    Handlers,   \* gRPC calls served at the same time
    RoleSets,   \* lists of roles a client may write
    Patches,    \* updates a client may ask for
    MaxFaults,  \* bound on crashes, failures and losses
    Nil         \* no row, no entry, no value

ASSUME KeysAssumption == Users \cap Emails = {} /\ Nil \notin Users \cup Emails
ASSUME EmailOfAssumption == EmailOf \in [Users -> Emails]
ASSUME RoleSetsAssumption == Nil \notin RoleSets
\* What an update leaves out is Nil.
ASSUME PatchesAssumption ==
    Patches \subseteq [roles : RoleSets \cup {Nil}, isActive : BOOLEAN \cup {Nil}]
ASSUME BoundAssumption == MaxFaults \in Nat

VARIABLES
    users,        \* users[u]: the row of u, or Nil
    issued,       \* the ids rows were ever inserted under
    cache,        \* cache[k]: the copy in Redis under user:<k>, or Nil
    expiring,     \* the keys in Redis with a TTL
    isConnected,  \* of RedisCacheService
    call,         \* call[h]: where a handler stands
    reply,        \* reply[h]: the status h answered with in the last step, or "none"
    faults,       \* faults so far
    seen          \* history: logins during which an active user was there

storeVars == <<users, issued, cache, expiring, isConnected>>
vars == <<storeVars, call, reply, faults, seen>>

Keys == Users \cup Emails
Row == [roles : RoleSets \cup {{}}, isActive : BOOLEAN]
Copy == [id : Users, row : Row]

\* The await a handler is at.
PCs == {"idle",
        "get", "find", "fill",          \* getUserById, getUserByEmail
        "check",                        \* CreateUser
        "login", "compare",             \* validateUser
        "update", "reread", "refresh",  \* updateUser
        "delete", "evict"}              \* deleteUser

Idle == [pc |-> "idle", key |-> Nil, patch |-> Nil, copy |-> Nil]
At(h, pc) == call[h].pc = pc
NoReply == [h \in Handlers |-> "none"]
Silent == reply' = NoReply

Init ==
    /\ users = [u \in Users |-> Nil]
    /\ issued = {}
    /\ cache = [k \in Keys |-> Nil]
    /\ expiring = {}
    /\ isConnected = FALSE
    /\ call = [h \in Handlers |-> Idle]
    /\ reply = NoReply
    /\ faults = 0
    /\ seen = [h \in Handlers |-> FALSE]

----------------------------------------------------------------------------
\* The users in the table under an id or an e-mail address: one or none.
Under(k, table) == {u \in Users : table[u] # Nil /\ k \in {u, EmailOf[u]}}

\* What the table holds under k.
Stored(k) ==
    IF Under(k, users) = {} THEN Nil
    ELSE LET u == CHOOSE u \in Under(k, users) : TRUE
         IN [id |-> u, row |-> users[u]]

Fault == faults < MaxFaults /\ faults' = faults + 1

Goto(h, pc, copy) ==
    /\ call' = [call EXCEPT ![h] = [@ EXCEPT !.pc = pc, !.copy = copy]]
    /\ Silent

Answer(h, status) ==
    /\ call' = [call EXCEPT ![h] = Idle]
    /\ reply' = [NoReply EXCEPT ![h] = status]

\* findById, update and delete throw NotFoundError, findByEmail wraps it in
\* a DatabaseError: toServiceError answers NOT_FOUND and INTERNAL.
AnswerMissing(h) ==
    Answer(h, IF call[h].key \in Users THEN "NOT_FOUND" ELSE "INTERNAL")

StartCall(h, pc, k, patch) ==
    /\ At(h, "idle")
    /\ call' = [call EXCEPT ![h] = [pc |-> pc, key |-> k, patch |-> patch,
                                    copy |-> Nil]]
    /\ Silent
    /\ UNCHANGED <<storeVars, faults>>

GetUser(h, u) == StartCall(h, "get", u, Nil)
GetUserByEmail(h, e) == StartCall(h, "get", e, Nil)
CreateUser(h, e) == StartCall(h, "check", e, Nil)
ValidateUser(h, e) == StartCall(h, "login", e, Nil)
UpdateUser(h, u, patch) == StartCall(h, "update", u, patch)
DeleteUser(h, u) == StartCall(h, "delete", u, Nil)

----------------------------------------------------------------------------
(* RedisCacheService.  One connection, commands in order, one writing      *)
(* process: a command takes effect where it is issued, or never.           *)

\* Mutant: the entry is set without a TTL.
CacheSet_Forever(k, copy) ==
    /\ isConnected
    /\ cache' = [cache EXCEPT ![k] = copy]
    /\ expiring' = expiring \ {k}

\* set(key, user, 3600) is not awaited; the handler goes on whatever
\* becomes of it.
CacheSet(k, copy) ==
    /\ isConnected
    /\ cache' = [cache EXCEPT ![k] = copy]
    /\ expiring' = expiring \cup {k}

CacheDelete(k) ==
    /\ isConnected
    /\ cache' = [cache EXCEPT ![k] = Nil]
    /\ expiring' = expiring \ {k}

\* The TTL of an entry is over.
Expire(k) ==
    /\ k \in expiring
    /\ cache' = [cache EXCEPT ![k] = Nil]
    /\ expiring' = expiring \ {k}
    /\ Silent
    /\ UNCHANGED <<users, issued, isConnected, call, faults>>

RedisError ==
    /\ isConnected
    /\ isConnected' = FALSE
    /\ Fault
    /\ Silent
    /\ UNCHANGED <<users, issued, cache, expiring, call>>

RedisReady ==
    /\ ~isConnected
    /\ isConnected' = TRUE
    /\ Silent
    /\ UNCHANGED <<users, issued, cache, expiring, call, faults>>

----------------------------------------------------------------------------
(* getUserById, getUserByEmail.                                            *)

\* A hit: dates from the cache are strings, whose toString() answers.
CacheHit(h) ==
    /\ At(h, "get")
    /\ isConnected
    /\ cache[call[h].key] # Nil
    /\ Answer(h, "OK")
    /\ UNCHANGED <<storeVars, faults>>

\* No entry, no connection, or no answer within 200ms.
CacheMiss(h) ==
    /\ At(h, "get")
    /\ Goto(h, "find", Nil)
    /\ UNCHANGED <<storeVars, faults>>

Find(h) ==
    LET copy == Stored(call[h].key) IN
    /\ At(h, "find")
    /\ IF copy # Nil THEN Goto(h, "fill", copy) ELSE AnswerMissing(h)
    /\ UNCHANGED <<storeVars, faults>>

Fill(h) ==
    /\ At(h, "fill")
    /\ CacheSet(call[h].key, call[h].copy)
    /\ Answer(h, "OK")
    /\ UNCHANGED <<users, issued, isConnected, faults>>

\* The write to the cache is skipped without a connection, or is lost.
CacheWriteLost(h) ==
    /\ call[h].pc \in {"fill", "refresh", "evict"}
    /\ isConnected => Fault
    /\ ~isConnected => UNCHANGED faults
    /\ Answer(h, "OK")
    /\ UNCHANGED storeVars

----------------------------------------------------------------------------
(* CreateUser, validateUser.                                               *)

\* CreateUser tests what findByEmail returns, but findByEmail throws when
\* there is no such user: whether the address is taken or not, it throws.
Check(h) ==
    /\ At(h, "check")
    /\ Answer(h, "INTERNAL")
    /\ UNCHANGED <<storeVars, faults>>

\* Mutant: validateUser gets its user through the cache.
Login_Cached(h) ==
    LET k == call[h].key
        copy == IF isConnected /\ cache[k] # Nil THEN cache[k] ELSE Stored(k)
    IN /\ At(h, "login")
       /\ IF copy # Nil THEN Goto(h, "compare", copy) ELSE AnswerMissing(h)
       /\ UNCHANGED <<storeVars, faults>>

Login(h) ==
    LET copy == Stored(call[h].key) IN
    /\ At(h, "login")
    /\ IF copy # Nil THEN Goto(h, "compare", copy) ELSE AnswerMissing(h)
    /\ UNCHANGED <<storeVars, faults>>

\* bcrypt.compare is over; the password may match or not.
Compare(h) ==
    /\ At(h, "compare")
    /\ \E isValid \in BOOLEAN :
         Answer(h, IF call[h].copy.row.isActive /\ isValid THEN "OK"
                   ELSE "PERMISSION_DENIED")
    /\ UNCHANGED <<storeVars, faults>>

----------------------------------------------------------------------------
(* updateUser, deleteUser: a statement, for an update a second one that    *)
(* reads the row back, then the write to the entry under the id.  The one  *)
(* under the e-mail address is left to its TTL.                            *)

\* protobuf has no absent list: roles that are left out arrive as [].
Decoded(roles) == IF roles = Nil THEN {} ELSE roles

UpdateRow(h) ==
    LET patch == call[h].patch IN
    /\ users' = [users EXCEPT ![call[h].key] =
          [roles |-> Decoded(patch.roles),
           isActive |-> IF patch.isActive = Nil THEN @.isActive
                        ELSE patch.isActive]]
    /\ UNCHANGED <<issued, cache, expiring, isConnected>>

DeleteRow(h) ==
    /\ users' = [users EXCEPT ![call[h].key] = Nil]
    /\ UNCHANGED <<issued, cache, expiring, isConnected>>

\* Whether a statement affects a row.
Affects(h) == users[call[h].key] # Nil

Update(h) ==
    /\ At(h, "update")
    /\ IF Affects(h) THEN UpdateRow(h) /\ Goto(h, "reread", Nil)
                     ELSE AnswerMissing(h) /\ UNCHANGED storeVars
    /\ UNCHANGED faults

\* update() answers what findById reads now, not what it wrote.
Reread(h) ==
    LET copy == Stored(call[h].key) IN
    /\ At(h, "reread")
    /\ IF copy # Nil THEN Goto(h, "refresh", copy) ELSE AnswerMissing(h)
    /\ UNCHANGED <<storeVars, faults>>

Refresh(h) ==
    /\ At(h, "refresh")
    /\ CacheSet(call[h].key, call[h].copy)
    /\ Answer(h, "OK")
    /\ UNCHANGED <<users, issued, isConnected, faults>>

Delete(h) ==
    /\ At(h, "delete")
    /\ IF Affects(h) THEN DeleteRow(h) /\ Goto(h, "evict", Nil)
                     ELSE AnswerMissing(h) /\ UNCHANGED storeVars
    /\ UNCHANGED faults

\* Mutant: the entry is overwritten with null instead of deleted.
Evict_WithNull(h) ==
    /\ At(h, "evict")
    /\ CacheSet(call[h].key, Nil)
    /\ Answer(h, "OK")
    /\ UNCHANGED <<users, issued, isConnected, faults>>

Evict(h) ==
    /\ At(h, "evict")
    /\ CacheDelete(call[h].key)
    /\ Answer(h, "OK")
    /\ UNCHANGED <<users, issued, isConnected, faults>>

----------------------------------------------------------------------------
(* The world around the service.                                           *)

\* A user is entered into the table; the address is unique.
Provision(u, roles) ==
    /\ u \notin issued
    /\ Under(EmailOf[u], users) = {}
    /\ users' = [users EXCEPT ![u] = [roles |-> roles, isActive |-> TRUE]]
    /\ issued' = issued \cup {u}
    /\ Silent
    /\ UNCHANGED <<cache, expiring, isConnected, call, faults>>

StatementFails(h) ==
    /\ call[h].pc \in {"find", "check", "login", "update", "reread", "delete"}
    /\ Fault
    /\ Answer(h, "INTERNAL")
    /\ UNCHANGED storeVars

\* A statement takes effect and its answer is lost.
AnswerLost(h) ==
    /\ \/ At(h, "update") /\ Affects(h) /\ UpdateRow(h)
       \/ At(h, "delete") /\ Affects(h) /\ DeleteRow(h)
    /\ Fault
    /\ Answer(h, "INTERNAL")

\* The process restarts: its calls are gone, Redis and the table stay.
Crash ==
    /\ Fault
    /\ call' = [h \in Handlers |-> Idle]
    /\ Silent
    /\ isConnected' = FALSE
    /\ UNCHANGED <<users, issued, cache, expiring>>

----------------------------------------------------------------------------
Call(h) ==
    \/ \E e \in Emails :
         GetUserByEmail(h, e) \/ CreateUser(h, e) \/ ValidateUser(h, e)
    \/ \E u \in Users :
         \/ GetUser(h, u) \/ DeleteUser(h, u)
         \/ \E patch \in Patches : UpdateUser(h, u, patch)

\* The next await of a handler is over.
Step(h) ==
    \/ CacheHit(h) \/ CacheMiss(h) \/ Find(h) \/ Fill(h) \/ CacheWriteLost(h)
    \/ Check(h) \/ Login(h) \/ Compare(h)
    \/ Update(h) \/ Reread(h) \/ Refresh(h) \/ Delete(h) \/ Evict(h)

\* Some user under k may log in.
ActiveUnder(k, table) == \E u \in Under(k, table) : table[u].isActive

Observe ==
    seen' = [h \in Handlers |->
        /\ call'[h].pc \in {"login", "compare"}
        /\ seen[h] \/ ActiveUnder(call'[h].key, users')]

Next ==
    /\ \/ \E h \in Handlers :
            Call(h) \/ Step(h) \/ StatementFails(h) \/ AnswerLost(h)
       \/ \E u \in Users, roles \in RoleSets : Provision(u, roles)
       \/ \E k \in Keys : Expire(k)
       \/ RedisError \/ RedisReady \/ Crash
    /\ Observe

(* Fairness: Redis removes what has a TTL.  Nothing is assumed of clients, *)
(* handlers or the connection.                                             *)
Spec == Init /\ [][Next]_vars /\ \A k \in Keys : WF_vars(Expire(k) /\ Observe)

----------------------------------------------------------------------------
\* Rows, entries and calls hold what they may hold; no address has two
\* users, what is cached under a key belongs there and has a TTL.
TypeOK ==
    /\ users \in [Users -> Row \cup {Nil}]
    /\ issued \subseteq Users
    /\ \A e \in Emails : \A u, v \in Under(e, users) : u = v
    /\ cache \in [Keys -> Copy \cup {Nil}]
    /\ \A k \in Keys : cache[k] # Nil => k \in {cache[k].id, EmailOf[cache[k].id]}
    /\ expiring = {k \in Keys : cache[k] # Nil}
    /\ isConnected \in BOOLEAN
    /\ call \in [Handlers -> [pc : PCs, key : Keys \cup {Nil},
                              patch : Patches \cup {Nil}, copy : Copy \cup {Nil}]]
    /\ reply \in [Handlers -> {"none", "OK", "NOT_FOUND", "INTERNAL",
                               "PERMISSION_DENIED"}]
    /\ faults \in 0..MaxFaults
    /\ seen \in [Handlers -> BOOLEAN]

Stale(k) == cache[k] # Nil /\ cache[k] # Stored(k)

\* An entry, under the id or under the address, that is stale again and
\* again is so because its user is written again and again: once a user is
\* left alone, deleted or not, Redis and the table agree for good.
EntriesConverge ==
    \A k \in Keys : []<>Stale(k) => []<><<Stored(k)' # Stored(k)>>_users

\* Whoever logs in was an active user of the table at some time since the
\* call began, whatever the cache still says.
LoginOfActiveUser ==
    [][\A h \in Handlers : At(h, "compare") /\ reply'[h] = "OK" => seen[h]]_vars

\* "creates user with hashed password and caches it": a call to create a
\* user whose address is free is not refused.
NewUserIsCreated ==
    [][\A h \in Handlers :
         At(h, "check") /\ reply'[h] # "none" /\ faults' = faults
            => Under(call[h].key, users) # {}]_vars
=============================================================================
