-------------------------- MODULE UserServiceProofs --------------------------
(***************************************************************************)
(* UserService is type-correct, keeps addresses unique and every cached    *)
(* entry under a key of its user and with a TTL, and lets nobody log in    *)
(* who was not an active user during the call: for any users, calls and    *)
(* faults.                                                                 *)
(***************************************************************************)
EXTENDS UserService, TLAPS

Codes == {"none", "OK", "NOT_FOUND", "INTERNAL", "PERMISSION_DENIED"}
CallRecord == [pc : PCs, key : Keys \cup {Nil}, patch : Patches \cup {Nil},
               copy : Copy \cup {Nil}]

\* k is a key of the user that copy is of.
Belongs(k, copy) == copy # Nil /\ k \in {copy.id, EmailOf[copy.id]}

\* Table and cache.
StoreOK ==
    /\ users \in [Users -> Row \cup {Nil}]
    /\ issued \subseteq Users
    /\ \A e \in Emails : \A u, v \in Under(e, users) : u = v
    /\ cache \in [Keys -> Copy \cup {Nil}]
    /\ \A k \in Keys : cache[k] # Nil => Belongs(k, cache[k])
    /\ expiring = {k \in Keys : cache[k] # Nil}
    /\ isConnected \in BOOLEAN

\* What a call carries at each await.
CallOK(c) ==
    /\ c \in CallRecord
    /\ c.pc # "idle" => c.key \in Keys
    /\ c.pc \in {"update", "reread", "refresh", "delete", "evict"} => c.key \in Users
    /\ c.pc = "update" => c.patch \in Patches
    /\ c.pc \in {"fill", "refresh"} => Belongs(c.key, c.copy)
    /\ c.pc = "compare" => c.copy # Nil

CallsOK ==
    /\ call \in [Handlers -> CallRecord]
    /\ \A h \in Handlers : CallOK(call[h])

ReplyOK == reply \in [Handlers -> Codes]
FaultsOK == faults \in 0..MaxFaults
SeenOK == seen \in [Handlers -> BOOLEAN]

\* A login that compares passwords with an active user's has seen one.
ComparedIsSeen ==
    \A h \in Handlers : At(h, "compare") /\ call[h].copy.row.isActive => seen[h]

IInv == StoreOK /\ CallsOK /\ ReplyOK /\ FaultsOK /\ SeenOK /\ ComparedIsSeen

LEMMA InvTypeOK == ASSUME IInv PROVE TypeOK
  BY DEF IInv, TypeOK, StoreOK, CallsOK, ReplyOK, FaultsOK, SeenOK, Codes,
         CallRecord, Belongs

----------------------------------------------------------------------------
(* Table and cache.                                                        *)

\* What is stored under a key is a user of the table with that key.
LEMMA StoredUser ==
    ASSUME StoreOK, NEW k \in Keys, Stored(k) # Nil
    PROVE  /\ Stored(k) \in Copy
           /\ Belongs(k, Stored(k))
           /\ Stored(k).id \in Under(k, users)
           /\ Stored(k).row = users[Stored(k).id]
<1> DEFINE u == CHOOSE v \in Under(k, users) : TRUE
<1>1. Under(k, users) # {}
  BY DEF Stored
<1>2. u \in Under(k, users)
  BY <1>1
<1>3. Stored(k) = [id |-> u, row |-> users[u]]
  BY <1>1 DEF Stored
<1>4. u \in Users /\ users[u] # Nil /\ k \in {u, EmailOf[u]}
  BY <1>2 DEF Under
<1>5. users[u] \in Row
  BY <1>4 DEF StoreOK
<1> HIDE DEF u
<1> QED
  BY <1>2, <1>3, <1>4, <1>5 DEF Copy, Belongs

\* A write to the table that adds no user to an address.
LEMMA RowsChange ==
    ASSUME StoreOK,
           users' \in [Users -> Row \cup {Nil}],
           \A v \in Users : users[v] = Nil => users'[v] = Nil,
           UNCHANGED <<issued, cache, expiring, isConnected>>
    PROVE  StoreOK'
<1>1. \A e \in Emails : Under(e, users)' \subseteq Under(e, users)
  BY DEF Under
<1>2. \A e \in Emails : \A u, v \in Under(e, users)' : u = v
  BY <1>1 DEF StoreOK
<1> QED
  BY <1>2 DEF StoreOK

LEMMA StoreUnchanged ==
    ASSUME StoreOK, UNCHANGED <<users, issued, cache, expiring>>,
           isConnected' \in BOOLEAN
    PROVE  StoreOK'
  BY DEF StoreOK, Under

LEMMA EntryChange ==
    ASSUME StoreOK, NEW k \in Keys, NEW copy \in Copy \cup {Nil},
           copy # Nil => Belongs(k, copy),
           cache' = [cache EXCEPT ![k] = copy],
           expiring' = IF copy = Nil THEN expiring \ {k} ELSE expiring \cup {k},
           UNCHANGED <<users, issued, isConnected>>
    PROVE  StoreOK'
<1>1. cache' \in [Keys -> Copy \cup {Nil}]
  BY DEF StoreOK
<1>2. \A j \in Keys : cache'[j] = IF j = k THEN copy ELSE cache[j]
  BY DEF StoreOK
<1>3. expiring' = {j \in Keys : cache'[j] # Nil}
  BY <1>2 DEF StoreOK
<1>4. \A j \in Keys : cache'[j] # Nil => Belongs(j, cache'[j])
  BY <1>2 DEF StoreOK
<1> QED
  BY <1>1, <1>3, <1>4 DEF StoreOK, Under

LEMMA WriteRow ==
    ASSUME StoreOK, NEW h \in Handlers, CallOK(call[h]),
           \/ call[h].pc = "update" /\ Affects(h) /\ UpdateRow(h)
           \/ call[h].pc = "delete" /\ Affects(h) /\ DeleteRow(h)
    PROVE  StoreOK'
<1> DEFINE u == call[h].key
<1>0. u \in Users /\ users[u] # Nil /\ users[u] \in Row
  BY DEF StoreOK, CallOK, Affects
<1>1. CASE call[h].pc = "update" /\ UpdateRow(h)
  <2> DEFINE patch == call[h].patch
             row == [roles |-> Decoded(patch.roles),
                     isActive |-> IF patch.isActive = Nil THEN users[u].isActive
                                  ELSE patch.isActive]
  <2>1. patch.roles \in RoleSets \cup {Nil} /\ patch.isActive \in BOOLEAN \cup {Nil}
    BY <1>1, PatchesAssumption DEF CallOK
  <2>2. users[u].isActive \in BOOLEAN
    BY <1>0 DEF Row
  <2>3. row \in Row
    BY <2>1, <2>2 DEF Row, Decoded
  <2>4. users' = [users EXCEPT ![u] = row]
    BY <1>1 DEF UpdateRow
  <2> HIDE DEF row
  <2>5. users' \in [Users -> Row \cup {Nil}]
    BY <2>3, <2>4 DEF StoreOK
  <2>6. \A v \in Users : users[v] = Nil => users'[v] = Nil
    BY <1>0, <2>4 DEF StoreOK
  <2> QED
    BY <1>1, <2>5, <2>6, RowsChange DEF UpdateRow
<1>2. CASE DeleteRow(h)
  <2>1. users' = [users EXCEPT ![u] = Nil]
    BY <1>2 DEF DeleteRow
  <2>2. users' \in [Users -> Row \cup {Nil}]
    BY <2>1 DEF StoreOK
  <2>3. \A v \in Users : users[v] = Nil => users'[v] = Nil
    BY <2>1 DEF StoreOK
  <2> QED
    BY <1>2, <2>2, <2>3, RowsChange DEF DeleteRow
<1> QED
  BY <1>1, <1>2

LEMMA ProvisionStore ==
    ASSUME StoreOK, NEW u \in Users, NEW roles \in RoleSets, Provision(u, roles)
    PROVE  StoreOK'
<1> DEFINE row == [roles |-> roles, isActive |-> TRUE]
<1>1. /\ users' = [users EXCEPT ![u] = row]
      /\ issued' = issued \cup {u}
      /\ UNCHANGED <<cache, expiring, isConnected>>
      /\ Under(EmailOf[u], users) = {}
  BY DEF Provision
<1>2. row \in Row
  BY DEF Row
<1> HIDE DEF row
<1>3. users' \in [Users -> Row \cup {Nil}]
  BY <1>1, <1>2 DEF StoreOK
<1>4. ASSUME NEW e \in Emails, NEW v \in Under(e, users)', NEW w \in Under(e, users)'
      PROVE  v = w
  <2>1. \A x \in Under(e, users)' : x \in Users /\ e = EmailOf[x]
    BY KeysAssumption DEF Under
  <2>2. \A x \in Under(e, users)' : x # u => x \in Under(e, users)
    BY <1>1 DEF Under, StoreOK
  <2>3. CASE e = EmailOf[u]
    BY <1>1, <2>2, <2>3
  <2>4. CASE e # EmailOf[u]
    BY <2>1, <2>2, <2>4 DEF StoreOK
  <2> QED
    BY <2>3, <2>4
<1> QED
  BY <1>1, <1>3, <1>4 DEF StoreOK

----------------------------------------------------------------------------
(* Calls.                                                                  *)

LEMMA CallMoves ==
    ASSUME CallsOK, NEW h \in Handlers, NEW c, CallOK(c),
           call' = [call EXCEPT ![h] = c]
    PROVE  CallsOK'
  BY DEF CallsOK, CallOK

LEMMA IdleOK == CallOK(Idle)
  BY DEF CallOK, Idle, CallRecord, PCs

LEMMA AnswerMoves ==
    ASSUME CallsOK, NEW h \in Handlers, NEW status \in Codes, Answer(h, status)
    PROVE  CallsOK' /\ ReplyOK'
<1>1. CallsOK'
  BY IdleOK, CallMoves DEF Answer
<1>2. ReplyOK'
  BY DEF Answer, ReplyOK, NoReply, Codes
<1> QED
  BY <1>1, <1>2

LEMMA MissingMoves ==
    ASSUME CallsOK, NEW h \in Handlers, AnswerMissing(h)
    PROVE  CallsOK' /\ ReplyOK'
<1>1. (IF call[h].key \in Users THEN "NOT_FOUND" ELSE "INTERNAL") \in Codes
  BY DEF Codes
<1> QED
  BY <1>1, AnswerMoves DEF AnswerMissing

LEMMA GotoRecord ==
    ASSUME CallsOK, NEW h \in Handlers, NEW pc, NEW copy, Goto(h, pc, copy)
    PROVE  /\ call' = [call EXCEPT ![h] = [pc |-> pc, key |-> call[h].key,
                                           patch |-> call[h].patch, copy |-> copy]]
           /\ reply' = NoReply
<1>1. call[h] \in CallRecord
  BY DEF CallsOK
<1>2. [call[h] EXCEPT !.pc = pc, !.copy = copy]
        = [pc |-> pc, key |-> call[h].key, patch |-> call[h].patch, copy |-> copy]
  <2>1. [call[h] EXCEPT !.pc = pc, !.copy = copy]
          = [[call[h] EXCEPT !.pc = pc] EXCEPT !.copy = copy]
    BY <1>1, Zenon DEF CallRecord
  <2>2. [call[h] EXCEPT !.pc = pc] = [pc |-> pc, key |-> call[h].key,
                                      patch |-> call[h].patch, copy |-> call[h].copy]
    BY <1>1 DEF CallRecord
  <2>3. [[pc |-> pc, key |-> call[h].key, patch |-> call[h].patch, copy |-> call[h].copy]
            EXCEPT !.copy = copy]
          = [pc |-> pc, key |-> call[h].key, patch |-> call[h].patch, copy |-> copy]
    OBVIOUS
  <2> QED
    BY <2>1, <2>2, <2>3
<1> QED
  BY <1>2 DEF Goto, Silent

LEMMA GotoMoves ==
    ASSUME CallsOK, NEW h \in Handlers, ~At(h, "idle"),
           NEW pc \in {"find", "fill", "compare", "reread", "refresh", "evict"},
           NEW copy \in Copy \cup {Nil},
           pc \in {"reread", "refresh", "evict"} => call[h].key \in Users,
           pc \in {"fill", "refresh"} => Belongs(call[h].key, copy),
           pc = "compare" => copy # Nil,
           Goto(h, pc, copy)
    PROVE  CallsOK' /\ ReplyOK'
<1> DEFINE c == [pc |-> pc, key |-> call[h].key, patch |-> call[h].patch, copy |-> copy]
<1>1. call' = [call EXCEPT ![h] = c] /\ reply' = NoReply
  BY GotoRecord
<1>2. call[h].key \in Keys /\ call[h].patch \in Patches \cup {Nil}
  BY DEF CallsOK, CallOK, CallRecord, At
<1>3. CallOK(c)
  BY <1>2 DEF CallOK, CallRecord, PCs
<1> HIDE DEF c
<1>4. CallsOK'
  BY <1>1, <1>3, CallMoves
<1>5. ReplyOK'
  BY <1>1 DEF ReplyOK, NoReply, Codes
<1> QED
  BY <1>4, <1>5

LEMMA CallStarts ==
    ASSUME IInv, NEW h \in Handlers, Call(h)
    PROVE  /\ StoreOK' /\ CallsOK' /\ ReplyOK' /\ FaultsOK'
           /\ call[h].pc = "idle"
           /\ \A g \in Handlers : g # h => call'[g] = call[g]
           /\ call'[h].pc # "compare"
<1>1. PICK pc \in {"get", "check", "login", "update", "delete"}, k \in Keys,
           patch \in Patches \cup {Nil} :
        /\ StartCall(h, pc, k, patch)
        /\ pc \in {"update", "delete"} => k \in Users
        /\ pc = "update" => patch \in Patches
  <2>1. CASE \E e \in Emails : GetUserByEmail(h, e) \/ CreateUser(h, e) \/ ValidateUser(h, e)
    BY <2>1 DEF GetUserByEmail, CreateUser, ValidateUser, Keys
  <2>2. CASE \E u \in Users : GetUser(h, u) \/ DeleteUser(h, u)
    BY <2>2 DEF GetUser, DeleteUser, Keys
  <2>3. ASSUME NEW u \in Users, NEW p \in Patches, UpdateUser(h, u, p)
        PROVE  /\ StartCall(h, "update", u, p)
               /\ u \in Keys /\ p \in Patches \cup {Nil}
    BY <2>3 DEF UpdateUser, Keys
  <2> QED
    BY <2>1, <2>2, <2>3 DEF Call
<1> DEFINE c == [pc |-> pc, key |-> k, patch |-> patch, copy |-> Nil]
<1>2. call' = [call EXCEPT ![h] = c] /\ reply' = NoReply
  BY <1>1 DEF StartCall, Silent
<1>3. CallOK(c)
  BY <1>1 DEF CallOK, CallRecord, PCs
<1>4. c.pc # "compare"
  OBVIOUS
<1> HIDE DEF c
<1>5. CallsOK'
  BY <1>2, <1>3, CallMoves DEF IInv
<1>6. ReplyOK'
  BY <1>2 DEF ReplyOK, NoReply, Codes
<1>7. StoreOK' /\ FaultsOK'
  BY <1>1, StoreUnchanged DEF IInv, StartCall, storeVars, FaultsOK, StoreOK
<1>8. call[h].pc = "idle"
  BY <1>1 DEF StartCall, At
<1> QED
  BY <1>2, <1>4, <1>5, <1>6, <1>7, <1>8 DEF IInv, CallsOK

----------------------------------------------------------------------------
(* The steps.                                                              *)

\* Without a write to the table or the cache.
LEMMA ReadSteps ==
    ASSUME IInv, NEW h \in Handlers,
           \/ CacheHit(h) \/ CacheMiss(h) \/ Find(h) \/ Check(h) \/ Login(h)
           \/ Compare(h) \/ Reread(h)
    PROVE  /\ StoreOK' /\ CallsOK' /\ ReplyOK' /\ FaultsOK'
<1>0. StoreOK /\ CallsOK /\ CallOK(call[h]) /\ {"OK", "INTERNAL", "PERMISSION_DENIED"} \subseteq Codes
  BY DEF IInv, CallsOK, Codes
<1>1. StoreOK' /\ FaultsOK'
  <2>1. UNCHANGED <<storeVars, faults>>
    BY DEF CacheHit, CacheMiss, Find, Check, Login, Compare, Reread
  <2> QED
    BY <2>1, StoreUnchanged DEF IInv, storeVars, FaultsOK, StoreOK
<1>2. CASE CacheHit(h)
  BY <1>0, <1>1, <1>2, AnswerMoves DEF CacheHit
<1>3. CASE CacheMiss(h)
  BY <1>0, <1>1, <1>3, GotoMoves DEF CacheMiss, At
<1>4. CASE Find(h)
  <2>1. call[h].pc = "find" /\ call[h].key \in Keys
    BY <1>0, <1>4 DEF Find, At, CallOK
  <2>2. CASE Stored(call[h].key) # Nil
    <3>1. Goto(h, "fill", Stored(call[h].key))
      BY <1>4, <2>2 DEF Find
    <3> QED
      BY <1>0, <1>1, <2>1, <2>2, <3>1, StoredUser, GotoMoves DEF At
  <2>3. CASE Stored(call[h].key) = Nil
    BY <1>0, <1>1, <1>4, <2>3, MissingMoves DEF Find
  <2> QED
    BY <2>2, <2>3
<1>5. CASE Check(h)
  BY <1>0, <1>1, <1>5, AnswerMoves DEF Check
<1>6. CASE Login(h)
  <2>1. call[h].pc = "login" /\ call[h].key \in Keys
    BY <1>0, <1>1, <1>6 DEF Login, At, CallOK
  <2>2. CASE Stored(call[h].key) # Nil
    <3>1. Goto(h, "compare", Stored(call[h].key))
      BY <1>6, <2>2 DEF Login
    <3> QED
      BY <1>0, <1>1, <2>1, <2>2, <3>1, StoredUser, GotoMoves DEF At
  <2>3. CASE Stored(call[h].key) = Nil
    BY <1>0, <1>1, <1>6, <2>3, MissingMoves DEF Login
  <2> QED
    BY <2>2, <2>3
<1>7. CASE Compare(h)
  <2>1. PICK isValid \in BOOLEAN :
          Answer(h, IF call[h].copy.row.isActive /\ isValid THEN "OK"
                    ELSE "PERMISSION_DENIED")
    BY <1>7 DEF Compare
  <2>2. (IF call[h].copy.row.isActive /\ isValid THEN "OK" ELSE "PERMISSION_DENIED") \in Codes
    BY DEF Codes
  <2> QED
    BY <1>0, <1>1, <2>1, <2>2, AnswerMoves
<1>8. CASE Reread(h)
  <2>1. call[h].pc = "reread" /\ call[h].key \in Keys /\ call[h].key \in Users
    BY <1>0, <1>1, <1>8 DEF Reread, At, CallOK
  <2>2. CASE Stored(call[h].key) # Nil
    <3>1. Goto(h, "refresh", Stored(call[h].key))
      BY <1>8, <2>2 DEF Reread
    <3> QED
      BY <1>0, <1>1, <2>1, <2>2, <3>1, StoredUser, GotoMoves DEF At
  <2>3. CASE Stored(call[h].key) = Nil
    BY <1>0, <1>1, <1>8, <2>3, MissingMoves DEF Reread
  <2> QED
    BY <2>2, <2>3
<1> QED
  BY <1>1, <1>2, <1>3, <1>4, <1>5, <1>6, <1>7, <1>8

LEMMA OneMoreFault == ASSUME FaultsOK, Fault PROVE FaultsOK'
  BY BoundAssumption DEF FaultsOK, Fault

LEMMA WriteSteps ==
    ASSUME IInv, NEW h \in Handlers,
           \/ Fill(h) \/ CacheWriteLost(h) \/ Update(h) \/ Refresh(h)
           \/ Delete(h) \/ Evict(h) \/ StatementFails(h) \/ AnswerLost(h)
    PROVE  /\ StoreOK' /\ CallsOK' /\ ReplyOK' /\ FaultsOK'
<1>0. StoreOK /\ CallsOK /\ FaultsOK /\ CallOK(call[h]) /\ {"OK", "INTERNAL"} \subseteq Codes
  BY DEF IInv, CallsOK, Codes
<1>1. CASE Fill(h) \/ Refresh(h)
  <2>1. /\ CacheSet(call[h].key, call[h].copy) /\ Answer(h, "OK")
        /\ UNCHANGED <<users, issued, isConnected, faults>>
        /\ call[h].pc \in {"fill", "refresh"}
    BY <1>1 DEF Fill, Refresh, At
  <2>2. /\ call[h].key \in Keys /\ call[h].copy \in Copy \cup {Nil}
        /\ call[h].copy # Nil /\ Belongs(call[h].key, call[h].copy)
    BY <1>0, <2>1 DEF CallOK, CallRecord, Belongs
  <2>3. StoreOK'
    BY <1>0, <2>1, <2>2, EntryChange DEF CacheSet
  <2> QED
    BY <1>0, <2>1, <2>3, AnswerMoves DEF FaultsOK
<1>2. CASE Evict(h)
  <2>1. call[h].key \in Keys
    BY <1>0, <1>2 DEF Evict, At, CallOK
  <2>2. StoreOK'
    BY <1>0, <1>2, <2>1, EntryChange DEF Evict, CacheDelete
  <2> QED
    BY <1>0, <1>2, <2>2, AnswerMoves DEF Evict, FaultsOK
<1>3. CASE CacheWriteLost(h) \/ StatementFails(h)
  <2>1. UNCHANGED storeVars /\ (Fault \/ UNCHANGED faults)
        /\ (Answer(h, "OK") \/ Answer(h, "INTERNAL"))
    BY <1>0, <1>3 DEF CacheWriteLost, StatementFails, StoreOK
  <2> QED
    BY <1>0, <2>1, AnswerMoves, StoreUnchanged, OneMoreFault
       DEF storeVars, FaultsOK, StoreOK
<1>4. CASE Update(h) \/ Delete(h)
  <2>1. /\ call[h].pc \in {"update", "delete"} /\ call[h].key \in Users
        /\ UNCHANGED faults
    BY <1>0, <1>4 DEF Update, Delete, At, CallOK
  <2>2. CASE Affects(h)
    <3>1. \/ call[h].pc = "update" /\ UpdateRow(h) /\ Goto(h, "reread", Nil)
          \/ call[h].pc = "delete" /\ DeleteRow(h) /\ Goto(h, "evict", Nil)
      BY <1>4, <2>2 DEF Update, Delete, At
    <3>2. StoreOK'
      BY <1>0, <2>2, <3>1, WriteRow
    <3>3. CallsOK' /\ ReplyOK'
      BY <1>0, <2>1, <3>1, GotoMoves DEF At
    <3> QED
      BY <1>0, <2>1, <3>2, <3>3 DEF FaultsOK
  <2>3. CASE ~Affects(h)
    <3>1. AnswerMissing(h) /\ UNCHANGED storeVars
      BY <1>4, <2>3 DEF Update, Delete
    <3> QED
      BY <1>0, <2>1, <3>1, MissingMoves, StoreUnchanged DEF storeVars, FaultsOK, StoreOK
  <2> QED
    BY <2>2, <2>3
<1>5. CASE AnswerLost(h)
  <2>1. StoreOK'
    BY <1>0, <1>5, WriteRow DEF AnswerLost, At
  <2> QED
    BY <1>0, <1>5, <2>1, AnswerMoves, OneMoreFault DEF AnswerLost
<1> QED
  BY <1>1, <1>2, <1>3, <1>4, <1>5

LEMMA WorldSteps ==
    ASSUME IInv,
           \/ \E u \in Users, roles \in RoleSets : Provision(u, roles)
           \/ \E k \in Keys : Expire(k)
           \/ RedisError \/ RedisReady \/ Crash
    PROVE  /\ StoreOK' /\ CallsOK' /\ ReplyOK' /\ FaultsOK'
           /\ \A h \in Handlers : call'[h] = call[h] \/ call'[h] = Idle
<1>0. StoreOK /\ CallsOK /\ FaultsOK
  BY DEF IInv
<1>1. ReplyOK'
  <2>1. reply' = NoReply
    BY DEF Provision, Expire, RedisError, RedisReady, Crash, Silent
  <2> QED
    BY <2>1 DEF ReplyOK, NoReply, Codes
<1>2. CallsOK' /\ \A h \in Handlers : call'[h] = call[h] \/ call'[h] = Idle
  <2>1. CASE UNCHANGED call
    BY <1>0, <2>1 DEF CallsOK
  <2>2. CASE call' = [h \in Handlers |-> Idle]
    BY <2>2, IdleOK DEF CallsOK, CallOK
  <2> QED
    BY <2>1, <2>2 DEF Provision, Expire, RedisError, RedisReady, Crash
<1>3. StoreOK' /\ FaultsOK'
  <2>1. ASSUME NEW u \in Users, NEW roles \in RoleSets, Provision(u, roles)
        PROVE  StoreOK' /\ FaultsOK'
    BY <1>0, <2>1, ProvisionStore DEF Provision, FaultsOK
  <2>2. ASSUME NEW k \in Keys, Expire(k)
        PROVE  StoreOK' /\ FaultsOK'
    BY <1>0, <2>2, EntryChange DEF Expire, FaultsOK
  <2>3. CASE RedisError \/ RedisReady \/ Crash
    BY <1>0, <2>3, StoreUnchanged, OneMoreFault DEF RedisError, RedisReady, Crash, FaultsOK
  <2> QED
    BY <2>1, <2>2, <2>3
<1> QED
  BY <1>1, <1>2, <1>3

----------------------------------------------------------------------------
(* Logins.                                                                 *)

\* A call gets to its comparison only by reading the table.
LEMMA Compares ==
    ASSUME IInv, NEW h \in Handlers, Next, call'[h].pc = "compare"
    PROVE  call'[h] = call[h] \/ Login(h)
<1>0. CallsOK /\ call \in [Handlers -> CallRecord] /\ Idle.pc # "compare"
  BY DEF IInv, CallsOK, Idle
<1>1. ASSUME NEW g \in Handlers, Call(g)
      PROVE  call'[h] = call[h]
  BY <1>1, CallStarts
<1>2. ASSUME NEW g \in Handlers, NEW pc, NEW copy, Goto(g, pc, copy), pc # "compare"
      PROVE  call'[h] = call[h]
  <2>1. call' = [call EXCEPT ![g] = [pc |-> pc, key |-> call[g].key,
                                     patch |-> call[g].patch, copy |-> copy]]
    BY <1>0, <1>2, GotoRecord
  <2> QED
    BY <1>0, <1>2, <2>1
<1>3. ASSUME NEW g \in Handlers, NEW status, Answer(g, status)
      PROVE  call'[h] = call[h]
  BY <1>0, <1>3 DEF Answer
<1>4. ASSUME NEW g \in Handlers, AnswerMissing(g)
      PROVE  call'[h] = call[h]
  BY <1>3, <1>4 DEF AnswerMissing
<1>5. ASSUME NEW g \in Handlers, Step(g), g # h \/ ~Login(g)
      PROVE  call'[h] = call[h]
  <2>1. CASE Login(g) /\ g # h
    <3>1. ASSUME NEW copy, Goto(g, "compare", copy) PROVE call'[h] = call[h]
      BY <1>0, <2>1, <3>1, GotoRecord
    <3> QED
      BY <1>4, <2>1, <3>1 DEF Login
  <2>2. CASE CacheHit(g) \/ Fill(g) \/ CacheWriteLost(g) \/ Check(g) \/ Refresh(g) \/ Evict(g)
    BY <1>3, <2>2 DEF CacheHit, Fill, CacheWriteLost, Check, Refresh, Evict
  <2>3. CASE CacheMiss(g) \/ Find(g) \/ Update(g) \/ Reread(g) \/ Delete(g)
    BY <1>2, <1>4, <2>3 DEF CacheMiss, Find, Update, Reread, Delete
  <2>4. CASE Compare(g)
    BY <1>3, <2>4 DEF Compare
  <2> QED
    BY <1>5, <2>1, <2>2, <2>3, <2>4 DEF Step
<1>6. ASSUME NEW g \in Handlers, StatementFails(g) \/ AnswerLost(g)
      PROVE  call'[h] = call[h]
  BY <1>3, <1>6 DEF StatementFails, AnswerLost
<1>7. CASE \/ \E u \in Users, roles \in RoleSets : Provision(u, roles)
           \/ \E k \in Keys : Expire(k)
           \/ RedisError \/ RedisReady \/ Crash
  BY <1>0, <1>7, WorldSteps
<1> QED
  BY <1>1, <1>5, <1>6, <1>7 DEF Next

LEMMA SeenStep ==
    ASSUME IInv, Next
    PROVE  SeenOK' /\ ComparedIsSeen'
<1>1. seen' = [h \in Handlers |->
        /\ call'[h].pc \in {"login", "compare"}
        /\ seen[h] \/ ActiveUnder(call'[h].key, users')]
  BY DEF Next, Observe
<1>2. SeenOK'
  BY <1>1 DEF SeenOK, IInv, ActiveUnder
<1>3. ASSUME NEW h \in Handlers, call'[h].pc = "compare", call'[h].copy.row.isActive
      PROVE  seen'[h]
  <2>1. CASE call'[h] = call[h]
    BY <1>1, <1>3, <2>1 DEF IInv, ComparedIsSeen, At
  <2>2. CASE Login(h)
    <3> DEFINE k == call[h].key
               copy == Stored(k)
    <3>1. call[h].pc = "login" /\ k \in Keys
      BY <2>2 DEF Login, At, IInv, CallsOK, CallOK
    <3>2. copy # Nil /\ Goto(h, "compare", copy) /\ UNCHANGED users
      <4>1. ASSUME copy = Nil PROVE FALSE
        BY <1>3, <2>2, <4>1 DEF Login, AnswerMissing, Answer, Idle, IInv, CallsOK
      <4> QED
        BY <2>2, <4>1 DEF Login, storeVars
    <3>3. call'[h] = [pc |-> "compare", key |-> k, patch |-> call[h].patch, copy |-> copy]
      BY <3>2, GotoRecord DEF IInv, CallsOK
    <3>4. copy.id \in Under(k, users) /\ copy.row = users[copy.id]
      BY <3>1, <3>2, StoredUser DEF IInv
    <3> HIDE DEF copy, k
    <3>5. call'[h].key = k /\ call'[h].copy = copy
      BY <3>3
    <3>6. users[copy.id].isActive
      BY <1>3, <3>4, <3>5
    <3>7. ActiveUnder(call'[h].key, users')
      BY <3>2, <3>4, <3>5, <3>6 DEF ActiveUnder
    <3> QED
      BY <1>1, <1>3, <3>7
  <2> QED
    BY <1>3, <2>1, <2>2, Compares
<1> QED
  BY <1>2, <1>3 DEF ComparedIsSeen, At

----------------------------------------------------------------------------
LEMMA InitIInv == Init => IInv
<1> SUFFICES ASSUME Init PROVE IInv
  OBVIOUS
<1>1. StoreOK
  BY DEF Init, StoreOK, Under
<1>2. CallsOK
  BY IdleOK DEF Init, CallsOK, CallOK
<1>3. ReplyOK /\ FaultsOK /\ SeenOK
  BY BoundAssumption DEF Init, ReplyOK, NoReply, Codes, FaultsOK, SeenOK
<1>4. ComparedIsSeen
  BY DEF Init, ComparedIsSeen, At, Idle
<1> QED
  BY <1>1, <1>2, <1>3, <1>4 DEF IInv

LEMMA NextIInv == ASSUME IInv, [Next]_vars PROVE IInv'
<1>1. CASE UNCHANGED vars
  <2>1. StoreOK'
    BY <1>1, StoreUnchanged DEF IInv, vars, storeVars, StoreOK
  <2> QED
    BY <1>1, <2>1 DEF IInv, vars, storeVars, CallsOK, CallOK, ReplyOK, FaultsOK, SeenOK,
                      ComparedIsSeen, At
<1>2. CASE Next
  <2>1. ASSUME NEW h \in Handlers, Call(h) \/ Step(h) \/ StatementFails(h) \/ AnswerLost(h)
        PROVE  StoreOK' /\ CallsOK' /\ ReplyOK' /\ FaultsOK'
    BY <2>1, CallStarts, ReadSteps, WriteSteps DEF Step
  <2>2. StoreOK' /\ CallsOK' /\ ReplyOK' /\ FaultsOK'
    BY <1>2, <2>1, WorldSteps DEF Next
  <2>3. SeenOK' /\ ComparedIsSeen'
    BY <1>2, SeenStep
  <2> QED
    BY <2>2, <2>3 DEF IInv
<1> QED
  BY <1>1, <1>2

LEMMA Invariant == Spec => []IInv
<1> QED
  BY InitIInv, NextIInv, PTL DEF Spec

\* Table, cache and calls of the user service stay what they may be: no
\* address gets a second user, no entry lies under a key that is not its
\* user's, and none is without a TTL, however calls, failures and restarts
\* interleave.
THEOREM TypeCorrect == Spec => []TypeOK
<1> QED
  BY Invariant, InvTypeOK, PTL

\* A comparison that ends well is one with a user seen to be active.
LEMMA LoginStep ==
    ASSUME IInv, [Next]_vars,
           NEW h \in Handlers, At(h, "compare"), reply'[h] = "OK", ~UNCHANGED vars
    PROVE  seen[h]
<1>0. CallsOK /\ call \in [Handlers -> CallRecord]
  BY DEF IInv, CallsOK
<1>1. ASSUME NEW g \in Handlers, NEW status, Answer(g, status)
      PROVE  g = h /\ status = "OK"
  BY <1>1 DEF Answer, NoReply
<1>2. ASSUME reply' = NoReply PROVE FALSE
  BY <1>2 DEF NoReply
<1>3. Next
  OBVIOUS
<1>4. ASSUME NEW g \in Handlers, Call(g) PROVE FALSE
  BY <1>2, <1>4 DEF Call, GetUser, GetUserByEmail, CreateUser, ValidateUser, UpdateUser,
                    DeleteUser, StartCall, Silent
<1>5. ASSUME NEW g \in Handlers, AnswerMissing(g) PROVE FALSE
  BY <1>1, <1>5 DEF AnswerMissing
<1>6. ASSUME NEW g \in Handlers, NEW pc, NEW copy, Goto(g, pc, copy) PROVE FALSE
  BY <1>2, <1>6 DEF Goto, Silent
<1>7. ASSUME NEW g \in Handlers, Step(g) PROVE seen[h]
  <2>1. CASE CacheHit(g) \/ Fill(g) \/ CacheWriteLost(g) \/ Refresh(g) \/ Evict(g)
    <3>1. g = h /\ call[g].pc # "compare"
      BY <1>1, <2>1 DEF CacheHit, Fill, CacheWriteLost, Refresh, Evict, At
    <3> QED
      BY <3>1 DEF At
  <2>2. CASE Check(g)
    BY <1>1, <2>2 DEF Check
  <2>3. CASE CacheMiss(g) \/ Find(g) \/ Login(g) \/ Update(g) \/ Reread(g) \/ Delete(g)
    BY <1>5, <1>6, <2>3 DEF CacheMiss, Find, Login, Update, Reread, Delete
  <2>4. CASE Compare(g)
    <3>1. PICK isValid \in BOOLEAN :
            Answer(g, IF call[g].copy.row.isActive /\ isValid THEN "OK"
                      ELSE "PERMISSION_DENIED")
      BY <2>4 DEF Compare
    <3>2. g = h /\ (IF call[g].copy.row.isActive /\ isValid THEN "OK"
                    ELSE "PERMISSION_DENIED") = "OK"
      BY <1>1, <3>1
    <3>3. call[h].copy.row.isActive
      BY <3>2
    <3> QED
      BY <3>3 DEF IInv, ComparedIsSeen
  <2> QED
    BY <1>7, <2>1, <2>2, <2>3, <2>4 DEF Step
<1>8. ASSUME NEW g \in Handlers, StatementFails(g) \/ AnswerLost(g) PROVE FALSE
  BY <1>1, <1>8 DEF StatementFails, AnswerLost
<1>9. CASE \/ \E u \in Users, roles \in RoleSets : Provision(u, roles)
           \/ \E k \in Keys : Expire(k)
           \/ RedisError \/ RedisReady \/ Crash
  BY <1>2, <1>9 DEF Provision, Expire, RedisError, RedisReady, Crash, Silent
<1> QED
  BY <1>3, <1>4, <1>7, <1>8, <1>9 DEF Next

\* validateUser reads the table and not the cache: whoever it lets in was an
\* active user at some time since the call began.
THEOREM LoginsAreOfActiveUsers == Spec => LoginOfActiveUser
<1>1. ASSUME IInv, [Next]_vars
      PROVE  [\A h \in Handlers : At(h, "compare") /\ reply'[h] = "OK" => seen[h]]_vars
  BY <1>1, LoginStep
<1> QED
  BY <1>1, Invariant, PTL DEF Spec, LoginOfActiveUser
=============================================================================
