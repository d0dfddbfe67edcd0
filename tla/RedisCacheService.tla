-------------------------- MODULE RedisCacheService --------------------------
(***************************************************************************)
(* The cache class the services share, and the Redis client under it.      *)
(* Commands go through one pipe: queued in the client, sent, executed by   *)
(* Redis, answered in order.  The connection may break and come back,      *)
(* Redis may refuse a command, the process may restart.  Writes are not    *)
(* awaited, and a read is given up after 200ms.                            *)
(***************************************************************************)
EXTENDS Naturals, Sequences

CONSTANTS
    Keys,       \* keys of the cache
    Readers,    \* calls of get at the same time
    MaxWrites,  \* bound on the calls of set and delete
    MaxFaults   \* bound on lost connections, refused commands and restarts

ASSUME BoundsAssumption == MaxWrites \in Nat /\ MaxFaults \in Nat
\* A command is told by its number from one told by its reader.
ASSUME NamesAssumption == Keys # {} /\ Readers \cap Nat = {}

VARIABLES
    up,           \* the client has a connection
    isConnected,  \* the flag of RedisCacheService
    pipe,         \* commands without an answer, oldest first
    entry,        \* entry[k]: the write whose value Redis has under k, or 0
    read,         \* read[r]: a call of get, and what it was answered
    written,      \* what each write is, in the order of their calls, skipped or not
    applied,      \* history: the writes Redis applied, as it applied them
    refused,      \* history: a write was refused on this connection
    faults        \* faults so far

vars == <<up, isConnected, pipe, entry, read, written, applied, refused, faults>>

Miss == 0   \* null: no entry
Writes == 1..Len(written)

Init ==
    /\ up = FALSE /\ isConnected = FALSE
    /\ pipe = <<>>
    /\ entry = [k \in Keys |-> Miss]
    /\ read = [r \in Readers |-> [at |-> "idle", key |-> CHOOSE k \in Keys : TRUE,
                                  start |-> 0, value |-> Miss]]
    /\ written = <<>> /\ applied = <<>>
    /\ refused = FALSE
    /\ faults = 0

Fault == faults < MaxFaults /\ faults' = faults + 1

\* Mutant: the last command comes first.
Queue_LastFirst(c) == pipe' = <<c>> \o pipe

Queue(c) == pipe' = Append(pipe, c)

\* by: the write, by its number, or the reader.
Command(by) == [by |-> by, at |-> "queued", value |-> Miss]

----------------------------------------------------------------------------
(* The methods.  Without the flag none issues a command.                   *)

\* set (with or without a TTL) and delete.
Write(k, kind) ==
    /\ Len(written) < MaxWrites
    /\ written' = Append(written, [key |-> k, kind |-> kind])
    /\ IF isConnected THEN Queue(Command(Len(written) + 1)) ELSE UNCHANGED pipe
    /\ UNCHANGED <<up, isConnected, entry, read, applied, refused, faults>>

Set(k) == Write(k, "set")
SetEx(k) == Write(k, "setEx")
Delete(k) == Write(k, "del")

Get(r, k) ==
    /\ read[r].at = "idle"
    /\ read' = [read EXCEPT ![r] =
                  [at |-> IF isConnected THEN "waiting" ELSE "answered",
                   key |-> k, start |-> Len(written), value |-> Miss]]
    /\ IF isConnected THEN Queue(Command(r)) ELSE UNCHANGED pipe
    /\ UNCHANGED <<up, isConnected, entry, written, applied, refused, faults>>

\* The race with the timer: whatever comes second changes nothing.
Answered(r, value) ==
    IF read[r].at = "waiting"
    THEN [read EXCEPT ![r].at = "answered", ![r].value = value]
    ELSE read

\* Mutant: get waits for Redis.
Timeout_Never(r) == FALSE /\ UNCHANGED vars

\* 200ms are over.
Timeout(r) ==
    /\ read[r].at = "waiting"
    /\ read' = Answered(r, Miss)
    /\ UNCHANGED <<up, isConnected, pipe, entry, written, applied, refused, faults>>

\* The caller has its answer and may come again.  A bound of the model: not
\* before its command is out of the pipe.
Return(r) ==
    /\ read[r].at = "answered"
    /\ ~\E i \in DOMAIN pipe : pipe[i].by = r
    /\ read' = [read EXCEPT ![r].at = "idle"]
    /\ UNCHANGED <<up, isConnected, pipe, entry, written, applied, refused, faults>>

----------------------------------------------------------------------------
(* Redis at work.                                                          *)

\* The first command of the pipe that is at a stage goes on to another.
First(i, at) == pipe[i].at = at /\ \A j \in 1..(i - 1) : pipe[j].at # at

Send(i) ==
    /\ up /\ First(i, "queued")
    /\ pipe' = [pipe EXCEPT ![i].at = "sent"]
    /\ UNCHANGED <<up, isConnected, entry, read, written, applied, refused, faults>>

Execute(i) ==
    LET by == pipe[i].by IN
    /\ First(i, "sent")
    /\ IF by \in Readers
       THEN /\ pipe' = [pipe EXCEPT ![i].at = "done", ![i].value = entry[read[by].key]]
            /\ UNCHANGED <<entry, applied>>
       ELSE /\ pipe' = [pipe EXCEPT ![i].at = "done"]
            /\ entry' = [entry EXCEPT ![written[by].key] =
                           IF written[by].kind = "del" THEN Miss ELSE by]
            /\ applied' = Append(applied, by)
    /\ UNCHANGED <<up, isConnected, read, written, refused, faults>>

\* Redis answers with an error, out of memory for one.
Refuse(i) ==
    /\ First(i, "sent")
    /\ Fault
    /\ pipe' = [pipe EXCEPT ![i].at = "refused"]
    /\ UNCHANGED <<up, isConnected, entry, read, written, applied, refused>>

\* A value with a TTL is removed.
Expire(k) ==
    /\ entry[k] # Miss /\ written[entry[k]].kind = "setEx"
    /\ entry' = [entry EXCEPT ![k] = Miss]
    /\ UNCHANGED <<up, isConnected, pipe, read, written, applied, refused, faults>>

\* Mutant: a write that is refused is only logged.
WriteRefused_Logged == UNCHANGED isConnected

\* The catch of set and delete.
WriteRefused == isConnected' = FALSE

\* The answer to the oldest command arrives; get catches its errors, too.
Reply ==
    LET c == Head(pipe) IN
    /\ pipe # <<>> /\ c.at \in {"done", "refused"}
    /\ pipe' = Tail(pipe)
    /\ IF c.by \in Readers THEN read' = Answered(c.by, c.value) ELSE UNCHANGED read
    /\ IF c.by \notin Readers /\ c.at = "refused"
       THEN WriteRefused /\ refused' = TRUE
       ELSE UNCHANGED <<isConnected, refused>>
    /\ UNCHANGED <<up, entry, written, applied, faults>>

----------------------------------------------------------------------------
(* The connection.                                                         *)

\* Mutant: the client sends unanswered commands once more.
Dropped_SentAgain == pipe' = [i \in DOMAIN pipe |-> [pipe[i] EXCEPT !.at = "queued"]]

\* Commands that were sent, the first n, are rejected, whether Redis executed
\* them or not; those still queued wait for the next connection.
Dropped ==
    \E n \in 0..Len(pipe) :
        /\ \A i \in DOMAIN pipe : pipe[i].at = "queued" <=> i > n
        /\ pipe' = SubSeq(pipe, n + 1, Len(pipe))

\* "error", and the rejections.
ConnectionLost ==
    /\ up
    /\ Fault
    /\ up' = FALSE /\ isConnected' = FALSE
    /\ Dropped
    /\ read' = [r \in Readers |->
                  IF \E i \in DOMAIN pipe : pipe[i].by = r /\ pipe[i].at # "queued"
                  THEN Answered(r, Miss)[r] ELSE read[r]]
    /\ UNCHANGED <<entry, written, applied, refused>>

\* "ready": after the first attempt or after any of reconnectStrategy's.
Ready ==
    /\ ~up /\ up' = TRUE
    /\ isConnected' = TRUE
    /\ refused' = FALSE
    /\ UNCHANGED <<pipe, entry, read, written, applied, faults>>

\* The process restarts: its calls and its commands are gone.
Crash ==
    /\ Fault
    /\ up' = FALSE /\ isConnected' = FALSE
    /\ pipe' = <<>>
    /\ read' = [r \in Readers |-> [read[r] EXCEPT !.at = "idle", !.value = Miss]]
    /\ UNCHANGED <<entry, written, applied, refused>>

----------------------------------------------------------------------------
Next ==
    \/ \E k \in Keys : Set(k) \/ SetEx(k) \/ Delete(k) \/ Expire(k)
    \/ \E r \in Readers : Timeout(r) \/ Return(r) \/ \E k \in Keys : Get(r, k)
    \/ \E i \in DOMAIN pipe : Send(i) \/ Execute(i) \/ Refuse(i)
    \/ Reply
    \/ ConnectionLost \/ Ready \/ Crash

(* Fairness: the timer of get.  Nothing is assumed of Redis.               *)
Spec == Init /\ [][Next]_vars /\ \A r \in Readers : WF_vars(Timeout(r))

----------------------------------------------------------------------------
\* The pipe and the calls hold what they may hold, and a command is sent and
\* executed no sooner than those before it.
TypeOK ==
    /\ up \in BOOLEAN /\ isConnected \in BOOLEAN /\ refused \in BOOLEAN
    /\ pipe \in Seq([by : Writes \cup Readers, value : Writes \cup {Miss},
                     at : {"queued", "sent", "done", "refused"}])
    /\ entry \in [Keys -> Writes \cup {Miss}]
    /\ read \in [Readers -> [at : {"idle", "waiting", "answered"}, key : Keys,
                             start : Writes \cup {0}, value : Writes \cup {Miss}]]
    /\ written \in Seq([key : Keys, kind : {"set", "setEx", "del"}])
    /\ Len(written) <= MaxWrites
    /\ applied \in Seq(Writes)
    /\ faults \in 0..MaxFaults
    /\ \A i, j \in DOMAIN pipe : i < j =>
         /\ pipe[i].at = "queued" => pipe[j].at = "queued"
         /\ pipe[i].at = "sent" => pipe[j].at \in {"queued", "sent"}

\* Redis applies the writes in the order they were called for, each at most
\* once, over any breaks of the connection: callers that do not await a write
\* may rely on the next one to prevail.
AppliedInOrder ==
    \A i, j \in DOMAIN applied : i < j => applied[i] < applied[j]

Overtaken(w, r) ==
    \E i \in DOMAIN applied :
        /\ w < applied[i] /\ applied[i] <= read[r].start
        /\ written[applied[i]].key = read[r].key

\* What get answers is the value of the last write before it that was not
\* lost, or a miss.  For its callers a write thus takes effect where it is
\* called or never, which is what ProductService, OrderService and UserService
\* take a set for.
AnswerIsLatest ==
    \A r \in Readers : read[r].at = "answered" /\ read[r].value # Miss =>
        /\ written[read[r].value].key = read[r].key
        /\ ~Overtaken(read[r].value, r)

\* The flag tells whether there is a connection on which no write has been
\* refused: one refused write takes the cache out of use until the next break
\* of the connection, and nothing else does; no command is issued without one.
FlagTellsConnection == isConnected <=> up /\ ~refused

\* A call of get ends, whatever becomes of Redis.
EveryGetAnswered == \A r \in Readers : read[r].at = "waiting" ~> read[r].at # "waiting"
=============================================================================
