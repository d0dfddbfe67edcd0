-------------------------- MODULE RedisCacheProofs --------------------------
(***************************************************************************)
(* What RedisCacheService says of the order of writes, of what get answers *)
(* and of the flag holds for any keys, readers, writes and faults.         *)
(***************************************************************************)
EXTENDS RedisCacheService, SequenceTheorems, TLAPS

Stages == {"queued", "sent", "done", "refused"}
Commands == [by : Nat \cup Readers, at : Stages, value : Nat]
Written == [key : Keys, kind : {"set", "setEx", "del"}]
Reads == [at : {"idle", "waiting", "answered"}, key : Keys, start : Nat, value : Nat]

\* v is a miss, or the last write to the key of r's call that Redis applied
\* of those before the call.
Latest(v, r) ==
    v # Miss => v \in Writes /\ written[v].key = read[r].key /\ ~Overtaken(v, r)

\* A command of the pipe: one of a call that goes on; a write that is still
\* to be applied comes after all that were.
CommandOK(c) ==
    /\ c.by \in Readers =>
         /\ read[c.by].at # "idle"
         /\ c.at = "done" => Latest(c.value, c.by)
    /\ c.by \notin Readers =>
         /\ c.by \in Writes
         /\ c.at \in {"queued", "sent"} => \A i \in DOMAIN applied : applied[i] < c.by
    /\ c.value \in Writes \cup {Miss} /\ (c.at # "done" => c.value = Miss)

\* A command of the pipe and one behind it.
InOrder(c, d) ==
    /\ c.at = "queued" => d.at = "queued"
    /\ c.at = "sent" => d.at \in {"queued", "sent"}
    /\ d.by \notin Readers =>
         /\ c.by \notin Readers => c.by < d.by
         /\ c.by \in Readers => read[c.by].start < d.by

PipeOK ==
    /\ pipe \in Seq(Commands)
    /\ \A i \in DOMAIN pipe : CommandOK(pipe[i])
    /\ \A i, j \in DOMAIN pipe : i < j => InOrder(pipe[i], pipe[j])

AppliedOK ==
    /\ applied \in Seq(Nat)
    /\ \A i \in DOMAIN applied : applied[i] \in Writes
    /\ AppliedInOrder

WrittenOK ==
    /\ written \in Seq(Written)
    /\ Len(written) <= MaxWrites

\* Redis has under a key the last write to it.
EntryLatest(k) ==
    entry[k] # Miss =>
        /\ written[entry[k]].key = k
        /\ \A i \in DOMAIN applied : written[applied[i]].key = k => applied[i] <= entry[k]

EntryOK ==
    /\ entry \in [Keys -> Nat]
    /\ \A k \in Keys : entry[k] \in Writes \cup {Miss} /\ EntryLatest(k)

ReadOK ==
    /\ read \in [Readers -> Reads]
    /\ \A r \in Readers :
         /\ read[r].start \in Writes \cup {0}
         /\ read[r].value \in Writes \cup {Miss}

\* What was answered stays the latest: no command that is still in the pipe
\* is a write before the call.
AnswersOK ==
    \A r \in Readers : read[r].at = "answered" /\ read[r].value # Miss =>
        /\ Latest(read[r].value, r)
        /\ \A i \in DOMAIN pipe : pipe[i].by \notin Readers => read[r].start < pipe[i].by

FlagsOK ==
    /\ up \in BOOLEAN /\ isConnected \in BOOLEAN /\ refused \in BOOLEAN
    /\ FlagTellsConnection
FaultsOK == faults \in 0..MaxFaults

IInv ==
    /\ PipeOK /\ AppliedOK /\ WrittenOK /\ EntryOK /\ ReadOK /\ AnswersOK
    /\ FlagsOK /\ FaultsOK

----------------------------------------------------------------------------
LEMMA SeqOfSubset ==
    ASSUME NEW S, NEW T, NEW s \in Seq(S), \A i \in DOMAIN s : s[i] \in T
    PROVE  s \in Seq(T)
<1>1. Len(s) \in Nat /\ s \in [1..Len(s) -> S] /\ DOMAIN s = 1..Len(s)
  BY LenProperties
<1>2. s \in [1..Len(s) -> T]
  BY <1>1
<1> QED
  BY <1>1, <1>2, SeqDef

\* What is left of a sequence without its first n elements.
LEMMA SubSeqTail ==
    ASSUME NEW S, NEW s \in Seq(S), NEW n \in 0..Len(s)
    PROVE  /\ SubSeq(s, n + 1, Len(s)) \in Seq(S)
           /\ Len(SubSeq(s, n + 1, Len(s))) = Len(s) - n
           /\ \A i \in 1..(Len(s) - n) : SubSeq(s, n + 1, Len(s))[i] = s[i + n]
<1> DEFINE m == n + 1
           l == Len(s)
<1>1. l \in Nat /\ m \in Int /\ l \in Int /\ n \in Nat /\ n <= l
  BY LenProperties
<1>2. \A i \in m..l : s[i] \in S
  BY <1>1, ElementOfSeq
<1>3. l - m + 1 = l - n /\ \A i \in 1..(l - n) : m + i - 1 = i + n
  BY <1>1
<1>4. (IF m <= l THEN l - m + 1 ELSE 0) = l - n
  BY <1>1
<1> HIDE DEF m, l
<1>5. /\ SubSeq(s, m, l) \in Seq(S)
      /\ Len(SubSeq(s, m, l)) = IF m <= l THEN l - m + 1 ELSE 0
      /\ \A i \in 1..(l - m + 1) : SubSeq(s, m, l)[i] = s[m + i - 1]
  BY <1>1, <1>2, SubSeqProperties
<1>6. /\ SubSeq(s, m, l) \in Seq(S)
      /\ Len(SubSeq(s, m, l)) = l - n
      /\ \A i \in 1..(l - n) : SubSeq(s, m, l)[i] = s[i + n]
  BY <1>3, <1>4, <1>5
<1> QED
  BY <1>6 DEF m, l

LEMMA LensAreNat ==
    ASSUME IInv
    PROVE  /\ Len(written) \in Nat /\ DOMAIN written = 1..Len(written)
           /\ Len(pipe) \in Nat /\ DOMAIN pipe = 1..Len(pipe)
           /\ Len(applied) \in Nat /\ DOMAIN applied = 1..Len(applied)
           /\ Writes \subseteq Nat \ {0}
<1>1. written \in Seq(Written) /\ pipe \in Seq(Commands) /\ applied \in Seq(Nat)
  BY DEF IInv, WrittenOK, PipeOK, AppliedOK
<1> QED
  BY <1>1, LenProperties DEF Writes

LEMMA InvTypeOK == ASSUME IInv PROVE TypeOK
<1> DEFINE C == [by : Writes \cup Readers, value : Writes \cup {Miss}, at : Stages]
<1>1. pipe \in Seq(C)
  <2>1. ASSUME NEW i \in DOMAIN pipe PROVE pipe[i] \in C
    <3>1. pipe[i] \in Commands
      BY LensAreNat, ElementOfSeq DEF IInv, PipeOK
    <3>2. CommandOK(pipe[i])
      BY DEF IInv, PipeOK
    <3> QED
      BY <3>1, <3>2 DEF Commands, CommandOK
  <2> HIDE DEF C
  <2> QED
    BY <2>1, SeqOfSubset DEF IInv, PipeOK
<1>2. applied \in Seq(Writes)
  BY SeqOfSubset DEF IInv, AppliedOK
<1>3. entry \in [Keys -> Writes \cup {Miss}]
  BY DEF IInv, EntryOK
<1>4. read \in [Readers -> [at : {"idle", "waiting", "answered"}, key : Keys,
                            start : Writes \cup {0}, value : Writes \cup {Miss}]]
  BY DEF IInv, ReadOK, Reads
<1>5. \A i, j \in DOMAIN pipe : i < j =>
        /\ pipe[i].at = "queued" => pipe[j].at = "queued"
        /\ pipe[i].at = "sent" => pipe[j].at \in {"queued", "sent"}
  BY DEF IInv, PipeOK, InOrder
<1> QED
  BY <1>1, <1>2, <1>3, <1>4, <1>5
     DEF IInv, WrittenOK, FlagsOK, FaultsOK, TypeOK, Stages, Written

LEMMA InvAnswers == ASSUME IInv PROVE AnswerIsLatest
  BY DEF IInv, AnswersOK, Latest, AnswerIsLatest

----------------------------------------------------------------------------
(* Commands leave the pipe, and calls get on.                              *)

SameCall(r) == read'[r].key = read[r].key /\ read'[r].start = read[r].start

LEMMA LatestStays ==
    ASSUME NEW v, NEW r \in Readers, SameCall(r), Latest(v, r),
           UNCHANGED <<written, applied>>
    PROVE  Latest(v, r)'
  BY DEF SameCall, Latest, Overtaken, Writes

\* A call whose command stays goes on.  What it is answered, it was answered
\* before, or is the latest and ahead of the writes that stay.
GetsOn(r) ==
    /\ read'[r].value \in Writes \cup {Miss}
    /\ read'[r].at = "idle" => \A i \in DOMAIN pipe' : pipe'[i].by # r
    /\ read'[r].at = "answered" /\ read'[r].value # Miss =>
         \/ read[r].at = "answered" /\ read[r].value = read'[r].value
         \/ /\ Latest(read'[r].value, r)
            /\ \A i \in DOMAIN pipe' :
                 pipe'[i].by \notin Readers => read[r].start < pipe'[i].by

\* The first n commands leave.
LEMMA PipeShrinks ==
    ASSUME IInv, UNCHANGED <<entry, written, applied>>,
           NEW n \in 0..Len(pipe),
           pipe' \in Seq(Commands), Len(pipe') = Len(pipe) - n,
           \A i \in 1..Len(pipe') : pipe'[i] = pipe[i + n],
           read' \in [Readers -> Reads],
           \A r \in Readers : SameCall(r) /\ GetsOn(r)
    PROVE  /\ PipeOK' /\ AppliedOK' /\ WrittenOK' /\ EntryOK' /\ ReadOK' /\ AnswersOK'
<1>1. /\ Len(pipe) \in Nat /\ DOMAIN pipe = 1..Len(pipe)
      /\ DOMAIN pipe' = 1..Len(pipe') /\ Len(pipe') \in Nat
  BY LensAreNat, LenProperties
<1>2. \A i \in DOMAIN pipe' : i + n \in DOMAIN pipe /\ pipe'[i] = pipe[i + n]
  BY <1>1
<1>3. Writes' = Writes
  BY DEF Writes
<1>4. PipeOK'
  <2>1. ASSUME NEW i \in DOMAIN pipe' PROVE CommandOK(pipe[i])'
    <3>0. i + n \in DOMAIN pipe /\ pipe'[i] = pipe[i + n]
      BY <1>2
    <3>1. CommandOK(pipe'[i])
      BY <3>0 DEF IInv, PipeOK
    <3>2. pipe'[i].by \in Readers => read'[pipe'[i].by].at # "idle"
      BY DEF GetsOn
    <3>3. pipe'[i].by \in Readers /\ pipe'[i].at = "done"
            => Latest(pipe[i].value, pipe[i].by)'
      BY <3>1, LatestStays DEF CommandOK
    <3> QED
      BY <1>3, <3>1, <3>2, <3>3 DEF CommandOK
  <2>2. ASSUME NEW i \in DOMAIN pipe', NEW j \in DOMAIN pipe', i < j
        PROVE  InOrder(pipe[i], pipe[j])'
    <3>1. /\ i + n \in DOMAIN pipe /\ pipe'[i] = pipe[i + n]
          /\ j + n \in DOMAIN pipe /\ pipe'[j] = pipe[j + n]
          /\ i + n < j + n
      BY <1>1, <1>2, <2>2
    <3>2. InOrder(pipe'[i], pipe'[j])
      BY <3>1 DEF IInv, PipeOK
    <3> QED
      BY <3>2 DEF InOrder, SameCall
  <2> QED
    BY <2>1, <2>2 DEF PipeOK
<1>5. AppliedOK' /\ WrittenOK'
  BY <1>3 DEF IInv, AppliedOK, AppliedInOrder, WrittenOK
<1>6. EntryOK'
  BY <1>3 DEF IInv, EntryOK, EntryLatest
<1>7. ReadOK'
  BY <1>3 DEF IInv, ReadOK, SameCall, GetsOn
<1>8. AnswersOK'
  <2> SUFFICES ASSUME NEW r \in Readers, read'[r].at = "answered", read'[r].value # Miss
               PROVE  /\ Latest(read[r].value, r)'
                      /\ \A i \in DOMAIN pipe' :
                           pipe'[i].by \notin Readers => read'[r].start < pipe'[i].by
    BY DEF AnswersOK
  <2>1. /\ Latest(read'[r].value, r)
        /\ \A i \in DOMAIN pipe' : pipe'[i].by \notin Readers => read[r].start < pipe'[i].by
    <3>1. CASE read[r].at = "answered" /\ read[r].value = read'[r].value
      <4>1. /\ Latest(read[r].value, r)
            /\ \A i \in DOMAIN pipe : pipe[i].by \notin Readers => read[r].start < pipe[i].by
        BY <3>1 DEF IInv, AnswersOK
      <4> QED
        BY <1>2, <3>1, <4>1
    <3> QED
      BY <3>1 DEF GetsOn
  <2>2. Latest(read[r].value, r)'
    BY <2>1, LatestStays
  <2> QED
    BY <2>1, <2>2 DEF SameCall
<1> QED
  BY <1>4, <1>5, <1>6, <1>7, <1>8

\* What the race with the timer makes of a call.
LEMMA AnsweredRecord ==
    ASSUME ReadOK, NEW r \in Readers, NEW value \in Writes \cup {Miss}, Writes \subseteq Nat
    PROVE  /\ Answered(r, value) \in [Readers -> Reads]
           /\ \A q \in Readers : Answered(r, value)[q] =
                IF q = r /\ read[r].at = "waiting"
                THEN [at |-> "answered", key |-> read[r].key, start |-> read[r].start,
                      value |-> value]
                ELSE read[q]
<1>1. read \in [Readers -> Reads] /\ read[r] \in Reads /\ value \in Nat
  BY DEF ReadOK, Miss
<1> DEFINE x == [at |-> "answered", key |-> read[r].key, start |-> read[r].start,
                 value |-> read[r].value]
           y == [at |-> "answered", key |-> read[r].key, start |-> read[r].start,
                 value |-> value]
<1>2. y \in Reads
  BY <1>1 DEF Reads
<1>3. [[read[r] EXCEPT !.at = "answered"] EXCEPT !.value = value] = y
  <2>1. [read[r] EXCEPT !.at = "answered"] = x
    BY <1>1 DEF Reads
  <2>2. [x EXCEPT !.value = value] = y
    OBVIOUS
  <2> QED
    BY <2>1, <2>2
<1>4. read[r].at = "waiting" => Answered(r, value) = [read EXCEPT ![r] =
        [[read[r] EXCEPT !.at = "answered"] EXCEPT !.value = value]]
  BY <1>1 DEF Answered
<1> HIDE DEF x, y
<1>5. read[r].at = "waiting" => Answered(r, value) = [read EXCEPT ![r] = y]
  BY <1>3, <1>4
<1>6. read[r].at # "waiting" => Answered(r, value) = read
  BY DEF Answered
<1> QED
  BY <1>1, <1>2, <1>5, <1>6 DEF y

LEMMA TimeoutStep ==
    ASSUME IInv, NEW r \in Readers, Timeout(r) \/ Return(r)
    PROVE  IInv'
<1>0. /\ ReadOK /\ read \in [Readers -> Reads]
      /\ Writes \subseteq Nat \ {0} /\ Len(pipe) \in Nat /\ DOMAIN pipe = 1..Len(pipe)
      /\ UNCHANGED <<up, isConnected, pipe, entry, written, applied, refused, faults>>
  BY LensAreNat DEF IInv, ReadOK, Timeout, Return
<1>1. /\ read' \in [Readers -> Reads]
      /\ \A q \in Readers : SameCall(q) /\ GetsOn(q)
  <2>0. ASSUME NEW q \in Readers, read[q].at = "idle"
        PROVE  \A i \in DOMAIN pipe' : pipe'[i].by # q
    BY <1>0, <2>0 DEF IInv, PipeOK, CommandOK
  <2>1. CASE Timeout(r)
    <3>1. read' = Answered(r, Miss) /\ read[r].at = "waiting"
      BY <2>1 DEF Timeout
    <3>2. /\ read' \in [Readers -> Reads]
          /\ \A q \in Readers : read'[q] =
               IF q = r THEN [at |-> "answered", key |-> read[r].key, start |-> read[r].start,
                              value |-> Miss]
               ELSE read[q]
      BY <1>0, <3>1, AnsweredRecord
    <3> QED
      BY <1>0, <2>0, <3>2 DEF SameCall, GetsOn, ReadOK
  <2>2. CASE Return(r)
    <3> DEFINE y == [at |-> "idle", key |-> read[r].key, start |-> read[r].start,
                     value |-> read[r].value]
    <3>1. [read[r] EXCEPT !.at = "idle"] = y /\ y \in Reads
      BY <1>0 DEF Reads
    <3>2. read' = [read EXCEPT ![r] = y]
      BY <2>2, <3>1 DEF Return
    <3>3. \A i \in DOMAIN pipe' : pipe'[i].by # r
      BY <1>0, <2>2 DEF Return
    <3> QED
      BY <1>0, <2>0, <3>1, <3>2, <3>3 DEF SameCall, GetsOn, ReadOK
  <2> QED
    BY <2>1, <2>2
<1>2. /\ 0 \in 0..Len(pipe) /\ pipe' \in Seq(Commands) /\ Len(pipe') = Len(pipe) - 0
      /\ \A i \in 1..Len(pipe') : pipe'[i] = pipe[i + 0]
  BY <1>0 DEF IInv, PipeOK
<1>3. /\ PipeOK' /\ AppliedOK' /\ WrittenOK' /\ EntryOK' /\ ReadOK' /\ AnswersOK'
  BY <1>0, <1>1, <1>2, PipeShrinks
<1>4. FlagsOK' /\ FaultsOK'
  BY <1>0 DEF IInv, FlagsOK, FlagTellsConnection, FaultsOK
<1> QED
  BY <1>3, <1>4 DEF IInv

LEMMA ReplyStep ==
    ASSUME IInv, Reply
    PROVE  IInv'
<1> DEFINE c == pipe[1]
<1>0. /\ ReadOK /\ read \in [Readers -> Reads] /\ pipe \in Seq(Commands)
      /\ Writes \subseteq Nat \ {0} /\ Len(pipe) \in Nat /\ DOMAIN pipe = 1..Len(pipe)
      /\ UNCHANGED <<up, entry, written, applied, faults>>
  BY LensAreNat DEF IInv, ReadOK, PipeOK, Reply
<1>1. /\ pipe # <<>> /\ Head(pipe) = c /\ pipe' = Tail(pipe)
      /\ 1 \in DOMAIN pipe /\ 1 \in 0..Len(pipe)
  <2>1. pipe # <<>> /\ pipe' = Tail(pipe)
    BY DEF Reply
  <2>2. Len(pipe) \in Nat \ {0}
    BY <1>0, <2>1, EmptySeq
  <2> QED
    BY <1>0, <2>1, <2>2
<1>2. /\ pipe' \in Seq(Commands) /\ Len(pipe') = Len(pipe) - 1
      /\ \A i \in 1..Len(pipe') : pipe'[i] = pipe[i + 1]
  BY <1>0, <1>1, HeadTailProperties
<1>3. CommandOK(c) /\ c.at \in {"done", "refused"}
  BY <1>1 DEF IInv, PipeOK, Reply
<1>4. \A i \in DOMAIN pipe' : /\ i \in 1..Len(pipe') /\ i + 1 \in DOMAIN pipe /\ 1 < i + 1
  BY <1>0, <1>2, LenProperties
<1>5. ASSUME NEW q \in Readers, read[q].at = "idle"
      PROVE  \A i \in DOMAIN pipe' : pipe'[i].by # q
  BY <1>2, <1>4, <1>5 DEF IInv, PipeOK, CommandOK
<1>6. read' \in [Readers -> Reads] /\ \A q \in Readers : SameCall(q) /\ GetsOn(q)
  <2>1. CASE c.by \in Readers
    <3> DEFINE r == c.by
    <3>1. c.value \in Writes \cup {Miss} /\ (c.value # Miss => Latest(c.value, r))
      BY <1>3, <2>1 DEF CommandOK
    <3>2. \A i \in DOMAIN pipe' : pipe'[i].by \notin Readers => read[r].start < pipe'[i].by
      <4> SUFFICES ASSUME NEW i \in DOMAIN pipe', pipe'[i].by \notin Readers
                   PROVE  read[r].start < pipe'[i].by
        OBVIOUS
      <4>1. InOrder(c, pipe[i + 1]) /\ pipe'[i] = pipe[i + 1]
        BY <1>1, <1>2, <1>4 DEF IInv, PipeOK
      <4> QED
        BY <2>1, <4>1 DEF InOrder
    <3>3. read' = Answered(r, c.value)
      BY <1>1, <2>1 DEF Reply
    <3> HIDE DEF c
    <3>4. /\ read' \in [Readers -> Reads]
          /\ \A q \in Readers : read'[q] =
               IF q = r /\ read[r].at = "waiting"
               THEN [at |-> "answered", key |-> read[r].key, start |-> read[r].start,
                     value |-> c.value]
               ELSE read[q]
      BY <1>0, <2>1, <3>1, <3>3, AnsweredRecord
    <3>5. ASSUME NEW q \in Readers PROVE SameCall(q) /\ GetsOn(q)
      <4>1. CASE q = r /\ read[r].at = "waiting"
        BY <3>1, <3>2, <3>4, <4>1 DEF SameCall, GetsOn
      <4>2. CASE ~(q = r /\ read[r].at = "waiting")
        <5>1. read'[q] = read[q] /\ read[q].value \in Writes \cup {Miss}
          BY <1>0, <3>4, <4>2 DEF ReadOK
        <5> QED
          BY <1>5, <5>1 DEF SameCall, GetsOn
      <4> QED
        BY <4>1, <4>2
    <3> QED
      BY <3>4, <3>5
  <2>2. CASE c.by \notin Readers
    <3>1. UNCHANGED read
      BY <1>1, <2>2 DEF Reply
    <3> QED
      BY <1>0, <1>5, <3>1 DEF SameCall, GetsOn, ReadOK
  <2> QED
    BY <2>1, <2>2
<1>7. /\ PipeOK' /\ AppliedOK' /\ WrittenOK' /\ EntryOK' /\ ReadOK' /\ AnswersOK'
  BY <1>0, <1>1, <1>2, <1>6, PipeShrinks
<1>8. FlagsOK' /\ FaultsOK'
  <2>1. \/ isConnected' = FALSE /\ refused' = TRUE
        \/ UNCHANGED <<isConnected, refused>>
    BY DEF Reply, WriteRefused
  <2>2. CASE isConnected' = FALSE /\ refused' = TRUE
    BY <1>0, <2>2, Zenon DEF IInv, FlagsOK, FlagTellsConnection, FaultsOK
  <2>3. CASE UNCHANGED <<isConnected, refused>>
    BY <1>0, <2>3 DEF IInv, FlagsOK, FlagTellsConnection, FaultsOK
  <2> QED
    BY <2>1, <2>2, <2>3
<1> QED
  BY <1>7, <1>8 DEF IInv

LEMMA OneMoreFault == ASSUME FaultsOK, Fault PROVE FaultsOK'
  BY BoundsAssumption DEF FaultsOK, Fault

LEMMA ConnectionLostStep ==
    ASSUME IInv, ConnectionLost
    PROVE  IInv'
<1>0. /\ ReadOK /\ read \in [Readers -> Reads] /\ pipe \in Seq(Commands)
      /\ Writes \subseteq Nat \ {0} /\ Len(pipe) \in Nat /\ DOMAIN pipe = 1..Len(pipe)
      /\ UNCHANGED <<entry, written, applied, refused>>
  BY LensAreNat DEF IInv, ReadOK, PipeOK, ConnectionLost
<1>1. PICK n \in 0..Len(pipe) : pipe' = SubSeq(pipe, n + 1, Len(pipe))
  BY DEF ConnectionLost, Dropped
<1>2. /\ pipe' \in Seq(Commands) /\ Len(pipe') = Len(pipe) - n
      /\ \A i \in 1..Len(pipe') : pipe'[i] = pipe[i + n]
  <2> DEFINE t == SubSeq(pipe, n + 1, Len(pipe))
  <2>1. /\ t \in Seq(Commands) /\ Len(t) = Len(pipe) - n
        /\ \A i \in 1..(Len(pipe) - n) : t[i] = pipe[i + n]
    BY <1>0, SubSeqTail
  <2>2. pipe' = t
    BY <1>1
  <2> HIDE DEF t
  <2> QED
    BY <2>1, <2>2
<1>3. \A i \in DOMAIN pipe' : i + n \in DOMAIN pipe /\ pipe'[i] = pipe[i + n]
  BY <1>0, <1>2, LenProperties
<1>4. read' \in [Readers -> Reads] /\ \A q \in Readers : SameCall(q) /\ GetsOn(q)
  <2>1. ASSUME NEW q \in Readers
        PROVE  read'[q] \in Reads /\ SameCall(q) /\ GetsOn(q)
    <3>1. \/ read'[q] = read[q]
          \/ read'[q] = [at |-> "answered", key |-> read[q].key, start |-> read[q].start,
                         value |-> Miss]
      <4>1. read'[q] = Answered(q, Miss)[q] \/ read'[q] = read[q]
        BY DEF ConnectionLost
      <4> QED
        BY <1>0, <4>1, AnsweredRecord
    <3>2. read[q] \in Reads /\ read[q].value \in Writes \cup {Miss} /\ Miss \in Nat
      BY <1>0 DEF ReadOK, Miss
    <3>3. read[q].at = "idle" => \A i \in DOMAIN pipe' : pipe'[i].by # q
      BY <1>3 DEF IInv, PipeOK, CommandOK
    <3> QED
      BY <3>1, <3>2, <3>3 DEF SameCall, GetsOn, Reads
  <2> DEFINE e(r) == IF \E i \in DOMAIN pipe : pipe[i].by = r /\ pipe[i].at # "queued"
                     THEN Answered(r, Miss)[r] ELSE read[r]
  <2>2. read' = [r \in Readers |-> e(r)]
    BY DEF ConnectionLost
  <2> HIDE DEF e
  <2>3. \A r \in Readers : e(r) \in Reads
    BY <2>1, <2>2
  <2> QED
    BY <2>1, <2>2, <2>3
<1>5. /\ PipeOK' /\ AppliedOK' /\ WrittenOK' /\ EntryOK' /\ ReadOK' /\ AnswersOK'
  BY <1>0, <1>2, <1>4, PipeShrinks
<1>6. FlagsOK' /\ FaultsOK'
  BY <1>0, OneMoreFault DEF ConnectionLost, IInv, FlagsOK, FlagTellsConnection
<1> QED
  BY <1>5, <1>6 DEF IInv

LEMMA CrashStep ==
    ASSUME IInv, Crash
    PROVE  IInv'
<1>0. /\ ReadOK /\ read \in [Readers -> Reads] /\ pipe \in Seq(Commands)
      /\ Writes \subseteq Nat \ {0} /\ Len(pipe) \in Nat /\ DOMAIN pipe = 1..Len(pipe)
      /\ UNCHANGED <<entry, written, applied, refused>>
  BY LensAreNat DEF IInv, ReadOK, PipeOK, Crash
<1>1. /\ pipe' \in Seq(Commands) /\ Len(pipe') = Len(pipe) - Len(pipe)
      /\ \A i \in 1..Len(pipe') : pipe'[i] = pipe[i + Len(pipe)]
      /\ Len(pipe) \in 0..Len(pipe)
  <2>1. pipe' = <<>> /\ Len(<<>>) = 0 /\ <<>> \in Seq(Commands)
    BY EmptySeq DEF Crash
  <2> QED
    BY <1>0, <2>1
<1>2. DOMAIN pipe' = {}
  BY <1>0, <1>1, LenProperties
<1>3. read' \in [Readers -> Reads] /\ \A q \in Readers : SameCall(q) /\ GetsOn(q)
  <2>1. ASSUME NEW q \in Readers
        PROVE  read'[q] \in Reads /\ SameCall(q) /\ GetsOn(q)
    <3> DEFINE x == [at |-> "idle", key |-> read[q].key, start |-> read[q].start,
                     value |-> read[q].value]
               y == [at |-> "idle", key |-> read[q].key, start |-> read[q].start,
                     value |-> Miss]
    <3>1. read[q] \in Reads
      BY <1>0
    <3>2. [[read[q] EXCEPT !.at = "idle"] EXCEPT !.value = Miss] = y
      <4>1. [read[q] EXCEPT !.at = "idle"] = x
        BY <3>1 DEF Reads
      <4>2. [x EXCEPT !.value = Miss] = y
        OBVIOUS
      <4> QED
        BY <4>1, <4>2
    <3>3. read'[q] = [[read[q] EXCEPT !.at = "idle"] EXCEPT !.value = Miss]
      BY DEF Crash
    <3>4. read'[q] = y
      BY <3>2, <3>3
    <3> QED
      BY <1>2, <3>1, <3>4 DEF SameCall, GetsOn, Reads, Miss
  <2>2. read' = [q \in Readers |-> read'[q]]
    BY DEF Crash
  <2> QED
    BY <2>1, <2>2
<1>4. /\ PipeOK' /\ AppliedOK' /\ WrittenOK' /\ EntryOK' /\ ReadOK' /\ AnswersOK'
  BY <1>0, <1>1, <1>3, PipeShrinks
<1>5. FlagsOK' /\ FaultsOK'
  BY <1>0, OneMoreFault DEF Crash, IInv, FlagsOK, FlagTellsConnection
<1> QED
  BY <1>4, <1>5 DEF IInv

\* Nothing happens to commands, values and calls.
LEMMA NothingMoves ==
    ASSUME IInv, UNCHANGED <<pipe, entry, read, written, applied>>
    PROVE  /\ PipeOK' /\ AppliedOK' /\ WrittenOK' /\ EntryOK' /\ ReadOK' /\ AnswersOK'
<1>1. Writes' = Writes /\ \A v : \A r \in Readers : Latest(v, r)' <=> Latest(v, r)
  BY DEF Writes, Latest, Overtaken
<1> QED
  BY <1>1 DEF IInv, PipeOK, CommandOK, InOrder, AppliedOK, AppliedInOrder, WrittenOK,
              EntryOK, EntryLatest, ReadOK, AnswersOK

LEMMA ReadyStep == ASSUME IInv, Ready PROVE IInv'
<1>1. FlagsOK' /\ FaultsOK'
  BY DEF Ready, IInv, FlagsOK, FlagTellsConnection, FaultsOK
<1> QED
  BY <1>1, NothingMoves DEF Ready, IInv

----------------------------------------------------------------------------
(* A command of the pipe goes on.                                          *)

\* From "queued" to "sent", or from "sent" to its end.
MovesTo(i, c) ==
    /\ c.by = pipe[i].by
    /\ \/ First(i, "queued") /\ c.at = "sent"
       \/ First(i, "sent") /\ c.at \in {"done", "refused"}

\* The others keep their places, and the order.
LEMMA CommandMoves ==
    ASSUME IInv, NEW i \in DOMAIN pipe, NEW c \in Commands, MovesTo(i, c),
           pipe' = [pipe EXCEPT ![i] = c], UNCHANGED <<read, written>>
    PROVE  /\ pipe' \in Seq(Commands) /\ DOMAIN pipe' = DOMAIN pipe
           /\ \A j \in DOMAIN pipe : pipe'[j] = IF j = i THEN c ELSE pipe[j]
           /\ \A j, k \in DOMAIN pipe : j < k => InOrder(pipe[j], pipe[k])'
<1>1. /\ pipe \in Seq(Commands) /\ Len(pipe) \in Nat /\ DOMAIN pipe = 1..Len(pipe)
      /\ i \in 1..Len(pipe)
  BY LensAreNat DEF IInv, PipeOK
<1>2. /\ pipe' \in Seq(Commands) /\ Len(pipe') = Len(pipe)
      /\ \A j \in DOMAIN pipe : pipe'[j] = IF j = i THEN c ELSE pipe[j]
  BY <1>1, ExceptSeq
<1>3. DOMAIN pipe' = DOMAIN pipe
  BY <1>1, <1>2, LenProperties
<1>4. ASSUME NEW j \in DOMAIN pipe, NEW k \in DOMAIN pipe, j < k
      PROVE  InOrder(pipe[j], pipe[k])'
  <2>1. InOrder(pipe[j], pipe[k]) /\ j \in 1..(k - 1)
    BY <1>1, <1>4 DEF IInv, PipeOK
  <2>2. InOrder(pipe'[j], pipe'[k])
    <3>1. CASE j # i /\ k # i
      BY <1>2, <2>1, <3>1
    <3>2. CASE j = i
      <4>1. pipe'[j] = c /\ pipe'[k] = pipe[k]
        BY <1>1, <1>2, <1>4, <3>2
      <4>2. (pipe[i].at = "queued" /\ c.at = "sent") \/ c.at \in {"done", "refused"}
        BY DEF MovesTo, First
      <4> QED
        BY <2>1, <3>2, <4>1, <4>2 DEF InOrder, MovesTo
    <3>3. CASE k = i
      <4>1. pipe'[j] = pipe[j] /\ pipe'[k] = c
        BY <1>1, <1>2, <1>4, <3>3
      <4>2. \/ pipe[j].at # "queued" /\ c.at = "sent"
            \/ pipe[j].at # "sent" /\ pipe[i].at = "sent"
        BY <2>1, <3>3 DEF MovesTo, First
      <4> QED
        BY <2>1, <3>3, <4>1, <4>2 DEF InOrder, MovesTo
    <3> QED
      BY <3>1, <3>2, <3>3
  <2> QED
    BY <2>2 DEF InOrder
<1> QED
  BY <1>2, <1>3, <1>4

\* Nothing but the pipe changes: a command is sent, refused or a read.
LEMMA MoveOnly ==
    ASSUME IInv, NEW i \in DOMAIN pipe, NEW c \in Commands, MovesTo(i, c), CommandOK(c),
           pipe' = [pipe EXCEPT ![i] = c], UNCHANGED <<entry, read, written, applied>>
    PROVE  /\ PipeOK' /\ AppliedOK' /\ WrittenOK' /\ EntryOK' /\ ReadOK' /\ AnswersOK'
<1>1. Writes' = Writes /\ \A v : \A r \in Readers : Latest(v, r)' <=> Latest(v, r)
  BY DEF Writes, Latest, Overtaken
<1>2. /\ pipe' \in Seq(Commands) /\ DOMAIN pipe' = DOMAIN pipe
      /\ \A j \in DOMAIN pipe : pipe'[j] = IF j = i THEN c ELSE pipe[j]
      /\ \A j, k \in DOMAIN pipe : j < k => InOrder(pipe[j], pipe[k])'
  BY CommandMoves
<1>3. PipeOK'
  <2>1. ASSUME NEW j \in DOMAIN pipe PROVE CommandOK(pipe[j])'
    <3>1. CommandOK(pipe'[j])
      BY <1>2 DEF IInv, PipeOK
    <3> QED
      BY <1>1, <3>1 DEF CommandOK
  <2> QED
    BY <1>2, <2>1 DEF PipeOK
<1>4. AppliedOK' /\ WrittenOK' /\ EntryOK' /\ ReadOK'
  BY <1>1 DEF IInv, AppliedOK, AppliedInOrder, WrittenOK, EntryOK, EntryLatest, ReadOK
<1>5. AnswersOK'
  <2>1. \A j \in DOMAIN pipe : pipe'[j].by = pipe[j].by
    BY <1>2 DEF MovesTo
  <2> QED
    BY <1>1, <1>2, <2>1 DEF IInv, AnswersOK
<1> QED
  BY <1>3, <1>4, <1>5

LEMMA SendOrRefuseStep ==
    ASSUME IInv, NEW i \in DOMAIN pipe, Send(i) \/ Refuse(i)
    PROVE  IInv'
<1> DEFINE x == pipe[i]
           c == [by |-> x.by, at |-> IF Send(i) THEN "sent" ELSE "refused",
                 value |-> x.value]
<1>1. /\ pipe \in Seq(Commands) /\ DOMAIN pipe = 1..Len(pipe) /\ Len(pipe) \in Nat
      /\ x \in Commands /\ CommandOK(x)
      /\ UNCHANGED <<up, isConnected, entry, read, written, applied, refused>>
  BY LensAreNat, ElementOfSeq DEF IInv, PipeOK, Send, Refuse
<1>2. /\ c \in Commands /\ MovesTo(i, c) /\ CommandOK(c)
      /\ pipe' = [pipe EXCEPT ![i] = c]
  <2>1. CASE Send(i)
    <3>1. c = [by |-> x.by, at |-> "sent", value |-> x.value]
      BY <2>1
    <3>2. x.at = "queued" /\ MovesTo(i, c)
      BY <2>1, <3>1 DEF Send, First, MovesTo
    <3>3. pipe' = [pipe EXCEPT ![i] = [x EXCEPT !.at = "sent"]]
      BY <2>1, <1>1 DEF Send
    <3>4. [x EXCEPT !.at = "sent"] = c
      BY <1>1, <3>1 DEF Commands
    <3>5. c \in Commands
      BY <1>1, <3>1 DEF Commands, Stages
    <3>6. CommandOK(c)
      BY <1>1, <3>1, <3>2 DEF CommandOK
    <3> QED
      BY <3>2, <3>3, <3>4, <3>5, <3>6
  <2>2. CASE Refuse(i) /\ ~Send(i)
    <3>1. c = [by |-> x.by, at |-> "refused", value |-> x.value]
      BY <2>2
    <3>2. x.at = "sent" /\ MovesTo(i, c)
      BY <2>2, <3>1 DEF Refuse, First, MovesTo
    <3>3. pipe' = [pipe EXCEPT ![i] = [x EXCEPT !.at = "refused"]]
      BY <2>2, <1>1 DEF Refuse
    <3>4. [x EXCEPT !.at = "refused"] = c
      BY <1>1, <3>1 DEF Commands
    <3>5. c \in Commands
      BY <1>1, <3>1 DEF Commands, Stages
    <3>6. CommandOK(c)
      BY <1>1, <3>1, <3>2 DEF CommandOK
    <3> QED
      BY <3>2, <3>3, <3>4, <3>5, <3>6
  <2> QED
    BY <2>1, <2>2
<1> HIDE DEF c
<1>3. /\ PipeOK' /\ AppliedOK' /\ WrittenOK' /\ EntryOK' /\ ReadOK' /\ AnswersOK'
  BY <1>1, <1>2, MoveOnly
<1>4. FlagsOK' /\ FaultsOK'
  <2>1. FlagsOK'
    BY <1>1 DEF IInv, FlagsOK, FlagTellsConnection
  <2>2. Fault \/ UNCHANGED faults
    BY DEF Send, Refuse
  <2> QED
    BY <2>1, <2>2, OneMoreFault DEF IInv, FaultsOK
<1> QED
  BY <1>3, <1>4 DEF IInv

\* Redis answers a read.
LEMMA ExecuteReadStep ==
    ASSUME IInv, NEW i \in DOMAIN pipe, Execute(i), pipe[i].by \in Readers
    PROVE  IInv'
<1> DEFINE x == pipe[i]
           v == entry[read[x.by].key]
           c == [by |-> x.by, at |-> "done", value |-> v]
<1>1. /\ pipe \in Seq(Commands) /\ DOMAIN pipe = 1..Len(pipe) /\ Len(pipe) \in Nat
      /\ x \in Commands /\ CommandOK(x) /\ Writes \subseteq Nat \ {0}
      /\ UNCHANGED <<up, isConnected, entry, read, written, applied, refused, faults>>
  BY LensAreNat, ElementOfSeq DEF IInv, PipeOK, Execute
<1>2. read[x.by].key \in Keys /\ v \in Nat /\ v \in Writes \cup {Miss} /\ EntryLatest(read[x.by].key)
  <2>1. read[x.by].key \in Keys
    BY DEF IInv, ReadOK, Reads
  <2> QED
    BY <2>1 DEF IInv, EntryOK
<1>3. Latest(v, x.by)
  <2> HIDE DEF x
  <2> SUFFICES ASSUME v # Miss PROVE v \in Writes /\ written[v].key = read[x.by].key
                                     /\ ~Overtaken(v, x.by)
    BY DEF Latest
  <2>1. /\ written[v].key = read[x.by].key
        /\ \A j \in DOMAIN applied : written[applied[j]].key = read[x.by].key => applied[j] <= v
    BY <1>2 DEF EntryLatest
  <2>2. \A j \in DOMAIN applied : applied[j] \in Nat
    BY <1>1 DEF IInv, AppliedOK
  <2> QED
    BY <1>2, <2>1, <2>2 DEF Overtaken
<1>4. pipe' = [pipe EXCEPT ![i] = c]
  <2> DEFINE y == [by |-> x.by, at |-> "done", value |-> x.value]
  <2>1. pipe' = [pipe EXCEPT ![i] = [[x EXCEPT !.at = "done"] EXCEPT !.value = v]]
    BY <1>1 DEF Execute
  <2>2. [x EXCEPT !.at = "done"] = y
    BY <1>1 DEF Commands
  <2>3. [y EXCEPT !.value = v] = c
    OBVIOUS
  <2> QED
    BY <2>1, <2>2, <2>3
<1>5. c \in Commands
  BY <1>1, <1>2 DEF Commands, Stages
<1>6. MovesTo(i, c)
  BY DEF Execute, MovesTo
<1>7. CommandOK(c)
  BY <1>1, <1>2, <1>3 DEF CommandOK
<1> HIDE DEF c
<1>8. /\ PipeOK' /\ AppliedOK' /\ WrittenOK' /\ EntryOK' /\ ReadOK' /\ AnswersOK'
  BY <1>1, <1>4, <1>5, <1>6, <1>7, MoveOnly
<1>9. FlagsOK' /\ FaultsOK'
  BY <1>1 DEF IInv, FlagsOK, FlagTellsConnection, FaultsOK
<1> QED
  BY <1>8, <1>9 DEF IInv

----------------------------------------------------------------------------
(* Redis applies a write.                                                  *)

\* A write that a call came before takes no value from that call.
LEMMA LatestOfEarlier ==
    ASSUME IInv, NEW v, NEW r \in Readers, NEW b \in Nat, Latest(v, r),
           read[r].start < b, applied' = Append(applied, b), UNCHANGED <<read, written>>
    PROVE  Latest(v, r)'
<1>1. /\ applied \in Seq(Nat) /\ DOMAIN applied = 1..Len(applied) /\ Len(applied) \in Nat
      /\ read[r].start \in Nat
  BY LensAreNat DEF IInv, AppliedOK, ReadOK, Reads
<1>2. \A j \in DOMAIN applied' : 
        applied'[j] = b \/ (j \in DOMAIN applied /\ applied'[j] = applied[j])
  BY <1>1, AppendProperties, LenProperties
<1> QED
  BY <1>1, <1>2 DEF Latest, Overtaken, Writes

LEMMA ExecuteWriteStep ==
    ASSUME IInv, NEW i \in DOMAIN pipe, Execute(i), pipe[i].by \notin Readers
    PROVE  IInv'
<1> DEFINE x == pipe[i]
           b == x.by
           c == [by |-> b, at |-> "done", value |-> x.value]
           v == IF written[b].kind = "del" THEN Miss ELSE b
<1>1. /\ pipe \in Seq(Commands) /\ DOMAIN pipe = 1..Len(pipe) /\ Len(pipe) \in Nat
      /\ x \in Commands /\ CommandOK(x) /\ Writes \subseteq Nat \ {0}
      /\ applied \in Seq(Nat) /\ DOMAIN applied = 1..Len(applied) /\ Len(applied) \in Nat
      /\ x.at = "sent" /\ First(i, "sent")
      /\ UNCHANGED <<up, isConnected, read, written, refused, faults>>
  BY LensAreNat, ElementOfSeq DEF IInv, PipeOK, AppliedOK, Execute, First
<1>2. /\ b \in Writes /\ b \in Nat /\ x.value = Miss
      /\ \A j \in DOMAIN applied : applied[j] < b
  BY <1>1 DEF CommandOK
<1>3. /\ pipe' = [pipe EXCEPT ![i] = c]
      /\ entry' = [entry EXCEPT ![written[b].key] = v]
      /\ applied' = Append(applied, b)
  <2>1. [x EXCEPT !.at = "done"] = c
    BY <1>1 DEF Commands
  <2>2. pipe' = [pipe EXCEPT ![i] = [x EXCEPT !.at = "done"]]
    BY <1>1 DEF Execute
  <2> QED
    BY <2>1, <2>2 DEF Execute
<1>4. c \in Commands /\ MovesTo(i, c) /\ c.at = "done" /\ c.by = b /\ c.value = Miss
  BY <1>1, <1>2 DEF Commands, Stages, MovesTo
<1>5. /\ applied' \in Seq(Nat) /\ DOMAIN applied' = 1..(Len(applied) + 1)
      /\ \A j \in DOMAIN applied : applied'[j] = applied[j]
      /\ applied'[Len(applied) + 1] = b
  BY <1>1, <1>2, <1>3, AppendProperties, LenProperties
<1> HIDE DEF c
<1>6. /\ pipe' \in Seq(Commands) /\ DOMAIN pipe' = DOMAIN pipe
      /\ \A j \in DOMAIN pipe : pipe'[j] = IF j = i THEN c ELSE pipe[j]
      /\ \A j, k \in DOMAIN pipe : j < k => InOrder(pipe[j], pipe[k])'
  BY <1>1, <1>3, <1>4, CommandMoves
<1>7. Writes' = Writes
  BY <1>1 DEF Writes
<1>8. PipeOK'
  <2>1. ASSUME NEW j \in DOMAIN pipe PROVE CommandOK(pipe[j])'
    <3>1. CASE j = i
      <4>1. pipe'[j] = c
        BY <1>6, <3>1
      <4> QED
        BY <1>2, <1>4, <1>7, <4>1 DEF CommandOK
    <3>2. CASE j # i
      <4> DEFINE d == pipe[j]
      <4>1. pipe'[j] = d /\ CommandOK(d)
        BY <1>6, <3>2 DEF IInv, PipeOK
      <4>2. j < i => InOrder(d, x)
        BY DEF IInv, PipeOK
      <4>3. i < j => InOrder(x, d)
        BY DEF IInv, PipeOK
      <4>4. j < i \/ i < j
        BY <1>1, <3>2
      <4>5. ASSUME d.by \in Readers, d.at = "done" PROVE Latest(d.value, d.by)'
        <5>1. j < i
          BY <1>1, <4>3, <4>4, <4>5 DEF InOrder
        <5>2. read[d.by].start < b /\ Latest(d.value, d.by)
          BY <1>1, <4>1, <4>2, <4>5, <5>1 DEF InOrder, CommandOK
        <5> QED
          BY <1>1, <1>2, <1>3, <4>5, <5>2, LatestOfEarlier
      <4>6. ASSUME d.by \notin Readers, d.at \in {"queued", "sent"}
            PROVE  \A k \in DOMAIN applied' : applied'[k] < d.by
        <5>1. i < j
          <6>1. CASE d.at = "queued"
            BY <1>1, <4>2, <4>4, <6>1 DEF InOrder
          <6>2. CASE d.at = "sent"
            BY <1>1, <4>4, <6>2 DEF First
          <6> QED
            BY <4>6, <6>1, <6>2
        <5>2. b < d.by
          BY <4>3, <4>6, <5>1 DEF InOrder
        <5>3. \A k \in DOMAIN applied : applied[k] < d.by
          BY <4>1, <4>6 DEF CommandOK
        <5> QED
          BY <1>1, <1>5, <5>2, <5>3
      <4>7. pipe'[j].by = d.by /\ pipe'[j].at = d.at /\ pipe'[j].value = d.value
        BY <4>1
      <4>8. pipe'[j].by \in Readers /\ pipe'[j].at = "done"
              => Latest(pipe[j].value, pipe[j].by)'
        BY <4>1, <4>5
      <4> HIDE DEF d
      <4> QED
        BY <1>1, <1>7, <4>1, <4>6, <4>7, <4>8 DEF CommandOK
    <3> QED
      BY <3>1, <3>2
  <2> QED
    BY <1>6, <2>1 DEF PipeOK
<1>9. AppliedOK'
  <2>0. \A j \in DOMAIN applied : applied[j] \in Writes
    BY DEF IInv, AppliedOK
  <2>a. \A j \in DOMAIN applied' : j \in DOMAIN applied \/ j = Len(applied) + 1
    BY <1>1, <1>5
  <2>1. \A j \in DOMAIN applied' : applied'[j] \in Writes'
    BY <1>2, <1>5, <1>7, <2>0, <2>a
  <2>2. ASSUME NEW j \in DOMAIN applied', NEW k \in DOMAIN applied', j < k
        PROVE  applied'[j] < applied'[k]
    <3>1. CASE k \in DOMAIN applied
      <4>1. j \in DOMAIN applied
        BY <1>1, <1>5, <2>2, <3>1
      <4>2. applied[j] < applied[k]
        BY <2>2, <3>1, <4>1 DEF IInv, AppliedOK, AppliedInOrder
      <4> QED
        BY <1>5, <3>1, <4>1, <4>2
    <3>2. CASE k \notin DOMAIN applied
      <4>1. k = Len(applied) + 1 /\ j \in DOMAIN applied
        BY <1>1, <1>5, <2>2, <2>a, <3>2
      <4> QED
        BY <1>2, <1>5, <4>1
    <3> QED
      BY <3>1, <3>2
  <2> QED
    BY <1>5, <2>1, <2>2 DEF AppliedOK, AppliedInOrder
<1>10. EntryOK'
  <2>0. entry \in [Keys -> Nat] /\ v \in Nat /\ v \in Writes \cup {Miss}
    BY <1>2 DEF IInv, EntryOK, Miss
  <2> HIDE DEF v
  <2>1. /\ entry' \in [Keys -> Nat]
        /\ \A k \in Keys : entry'[k] = IF k = written[b].key THEN v ELSE entry[k]
    BY <1>3, <2>0
  <2>2. ASSUME NEW k \in Keys PROVE entry'[k] \in Writes' \cup {Miss} /\ EntryLatest(k)'
    <3>1. CASE k = written[b].key
      <4>1. entry'[k] = v /\ (v # Miss => v = b)
        BY <2>1, <3>1 DEF v
      <4>2. \A j \in DOMAIN applied' : applied'[j] <= b
        BY <1>1, <1>2, <1>5 DEF IInv, AppliedOK
      <4> QED
        BY <1>1, <1>7, <2>0, <3>1, <4>1, <4>2 DEF EntryLatest
    <3>2. CASE k # written[b].key
      <4>1. entry'[k] = entry[k] /\ EntryLatest(k) /\ entry[k] \in Writes \cup {Miss}
        BY <2>1, <3>2 DEF IInv, EntryOK
      <4>2. \A j \in DOMAIN applied' :
              written[applied'[j]].key = k => j \in DOMAIN applied /\ applied'[j] = applied[j]
        BY <1>1, <1>5, <3>2
      <4> QED
        BY <1>1, <1>7, <4>1, <4>2 DEF EntryLatest
    <3> QED
      BY <3>1, <3>2
  <2> QED
    BY <2>1, <2>2 DEF EntryOK
<1>11. WrittenOK' /\ ReadOK'
  BY <1>1, <1>7 DEF IInv, WrittenOK, ReadOK
<1>12. AnswersOK'
  <2>1. \A j \in DOMAIN pipe : pipe'[j].by = pipe[j].by
    BY <1>4, <1>6
  <2>2. ASSUME NEW r \in Readers, read[r].at = "answered", read[r].value # Miss
        PROVE  /\ Latest(read[r].value, r)'
               /\ \A j \in DOMAIN pipe' : pipe'[j].by \notin Readers => read'[r].start < pipe'[j].by
    <3>1. /\ Latest(read[r].value, r)
          /\ \A j \in DOMAIN pipe : pipe[j].by \notin Readers => read[r].start < pipe[j].by
      BY <2>2 DEF IInv, AnswersOK
    <3>2. Latest(read[r].value, r)'
      BY <1>1, <1>2, <1>3, <3>1, LatestOfEarlier
    <3> QED
      BY <1>1, <1>6, <2>1, <3>1, <3>2
  <2> QED
    BY <1>1, <2>2 DEF AnswersOK
<1>13. FlagsOK' /\ FaultsOK'
  BY <1>1 DEF IInv, FlagsOK, FlagTellsConnection, FaultsOK
<1> QED
  BY <1>8, <1>9, <1>10, <1>11, <1>12, <1>13 DEF IInv

----------------------------------------------------------------------------
(* The methods queue their commands.                                       *)

LEMMA PipeGrows ==
    ASSUME IInv, NEW c \in Commands, pipe' = Append(pipe, c) \/ UNCHANGED pipe
    PROVE  /\ pipe' \in Seq(Commands)
           /\ \A i \in DOMAIN pipe' :
                \/ i \in DOMAIN pipe /\ pipe'[i] = pipe[i]
                \/ i = Len(pipe) + 1 /\ pipe'[i] = c
<1>1. pipe \in Seq(Commands) /\ DOMAIN pipe = 1..Len(pipe) /\ Len(pipe) \in Nat
  BY LensAreNat DEF IInv, PipeOK
<1>2. CASE UNCHANGED pipe
  BY <1>1, <1>2
<1>3. CASE pipe' = Append(pipe, c)
  BY <1>1, <1>3, AppendProperties, LenProperties
<1> QED
  BY <1>2, <1>3

\* The number of a new write is above all others.
LEMMA NewWrite ==
    ASSUME IInv, NEW w \in Written, written' = Append(written, w), UNCHANGED <<read, applied>>
    PROVE  /\ written' \in Seq(Written) /\ Len(written') = Len(written) + 1
           /\ Writes \subseteq Writes' /\ Len(written) + 1 \in Writes'
           /\ \A v \in Writes : v < Len(written) + 1 /\ written'[v] = written[v]
           /\ \A v : \A r \in Readers : Latest(v, r) => Latest(v, r)'
<1>1. /\ written \in Seq(Written) /\ Len(written) \in Nat /\ Writes = 1..Len(written)
      /\ \A i \in DOMAIN applied : applied[i] \in Writes
  BY LensAreNat DEF IInv, WrittenOK, Writes, AppliedOK
<1>2. /\ written' \in Seq(Written) /\ Len(written') = Len(written) + 1
      /\ \A v \in 1..Len(written) : written'[v] = written[v]
  BY <1>1, AppendProperties
<1>3. Writes' = 1..(Len(written) + 1)
  BY <1>2 DEF Writes
<1>4. /\ Writes \subseteq Writes' /\ Len(written) + 1 \in Writes'
      /\ \A v \in Writes : v < Len(written) + 1 /\ written'[v] = written[v]
  BY <1>1, <1>2, <1>3
<1>5. ASSUME NEW v, NEW r \in Readers, Latest(v, r) PROVE Latest(v, r)'
  BY <1>1, <1>4, <1>5 DEF Latest, Overtaken
<1> QED
  BY <1>2, <1>4, <1>5

LEMMA WriteStep ==
    ASSUME IInv, NEW k \in Keys, NEW kind \in {"set", "setEx", "del"}, Write(k, kind)
    PROVE  IInv'
<1> DEFINE n == Len(written) + 1
           c == [by |-> n, at |-> "queued", value |-> Miss]
           w == [key |-> k, kind |-> kind]
<1>1. /\ Len(written) \in Nat /\ Len(pipe) \in Nat /\ Writes \subseteq Nat \ {0}
      /\ DOMAIN pipe = 1..Len(pipe) /\ n \in Nat /\ n \notin Readers
      /\ Len(written) < MaxWrites /\ Writes = 1..Len(written)
      /\ UNCHANGED <<up, isConnected, entry, read, applied, refused, faults>>
  BY LensAreNat, NamesAssumption DEF Write, Writes
<1>2. /\ written' = Append(written, w) /\ w \in Written
      /\ pipe' = Append(pipe, c) \/ UNCHANGED pipe
      /\ c \in Commands /\ c.by = n /\ c.at = "queued" /\ c.value = Miss
  BY <1>1 DEF Write, Queue, Command, Written, Commands, Stages, Miss
<1> HIDE DEF c, w
<1>3. /\ written' \in Seq(Written) /\ Len(written') = n
      /\ Writes \subseteq Writes' /\ n \in Writes'
      /\ \A v \in Writes : v < n /\ written'[v] = written[v]
      /\ \A v : \A r \in Readers : Latest(v, r) => Latest(v, r)'
  BY <1>1, <1>2, NewWrite
<1>4. /\ pipe' \in Seq(Commands)
      /\ \A i \in DOMAIN pipe' :
           \/ i \in DOMAIN pipe /\ pipe'[i] = pipe[i]
           \/ i = Len(pipe) + 1 /\ pipe'[i] = c
  BY <1>2, PipeGrows
<1> HIDE DEF n
<1>5. \A i \in DOMAIN applied : applied[i] \in Writes /\ applied[i] < n
  BY <1>3 DEF IInv, AppliedOK
<1>6. \A r \in Readers : read[r].start < n
  <2>1. \A r \in Readers : read[r].start \in Writes \cup {0}
    BY DEF IInv, ReadOK
  <2>2. 0 < n
    BY <1>1 DEF n
  <2> QED
    BY <1>3, <2>1, <2>2
<1>7. PipeOK'
  <2>1. ASSUME NEW i \in DOMAIN pipe' PROVE CommandOK(pipe[i])'
    <3>1. CASE i \in DOMAIN pipe /\ pipe'[i] = pipe[i]
      <4>1. CommandOK(pipe'[i])
        BY <3>1 DEF IInv, PipeOK
      <4>2. pipe'[i].by \in Readers /\ pipe'[i].at = "done"
            => Latest(pipe[i].value, pipe[i].by)'
        BY <1>3, <4>1 DEF CommandOK
      <4> QED
        BY <1>1, <1>3, <4>1, <4>2 DEF CommandOK
    <3>2. CASE pipe'[i] = c
      BY <1>1, <1>2, <1>3, <1>5, <3>2 DEF CommandOK
    <3> QED
      BY <1>4, <3>1, <3>2
  <2>2. ASSUME NEW i \in DOMAIN pipe', NEW j \in DOMAIN pipe', i < j
        PROVE  InOrder(pipe[i], pipe[j])'
    <3>1. i \in DOMAIN pipe /\ pipe'[i] = pipe[i]
      <4>1. DOMAIN pipe' = 1..Len(pipe') /\ Len(pipe') \in Nat
        BY <1>4, LenProperties
      <4>2. i \in Nat /\ j \in Nat /\ (j \in DOMAIN pipe \/ j = Len(pipe) + 1)
        BY <1>4, <4>1
      <4>3. i # Len(pipe) + 1
        BY <1>1, <2>2, <4>2
      <4> QED
        BY <1>4, <4>3
    <3>2. InOrder(pipe'[i], pipe'[j])
      <4>1. CASE j \in DOMAIN pipe /\ pipe'[j] = pipe[j]
        BY <2>2, <3>1, <4>1 DEF IInv, PipeOK
      <4>2. CASE pipe'[j] = c
        <5>1. CommandOK(pipe'[i])
          BY <3>1 DEF IInv, PipeOK
        <5>2. pipe'[i].by \notin Readers => pipe'[i].by < n
          BY <1>3, <5>1 DEF CommandOK
        <5> QED
          BY <1>2, <1>6, <4>2, <5>2 DEF InOrder
      <4> QED
        BY <1>4, <4>1, <4>2
    <3> QED
      BY <1>1, <3>2 DEF InOrder
  <2> QED
    BY <1>4, <2>1, <2>2 DEF PipeOK
<1>8. AppliedOK'
  BY <1>1, <1>3 DEF IInv, AppliedOK, AppliedInOrder
<1>9. WrittenOK'
  BY <1>1, <1>3, BoundsAssumption DEF WrittenOK, n
<1>10. EntryOK'
  <2>1. ASSUME NEW q \in Keys PROVE entry'[q] \in Writes' \cup {Miss} /\ EntryLatest(q)'
    <3>1. entry[q] \in Writes \cup {Miss} /\ EntryLatest(q)
      BY DEF IInv, EntryOK
    <3> QED
      BY <1>1, <1>3, <1>5, <3>1 DEF EntryLatest
  <2> QED
    BY <1>1, <2>1 DEF IInv, EntryOK
<1>11. ReadOK'
  BY <1>1, <1>3 DEF IInv, ReadOK
<1>12. AnswersOK'
  <2>1. ASSUME NEW r \in Readers, read[r].at = "answered", read[r].value # Miss
        PROVE  /\ Latest(read[r].value, r)'
               /\ \A j \in DOMAIN pipe' : pipe'[j].by \notin Readers => read'[r].start < pipe'[j].by
    <3>1. /\ Latest(read[r].value, r)
          /\ \A j \in DOMAIN pipe : pipe[j].by \notin Readers => read[r].start < pipe[j].by
      BY <2>1 DEF IInv, AnswersOK
    <3>2. Latest(read[r].value, r)'
      <4>1. Latest(read'[r].value, r)
        BY <1>1, <3>1
      <4> QED
        BY <1>3, <4>1
    <3> QED
      BY <1>1, <1>2, <1>4, <1>6, <3>1, <3>2
  <2> QED
    BY <1>1, <2>1 DEF AnswersOK
<1>13. FlagsOK' /\ FaultsOK'
  BY <1>1 DEF IInv, FlagsOK, FlagTellsConnection, FaultsOK
<1> QED
  BY <1>7, <1>8, <1>9, <1>10, <1>11, <1>12, <1>13 DEF IInv

LEMMA GetStep ==
    ASSUME IInv, NEW r \in Readers, NEW k \in Keys, Get(r, k)
    PROVE  IInv'
<1> DEFINE c == [by |-> r, at |-> "queued", value |-> Miss]
           y == [at |-> IF isConnected THEN "waiting" ELSE "answered",
                 key |-> k, start |-> Len(written), value |-> Miss]
<1>1. /\ Len(written) \in Nat /\ Len(pipe) \in Nat /\ Writes \subseteq Nat \ {0}
      /\ DOMAIN pipe = 1..Len(pipe) /\ read \in [Readers -> Reads] /\ Writes = 1..Len(written)
      /\ read[r].at = "idle" /\ read' = [read EXCEPT ![r] = y]
      /\ UNCHANGED <<up, isConnected, entry, written, applied, refused, faults>>
  BY LensAreNat DEF IInv, ReadOK, Get, Writes
<1>2. /\ pipe' = Append(pipe, c) \/ UNCHANGED pipe
      /\ c \in Commands /\ c.by = r /\ c.at = "queued" /\ c.value = Miss
  BY DEF Get, Queue, Command, Commands, Stages, Miss
<1>3. /\ y \in Reads /\ y.at # "idle" /\ y.value = Miss /\ y.key = k
      /\ y.start \in Writes \cup {0}
  BY <1>1 DEF Reads, Miss
<1> HIDE DEF c, y
<1>4. /\ read' \in [Readers -> Reads] /\ read'[r] = y
      /\ \A q \in Readers \ {r} : read'[q] = read[q]
  BY <1>1, <1>3
<1>5. /\ pipe' \in Seq(Commands)
      /\ \A i \in DOMAIN pipe' :
           \/ i \in DOMAIN pipe /\ pipe'[i] = pipe[i]
           \/ i = Len(pipe) + 1 /\ pipe'[i] = c
  BY <1>2, PipeGrows
<1>6. \A i \in DOMAIN pipe : CommandOK(pipe[i]) /\ pipe[i].by # r
  BY <1>1 DEF IInv, PipeOK, CommandOK
<1>7. ASSUME NEW v, NEW q \in Readers, q # r, Latest(v, q) PROVE Latest(v, q)'
  BY <1>1, <1>4, <1>7, LatestStays DEF SameCall
<1>8. Writes' = Writes
  BY <1>1 DEF Writes
<1>9. PipeOK'
  <2>1. ASSUME NEW i \in DOMAIN pipe' PROVE CommandOK(pipe[i])'
    <3>1. CASE i \in DOMAIN pipe /\ pipe'[i] = pipe[i]
      <4>1. CommandOK(pipe'[i]) /\ pipe'[i].by # r
        BY <1>6, <3>1
      <4>2. pipe'[i].by \in Readers /\ pipe'[i].at = "done"
            => Latest(pipe[i].value, pipe[i].by)'
        BY <1>7, <4>1 DEF CommandOK
      <4>3. pipe'[i].by \in Readers => read'[pipe'[i].by].at # "idle"
        BY <1>4, <4>1 DEF CommandOK
      <4> QED
        BY <1>1, <1>8, <4>1, <4>2, <4>3 DEF CommandOK
    <3>2. CASE pipe'[i] = c
      BY <1>2, <1>3, <1>4, <3>2 DEF CommandOK
    <3> QED
      BY <1>5, <3>1, <3>2
  <2>2. ASSUME NEW i \in DOMAIN pipe', NEW j \in DOMAIN pipe', i < j
        PROVE  InOrder(pipe[i], pipe[j])'
    <3>1. i \in DOMAIN pipe /\ pipe'[i] = pipe[i]
      <4>1. DOMAIN pipe' = 1..Len(pipe') /\ Len(pipe') \in Nat
        BY <1>5, LenProperties
      <4>2. i \in Nat /\ j \in Nat /\ (j \in DOMAIN pipe \/ j = Len(pipe) + 1)
        BY <1>5, <4>1
      <4>3. i # Len(pipe) + 1
        BY <1>1, <2>2, <4>2
      <4> QED
        BY <1>5, <4>3
    <3>2. pipe'[i].by \in Readers => read'[pipe'[i].by] = read[pipe'[i].by]
      BY <1>4, <1>6, <3>1
    <3>3. InOrder(pipe'[i], pipe'[j])
      <4>1. CASE j \in DOMAIN pipe /\ pipe'[j] = pipe[j]
        BY <2>2, <3>1, <4>1 DEF IInv, PipeOK
      <4>2. CASE pipe'[j] = c
        BY <1>2, <4>2 DEF InOrder
      <4> QED
        BY <1>5, <4>1, <4>2
    <3> QED
      BY <3>2, <3>3 DEF InOrder
  <2> QED
    BY <1>5, <2>1, <2>2 DEF PipeOK
<1>10. AppliedOK' /\ WrittenOK' /\ EntryOK'
  BY <1>1, <1>8 DEF IInv, AppliedOK, AppliedInOrder, WrittenOK, EntryOK, EntryLatest
<1>11. ReadOK'
  BY <1>3, <1>4, <1>8 DEF IInv, ReadOK
<1>12. AnswersOK'
  <2>1. ASSUME NEW q \in Readers, read'[q].at = "answered", read'[q].value # Miss
        PROVE  /\ Latest(read[q].value, q)'
               /\ \A j \in DOMAIN pipe' : pipe'[j].by \notin Readers => read'[q].start < pipe'[j].by
    <3>1. q # r /\ read'[q] = read[q]
      BY <1>3, <1>4, <2>1
    <3>2. /\ Latest(read'[q].value, q)
          /\ \A j \in DOMAIN pipe : pipe[j].by \notin Readers => read[q].start < pipe[j].by
      BY <2>1, <3>1 DEF IInv, AnswersOK
    <3>3. Latest(read[q].value, q)'
      BY <1>7, <3>1, <3>2
    <3> QED
      BY <1>2, <1>5, <3>1, <3>2, <3>3
  <2> QED
    BY <2>1 DEF AnswersOK
<1>13. FlagsOK' /\ FaultsOK'
  BY <1>1 DEF IInv, FlagsOK, FlagTellsConnection, FaultsOK
<1> QED
  BY <1>9, <1>10, <1>11, <1>12, <1>13 DEF IInv

LEMMA ExpireStep ==
    ASSUME IInv, NEW k \in Keys, Expire(k)
    PROVE  IInv'
<1>1. /\ entry' = [entry EXCEPT ![k] = Miss] /\ entry \in [Keys -> Nat] /\ Miss \in Nat
      /\ UNCHANGED <<up, isConnected, pipe, read, written, applied, refused, faults>>
  BY DEF IInv, EntryOK, Expire, Miss
<1>2. Writes' = Writes /\ \A v : \A r \in Readers : Latest(v, r)' <=> Latest(v, r)
  BY <1>1 DEF Writes, Latest, Overtaken
<1>3. EntryOK'
  BY <1>1, <1>2 DEF IInv, EntryOK, EntryLatest
<1>4. PipeOK'
  BY <1>1, <1>2 DEF IInv, PipeOK, CommandOK, InOrder
<1>5. AppliedOK' /\ WrittenOK' /\ ReadOK' /\ AnswersOK' /\ FlagsOK' /\ FaultsOK'
  BY <1>1, <1>2 DEF IInv, AppliedOK, AppliedInOrder, WrittenOK, ReadOK, AnswersOK,
                    FlagsOK, FlagTellsConnection, FaultsOK
<1> QED
  BY <1>3, <1>4, <1>5 DEF IInv

----------------------------------------------------------------------------
LEMMA InitIInv == ASSUME Init PROVE IInv
<1>1. /\ pipe = <<>> /\ written = <<>> /\ applied = <<>>
      /\ Len(<<>>) = 0 /\ \A S : <<>> \in Seq(S)
  BY EmptySeq DEF Init
<1>2. DOMAIN pipe = {} /\ DOMAIN applied = {}
  BY <1>1, LenProperties
<1>3. (CHOOSE k \in Keys : TRUE) \in Keys
  BY NamesAssumption
<1>4. PipeOK /\ AppliedOK /\ WrittenOK
  BY <1>1, <1>2, BoundsAssumption DEF PipeOK, AppliedOK, AppliedInOrder, WrittenOK
<1>5. EntryOK
  BY DEF Init, EntryOK, EntryLatest, Miss
<1> DEFINE y == [at |-> "idle", key |-> CHOOSE k \in Keys : TRUE, start |-> 0, value |-> Miss]
<1>6. y \in Reads /\ y.start = 0 /\ y.value = Miss /\ y.at = "idle"
  BY <1>3 DEF Reads, Miss
<1>7. read = [r \in Readers |-> y]
  BY DEF Init
<1> HIDE DEF y
<1>8. ReadOK /\ AnswersOK
  BY <1>6, <1>7 DEF ReadOK, AnswersOK
<1>9. FlagsOK
  BY Zenon DEF Init, FlagsOK, FlagTellsConnection
<1>10. FaultsOK
  BY BoundsAssumption DEF Init, FaultsOK
<1> QED
  BY <1>4, <1>5, <1>8, <1>9, <1>10 DEF IInv

LEMMA NextIInv ==
    ASSUME IInv, [Next]_vars
    PROVE  IInv'
<1>1. ASSUME NEW k \in Keys, Set(k) \/ SetEx(k) \/ Delete(k)
      PROVE  IInv'
  BY <1>1, WriteStep DEF Set, SetEx, Delete
<1>2. ASSUME NEW i \in DOMAIN pipe, Execute(i)
      PROVE  IInv'
  BY <1>2, ExecuteReadStep, ExecuteWriteStep
<1>3. CASE UNCHANGED vars
  <2>1. UNCHANGED <<pipe, entry, read, written, applied>>
    BY <1>3 DEF vars
  <2>2. FlagsOK' /\ FaultsOK'
    BY <1>3 DEF vars, IInv, FlagsOK, FlagTellsConnection, FaultsOK
  <2> QED
    BY <2>1, <2>2, NothingMoves DEF IInv
<1> QED
  BY <1>1, <1>2, <1>3, ExpireStep, TimeoutStep, GetStep, SendOrRefuseStep, ReplyStep,
     ConnectionLostStep, ReadyStep, CrashStep DEF Next

LEMMA Invariant == Spec => []IInv
<1>1. Init => IInv
  BY InitIInv
<1>2. IInv /\ [Next]_vars => IInv'
  BY NextIInv
<1> QED
  BY <1>1, <1>2, PTL DEF Spec

\* The pipe, the entries and the calls of get hold what they may hold, and
\* commands are sent and executed in their order.
THEOREM TypeCorrect == Spec => []TypeOK
<1>1. IInv => TypeOK
  BY InvTypeOK
<1> QED
  BY <1>1, Invariant, PTL

\* Over any breaks of the connection, refusals and restarts, Redis applies the
\* writes of a service in the order of its calls of set and delete, none twice.
THEOREM WritesPrevail == Spec => []AppliedInOrder
<1>1. IInv => AppliedInOrder
  BY DEF IInv, AppliedOK
<1> QED
  BY <1>1, Invariant, PTL

\* get answers the last write before it that was not lost, or a miss.
THEOREM AnswersAreLatest == Spec => []AnswerIsLatest
<1>1. IInv => AnswerIsLatest
  BY InvAnswers
<1> QED
  BY <1>1, Invariant, PTL

\* The flag is up exactly on a connection on which no write was refused.
THEOREM FlagIsRight == Spec => []FlagTellsConnection
<1>1. IInv => FlagTellsConnection
  BY DEF IInv, FlagsOK
<1> QED
  BY <1>1, Invariant, PTL
=============================================================================
