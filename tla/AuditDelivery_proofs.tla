------------------------ MODULE AuditDelivery_proofs ------------------------
(***************************************************************************)
(* The audit trail, for any batches, attempts, time-outs and crashes: a    *)
(* delivered batch is recorded, the trail has no holes, and an event is in *)
(* the region its Shoot is created in.                                     *)
(***************************************************************************)
EXTENDS AuditDelivery, SequenceTheorems, TLAPS

HandlerRecord == [pc : {"none", "running", "ok", "error", "gone"}, next : 1..BatchSize + 1]
ServerRecord == [phase : {"ready", "waiting", "delivered", "dropped"}, attempt : Attempts]

\* AuditInv, part by part.
Behind(b, a) == \A i \in Auditable(b) : i < Position(b, a) => IsRecorded(b, i)
AtEnd(b, a) == handler[b][a].pc = "ok" => Position(b, a) > Len(batch[b])
AttemptInv(b, a) == Behind(b, a) /\ AtEnd(b, a)
RecordInv(r) ==
    /\ r.index \in Auditable(r.batch) /\ r.region = RegionOf(batch[r.batch][r.index])
    /\ \A j \in Auditable(r.batch) : j < r.index => IsRecorded(r.batch, j)
Parts ==
    /\ TypeOK /\ DeliveredIsRecorded
    /\ \A b \in Batches, a \in Attempts : AttemptInv(b, a)
    /\ \A r \in recorded : RecordInv(r)

LEMMA AllParts == AuditInv <=> Parts
BY DEF AuditInv, Parts, NoHoles, AttemptInv, Behind, AtEnd, RecordInv

-----------------------------------------------------------------------------
(* The state and what a step changes of it. *)

\* A batch is a sequence of events.
LEMMA BatchIsSequence ==
    ASSUME TypeOK, NEW b \in Batches
    PROVE  /\ Len(batch[b]) \in 1..BatchSize
           /\ DOMAIN batch[b] = 1..Len(batch[b])
<1>1. PICK n \in 1..BatchSize : batch[b] \in [1..n -> Samples]
  <2> DEFINE Lists == UNION {[1..n -> Samples] : n \in 1..BatchSize}
  <2>1. batch \in [Batches -> Lists]
    BY DEF TypeOK
  <2>2. batch[b] \in Lists
    <3> HIDE DEF Lists
    <3> QED
      BY <2>1
  <2> QED
    BY <2>2
<1>2. n \in Nat /\ DOMAIN batch[b] = 1..n
  BY <1>1, AuditAssumption
<1>3. batch[b] \in Seq(Samples)
  BY <1>1, <1>2
<1>4. Len(batch[b]) = n
  BY <1>2, <1>3, LenProperties
<1> QED
  BY <1>1, <1>2, <1>4

\* What a step of one attempt leaves alone.
OthersStay(b, a) ==
    \A c \in Batches, d \in Attempts : c # b \/ d # a => handler'[c][d] = handler[c][d]

\* An attempt at another pc.
LEMMA AttemptMoves ==
    ASSUME TypeOK, NEW b \in Batches, NEW a \in Attempts,
           NEW pc \in {"none", "running", "ok", "error", "gone"},
           handler' = [handler EXCEPT ![b][a].pc = pc]
    PROVE  /\ handler' \in [Batches -> [Attempts -> HandlerRecord]] /\ OthersStay(b, a)
           /\ handler'[b][a].pc = pc /\ handler'[b][a].next = handler[b][a].next
<1>1. PICK h \in HandlerRecord : h = handler[b][a]
  BY DEF TypeOK, HandlerRecord
<1>2. PICK x : x = [h EXCEPT !.pc = pc]
  OBVIOUS
<1>3. x \in HandlerRecord /\ x.pc = pc /\ x.next = h.next
  BY <1>2 DEF HandlerRecord
<1>4. handler' = [handler EXCEPT ![b] = [handler[b] EXCEPT ![a] = x]]
  BY <1>1, <1>2 DEF TypeOK
<1>5. handler' \in [Batches -> [Attempts -> HandlerRecord]] /\ handler'[b][a] = x /\ OthersStay(b, a)
  <2>1. handler \in [Batches -> [Attempts -> HandlerRecord]]
    BY DEF TypeOK, HandlerRecord
  <2> QED
    BY <1>3, <1>4, <2>1 DEF OthersStay
<1> QED
  BY <1>1, <1>3, <1>5

\* An attempt past one event.
LEMMA AttemptProceeds ==
    ASSUME TypeOK, NEW b \in Batches, NEW a \in Attempts, Position(b, a) =< BatchSize,
           handler' = [handler EXCEPT ![b][a].next = @ + 1]
    PROVE  /\ handler' \in [Batches -> [Attempts -> HandlerRecord]] /\ OthersStay(b, a)
           /\ handler'[b][a].pc = handler[b][a].pc /\ handler'[b][a].next = handler[b][a].next + 1
<1>1. PICK h \in HandlerRecord : h = handler[b][a]
  BY DEF TypeOK, HandlerRecord
<1>2. h.next \in 1..BatchSize + 1 /\ BatchSize \in Nat
  BY AuditAssumption DEF HandlerRecord
<1>3. PICK n \in 1..BatchSize + 1 : n = h.next + 1
  BY <1>1, <1>2 DEF Position
<1>4. PICK x : x = [h EXCEPT !.next = n]
  OBVIOUS
<1>5. x \in HandlerRecord /\ x.pc = h.pc /\ x.next = n
  BY <1>4 DEF HandlerRecord
<1>6. handler' = [handler EXCEPT ![b] = [handler[b] EXCEPT ![a] = x]]
  BY <1>1, <1>3, <1>4 DEF TypeOK
<1>7. handler' \in [Batches -> [Attempts -> HandlerRecord]] /\ handler'[b][a] = x /\ OthersStay(b, a)
  <2>1. handler \in [Batches -> [Attempts -> HandlerRecord]]
    BY DEF TypeOK, HandlerRecord
  <2> QED
    BY <1>5, <1>6, <2>1 DEF OthersStay
<1> QED
  BY <1>1, <1>3, <1>5, <1>7

\* What is recorded stays so.
LEMMA RecordedStays ==
    ASSUME UNCHANGED batch, recorded \subseteq recorded'
    PROVE  /\ \A b \in Batches, i \in Nat : IsRecorded(b, i) => IsRecorded(b, i)'
           /\ \A b : Auditable(b)' = Auditable(b)
BY DEF IsRecorded, Auditable

LEMMA AttemptKept ==
    ASSUME Parts, UNCHANGED batch, recorded \subseteq recorded', NEW b \in Batches, NEW a \in Attempts,
           handler'[b][a].next = handler[b][a].next,
           handler'[b][a].pc = "ok" => handler[b][a].pc = "ok"
    PROVE  AttemptInv(b, a)'
<1>1. AttemptInv(b, a) /\ Auditable(b) \subseteq Nat
  BY DEF Parts, Auditable
<1>2. Behind(b, a)'
  BY <1>1, RecordedStays DEF AttemptInv, Behind, Position
<1>3. AtEnd(b, a)'
  BY <1>1 DEF AttemptInv, AtEnd, Position
<1> QED
  BY <1>2, <1>3 DEF AttemptInv

LEMMA RecordKept ==
    ASSUME Parts, UNCHANGED batch, recorded \subseteq recorded', NEW r \in recorded
    PROVE  RecordInv(r)'
<1>1. RecordInv(r) /\ r.batch \in Batches /\ Auditable(r.batch) \subseteq Nat
  BY DEF Parts, Auditable, TypeOK
<1> QED
  BY <1>1, RecordedStays DEF RecordInv

LEMMA DeliveredKept ==
    ASSUME Parts, UNCHANGED batch, recorded \subseteq recorded',
           \A b \in Batches : server'[b].phase = "delivered" => server[b].phase = "delivered"
    PROVE  DeliveredIsRecorded'
<1> SUFFICES ASSUME NEW b \in Batches, server'[b].phase = "delivered", NEW i \in Auditable(b)'
             PROVE  IsRecorded(b, i)'
  BY DEF DeliveredIsRecorded
<1>1. i \in Auditable(b) /\ i \in Nat
  BY RecordedStays DEF Auditable
<1>2. IsRecorded(b, i)
  BY <1>1 DEF Parts, DeliveredIsRecorded
<1> QED
  BY <1>1, <1>2, RecordedStays

-----------------------------------------------------------------------------
(* The API server. *)

LEMMA ServerMoves ==
    ASSUME TypeOK, NEW b \in Batches, NEW x \in ServerRecord, server' = [server EXCEPT ![b] = x]
    PROVE  /\ server' \in [Batches -> ServerRecord] /\ server'[b] = x
           /\ \A c \in Batches : c # b => server'[c] = server[c]
BY DEF TypeOK, ServerRecord

LEMMA SendKeeps ==
    ASSUME Parts, NEW b \in Batches, Send(b)
    PROVE  Parts'
<1> DEFINE a == server[b].attempt
<1>1. TypeOK /\ server[b] \in ServerRecord /\ a \in Attempts
  BY DEF Parts, TypeOK, ServerRecord
<1>2. /\ handler' = [handler EXCEPT ![b][a].pc = "running"]
      /\ UNCHANGED <<batch, recorded, faults>>
      /\ server' = [server EXCEPT ![b].phase = "waiting"]
  BY DEF Send
<1>3. PICK x \in ServerRecord : x = [server[b] EXCEPT !.phase = "waiting"] /\ x.phase = "waiting"
  <2>1. PICK s \in ServerRecord : s = server[b]
    BY <1>1
  <2>2. PICK x : x = [s EXCEPT !.phase = "waiting"]
    OBVIOUS
  <2>3. x \in ServerRecord /\ x.phase = "waiting"
    BY <2>2 DEF ServerRecord
  <2> QED
    BY <2>1, <2>2, <2>3
<1>4. server' = [server EXCEPT ![b] = x]
  BY <1>1, <1>2, <1>3 DEF TypeOK
<1> HIDE DEF a
<1>5. /\ handler' \in [Batches -> [Attempts -> HandlerRecord]]
      /\ handler'[b][a].pc = "running" /\ handler'[b][a].next = handler[b][a].next
      /\ \A c \in Batches, d \in Attempts : c # b \/ d # a => handler'[c][d] = handler[c][d]
  BY <1>1, <1>2, AttemptMoves DEF OthersStay
<1>6. server' \in [Batches -> ServerRecord] /\ \A c \in Batches : server'[c].phase = "delivered" => server[c].phase = "delivered"
  BY <1>1, <1>3, <1>4, ServerMoves
<1>7. ASSUME NEW c \in Batches, NEW d \in Attempts PROVE AttemptInv(c, d)'
  <2>1. handler'[c][d].next = handler[c][d].next /\ (handler'[c][d].pc = "ok" => handler[c][d].pc = "ok")
    BY <1>5
  <2> QED
    BY <1>2, <2>1, AttemptKept
<1>8. TypeOK'
  BY <1>1, <1>2, <1>5, <1>6 DEF TypeOK, HandlerRecord, ServerRecord
<1> QED
  BY <1>2, <1>6, <1>7, <1>8, DeliveredKept, RecordKept DEF Parts

\* A failed attempt.
LEMMA RetriedFits ==
    ASSUME TypeOK, NEW b \in Batches
    PROVE  Retried(b) \in ServerRecord /\ Retried(b).phase # "delivered"
<1>1. PICK s \in ServerRecord : s = server[b]
  BY DEF TypeOK, ServerRecord
<1>2. s.attempt \in 1..MaxAttempts /\ MaxAttempts \in Nat
  BY AuditAssumption DEF ServerRecord, Attempts
<1>3. CASE s.attempt < MaxAttempts
  <2>1. PICK n \in Attempts : n = s.attempt + 1
    BY <1>2, <1>3 DEF Attempts
  <2>2. Retried(b) = [phase |-> "ready", attempt |-> n]
    BY <1>1, <1>3, <2>1 DEF Retried
  <2> QED
    BY <2>2 DEF ServerRecord
<1>4. CASE ~(s.attempt < MaxAttempts)
  <2>1. Retried(b) = [s EXCEPT !.phase = "dropped"]
    BY <1>1, <1>4 DEF Retried
  <2> QED
    BY <2>1 DEF ServerRecord
<1> QED
  BY <1>3, <1>4

LEMMA ServerStepKeeps ==
    ASSUME Parts, NEW b \in Batches, GetAnswer(b) \/ TimeOut(b)
    PROVE  Parts'
<1>1. TypeOK /\ UNCHANGED <<batch, handler, recorded>>
  BY DEF Parts, GetAnswer, TimeOut
<1>2. faults' \in 0..MaxFaults
  BY <1>1, AuditAssumption DEF GetAnswer, TimeOut, TypeOK
<1>3. \A c \in Batches, d \in Attempts : AttemptInv(c, d)'
  BY <1>1, AttemptKept
<1>4. \A r \in recorded' : RecordInv(r)'
  BY <1>1, RecordKept
<1>5. CASE server' = [server EXCEPT ![b] = Retried(b)]
  <2>1. server' \in [Batches -> ServerRecord] /\ \A c \in Batches : server'[c].phase = "delivered" => server[c].phase = "delivered"
    BY <1>1, <1>5, RetriedFits, ServerMoves
  <2>2. TypeOK' /\ DeliveredIsRecorded'
    BY <1>1, <1>2, <2>1, DeliveredKept DEF TypeOK, ServerRecord
  <2> QED
    BY <1>3, <1>4, <2>2 DEF Parts
<1>6. CASE /\ handler[b][server[b].attempt].pc = "ok"
           /\ server' = [server EXCEPT ![b].phase = "delivered"]
  <2>1. PICK s \in ServerRecord : s = server[b]
    BY <1>1 DEF TypeOK, ServerRecord
  <2>2. PICK x \in ServerRecord : x = [s EXCEPT !.phase = "delivered"]
    BY DEF ServerRecord
  <2>3. server' = [server EXCEPT ![b] = x]
    BY <1>1, <1>6, <2>1, <2>2 DEF TypeOK
  <2>4. server' \in [Batches -> ServerRecord] /\ \A c \in Batches : c # b => server'[c] = server[c]
    BY <1>1, <2>3, ServerMoves
  <2>5. ASSUME NEW i \in Auditable(b) PROVE IsRecorded(b, i)
    <3>1. s.attempt \in Attempts /\ i \in 1..Len(batch[b]) /\ Len(batch[b]) \in Nat
      BY <1>1, BatchIsSequence DEF ServerRecord, Auditable
    <3>2. Behind(b, s.attempt) /\ Position(b, s.attempt) > Len(batch[b])
      BY <1>6, <2>1, <3>1 DEF Parts, AttemptInv, AtEnd
    <3>3. Position(b, s.attempt) \in Nat
      BY <1>1, <3>1 DEF TypeOK, Position
    <3>4. i < Position(b, s.attempt)
      BY <3>1, <3>2, <3>3
    <3> QED
      BY <3>2, <3>4 DEF Behind
  <2>6. DeliveredIsRecorded'
    BY <1>1, <2>4, <2>5 DEF Parts, DeliveredIsRecorded, IsRecorded, Auditable
  <2>7. TypeOK'
    BY <1>1, <1>2, <2>4 DEF TypeOK, ServerRecord
  <2> QED
    BY <1>3, <1>4, <2>6, <2>7 DEF Parts
<1> QED
  BY <1>5, <1>6 DEF GetAnswer, TimeOut

LEMMA CrashKeeps ==
    ASSUME Parts, Crash
    PROVE  Parts'
<1>1. TypeOK /\ UNCHANGED <<batch, server, recorded>> /\ faults < MaxFaults /\ faults' = faults + 1
  BY DEF Parts, Crash
<1>2. faults' \in 0..MaxFaults
  BY <1>1, AuditAssumption DEF TypeOK
<1>3. ASSUME NEW b \in Batches, NEW a \in Attempts
      PROVE  /\ handler'[b][a] \in HandlerRecord
             /\ handler'[b][a].next = handler[b][a].next
             /\ handler'[b][a].pc = "ok" => handler[b][a].pc = "ok"
  <2>1. PICK h \in HandlerRecord : h = handler[b][a]
    BY <1>1 DEF TypeOK, HandlerRecord
  <2>2. handler'[b][a] = IF h.pc = "running" THEN [h EXCEPT !.pc = "gone"] ELSE h
    BY <2>1 DEF Crash
  <2>3. PICK g : g = [h EXCEPT !.pc = "gone"]
    OBVIOUS
  <2>4. g \in HandlerRecord /\ g.pc = "gone" /\ g.next = h.next
    BY <2>3 DEF HandlerRecord
  <2> QED
    BY <2>1, <2>2, <2>3, <2>4
<1>4. handler' \in [Batches -> [Attempts -> HandlerRecord]]
  <2>1. handler' = [b \in Batches |-> [a \in Attempts |-> handler'[b][a]]]
    BY DEF Crash
  <2> QED
    BY <1>3, <2>1
<1>5. \A b \in Batches, a \in Attempts : AttemptInv(b, a)'
  BY <1>1, <1>3, AttemptKept
<1>6. TypeOK'
  BY <1>1, <1>2, <1>4 DEF TypeOK, HandlerRecord
<1> QED
  BY <1>1, <1>5, <1>6, DeliveredKept, RecordKept DEF Parts

-----------------------------------------------------------------------------
(* The handler. *)

\* An attempt that goes past an event which needs no record, or has one.
LEMMA PastEvent ==
    ASSUME Parts, NEW b \in Batches, NEW a \in Attempts, UNCHANGED batch, recorded \subseteq recorded',
           NEW n, n = Position(b, a), n =< Len(batch[b]), handler' = [handler EXCEPT ![b][a].next = @ + 1],
           Running(b, a), ShouldProcess(Current(b, a)) => IsRecorded(b, n)'
    PROVE  /\ handler' \in [Batches -> [Attempts -> HandlerRecord]]
           /\ \A c \in Batches, d \in Attempts : AttemptInv(c, d)'
<1>1. TypeOK /\ Len(batch[b]) \in 1..BatchSize /\ BatchSize \in Nat
  BY BatchIsSequence, AuditAssumption DEF Parts
<1>2. n \in 1..Len(batch[b])
  BY <1>1 DEF TypeOK, Position
<1>3. n =< BatchSize
  BY <1>1, <1>2
<1>4. /\ handler' \in [Batches -> [Attempts -> HandlerRecord]]
      /\ handler'[b][a].pc = "running" /\ handler'[b][a].next = n + 1
      /\ \A c \in Batches, d \in Attempts : c # b \/ d # a => handler'[c][d] = handler[c][d]
  <2>1. Position(b, a) =< BatchSize
    BY <1>3
  <2>2. /\ handler' \in [Batches -> [Attempts -> HandlerRecord]]
        /\ handler'[b][a].pc = handler[b][a].pc /\ handler'[b][a].next = handler[b][a].next + 1
        /\ OthersStay(b, a)
    BY <1>1, <2>1, AttemptProceeds
  <2> QED
    BY <2>2 DEF Running, Position, OthersStay
<1>5. ASSUME NEW i \in Auditable(b)', i < n + 1 PROVE IsRecorded(b, i)'
  <2>1. i \in Auditable(b) /\ i \in 1..Len(batch[b])
    BY RecordedStays DEF Auditable
  <2>2. CASE i < n
    <3>1. IsRecorded(b, i)
      BY <2>1, <2>2 DEF Parts, AttemptInv, Behind
    <3> QED
      BY <2>1, <3>1, RecordedStays
  <2>3. CASE i = n
    BY <2>1, <2>3 DEF Auditable, Current
  <2> QED
    BY <1>1, <1>2, <1>5, <2>1, <2>2, <2>3
<1>6. AttemptInv(b, a)'
  BY <1>4, <1>5 DEF AttemptInv, Behind, AtEnd, Position
<1>7. ASSUME NEW c \in Batches, NEW d \in Attempts PROVE AttemptInv(c, d)'
  BY <1>4, <1>6, AttemptKept
<1> QED
  BY <1>4, <1>7

LEMMA FilterKeeps ==
    ASSUME Parts, NEW b \in Batches, NEW a \in Attempts, Filter(b, a)
    PROVE  Parts'
<1>1. /\ TypeOK /\ UNCHANGED <<batch, server, recorded, faults>>
      /\ Running(b, a) /\ Position(b, a) =< Len(batch[b]) /\ ~ShouldProcess(Current(b, a))
      /\ handler' = [handler EXCEPT ![b][a].next = @ + 1]
  BY DEF Parts, Filter, Pending
<1>2. /\ handler' \in [Batches -> [Attempts -> HandlerRecord]]
      /\ \A c \in Batches, d \in Attempts : AttemptInv(c, d)'
  BY <1>1, PastEvent
<1>3. TypeOK'
  BY <1>1, <1>2 DEF TypeOK, HandlerRecord
<1> QED
  BY <1>1, <1>2, <1>3, DeliveredKept, RecordKept DEF Parts

LEMMA RecordKeeps ==
    ASSUME Parts, NEW b \in Batches, NEW a \in Attempts, Record(b, a)
    PROVE  Parts'
<1> PICK n : n = Position(b, a)
  OBVIOUS
<1> PICK new : new = [batch |-> b, index |-> n, region |-> RegionOf(Current(b, a))]
  OBVIOUS
<1>1. /\ TypeOK /\ UNCHANGED <<batch, server, faults>>
      /\ Running(b, a) /\ n =< Len(batch[b])
      /\ ShouldProcess(Current(b, a)) /\ RegionOf(Current(b, a)) \in Audited
      /\ recorded' = recorded \cup {new}
      /\ handler' = [handler EXCEPT ![b][a].next = @ + 1]
  BY DEF Parts, Record, Pending, Routable
<1>2. n \in 1..Len(batch[b]) /\ n \in 1..BatchSize
  <2>1. n \in 1..BatchSize + 1 /\ Len(batch[b]) \in 1..BatchSize /\ BatchSize \in Nat
    BY <1>1, BatchIsSequence, AuditAssumption DEF TypeOK, Position
  <2> QED
    BY <1>1, <2>1
<1>3. new \in recorded' /\ new.batch = b /\ new.index = n /\ new.region = RegionOf(Current(b, a)) /\ recorded \subseteq recorded'
  BY <1>1
<1>4. IsRecorded(b, n)'
  BY <1>3 DEF IsRecorded
<1>5. /\ handler' \in [Batches -> [Attempts -> HandlerRecord]]
      /\ \A c \in Batches, d \in Attempts : AttemptInv(c, d)'
  BY <1>1, <1>3, <1>4, PastEvent
<1>6. recorded' \subseteq [batch : Batches, index : 1..BatchSize, region : Audited]
  BY <1>1, <1>2 DEF TypeOK
<1>7. TypeOK'
  BY <1>1, <1>5, <1>6 DEF TypeOK, HandlerRecord
<1>8. RecordInv(new)'
  <2>1. n \in Auditable(b)'
    BY <1>1, <1>2 DEF Auditable, Current
  <2>2. ASSUME NEW j \in Auditable(b)', j < n PROVE IsRecorded(b, j)'
    <3>1. j \in Auditable(b) /\ j \in Nat
      BY <1>1, <1>3, RecordedStays DEF Auditable
    <3>2. IsRecorded(b, j)
      BY <2>2, <3>1 DEF Parts, AttemptInv, Behind
    <3> QED
      BY <1>1, <1>3, <3>1, <3>2, RecordedStays
  <2>3. new.region = RegionOf(batch'[b][n])
    BY <1>1, <1>3 DEF Current
  <2> QED
    BY <1>3, <2>1, <2>2, <2>3 DEF RecordInv
<1>9. ASSUME NEW r \in recorded' PROVE RecordInv(r)'
  <2>1. CASE r \in recorded
    BY <1>1, <1>3, <2>1, RecordKept
  <2>2. CASE r = new
    BY <1>8, <2>2
  <2> QED
    BY <1>1, <2>1, <2>2
<1>10. DeliveredIsRecorded'
  BY <1>1, <1>3, DeliveredKept
<1> QED
  BY <1>5, <1>7, <1>9, <1>10 DEF Parts

LEMMA AnswerKeeps ==
    ASSUME Parts, NEW b \in Batches, NEW a \in Attempts, Reject(b, a) \/ Finish(b, a)
    PROVE  Parts'
<1>1. /\ TypeOK /\ UNCHANGED <<batch, server, recorded, faults>>
  BY DEF Parts, Reject, Finish
<1>2. PICK pc \in {"ok", "error"} :
        /\ handler' = [handler EXCEPT ![b][a].pc = pc]
        /\ pc = "ok" => ~(Position(b, a) =< Len(batch[b]))
  BY DEF Reject, Finish, Pending
<1>3. /\ handler' \in [Batches -> [Attempts -> HandlerRecord]]
      /\ handler'[b][a].pc = pc /\ handler'[b][a].next = handler[b][a].next
      /\ \A c \in Batches, d \in Attempts : c # b \/ d # a => handler'[c][d] = handler[c][d]
  BY <1>1, <1>2, AttemptMoves DEF OthersStay
<1>4. AttemptInv(b, a)'
  <2>1. Behind(b, a)'
    BY <1>1, <1>3 DEF Parts, AttemptInv, Behind, Position, Auditable, IsRecorded
  <2>2. Position(b, a) \in Nat /\ Len(batch[b]) \in Nat
    BY <1>1, BatchIsSequence DEF TypeOK, Position
  <2>3. AtEnd(b, a)'
    BY <1>1, <1>2, <1>3, <2>2 DEF AtEnd, Position
  <2> QED
    BY <2>1, <2>3 DEF AttemptInv
<1>5. ASSUME NEW c \in Batches, NEW d \in Attempts PROVE AttemptInv(c, d)'
  BY <1>1, <1>3, <1>4, AttemptKept
<1>6. TypeOK'
  BY <1>1, <1>3 DEF TypeOK, HandlerRecord
<1> QED
  BY <1>1, <1>5, <1>6, DeliveredKept, RecordKept DEF Parts

-----------------------------------------------------------------------------

LEMMA Start == Init => Parts
<1> SUFFICES ASSUME Init PROVE Parts
  OBVIOUS
<1>1. 1 \in Attempts /\ 1 \in 1..BatchSize + 1 /\ 0 \in 0..MaxFaults
  BY AuditAssumption DEF Attempts
<1>2. NewHandler \in HandlerRecord /\ [phase |-> "ready", attempt |-> 1] \in ServerRecord
  BY <1>1 DEF NewHandler, HandlerRecord, ServerRecord
<1>3. /\ server = [b \in Batches |-> [phase |-> "ready", attempt |-> 1]]
      /\ handler = [b \in Batches |-> [a \in Attempts |-> NewHandler]]
      /\ recorded = {} /\ faults = 0
      /\ batch \in [Batches -> UNION {[1..n -> Samples] : n \in 1..BatchSize}]
  BY DEF Init
<1>4. TypeOK
  <2>1. server \in [Batches -> ServerRecord]
    BY <1>2, <1>3
  <2>2. handler \in [Batches -> [Attempts -> HandlerRecord]]
    BY <1>2, <1>3
  <2> QED
    BY <1>1, <1>3, <2>1, <2>2 DEF TypeOK, ServerRecord, HandlerRecord
<1>5. DeliveredIsRecorded
  BY <1>3 DEF DeliveredIsRecorded
<1>6. ASSUME NEW b \in Batches, NEW a \in Attempts PROVE AttemptInv(b, a)
  <2>1. handler[b][a].pc = "none" /\ handler[b][a].next = 1
    BY <1>3 DEF NewHandler
  <2>2. \A i \in Auditable(b) : ~(i < 1)
    BY <1>4, BatchIsSequence DEF Auditable
  <2> QED
    BY <2>1, <2>2 DEF AttemptInv, Behind, AtEnd, Position
<1> QED
  BY <1>3, <1>4, <1>5, <1>6 DEF Parts

LEMMA Step == Parts /\ [Next]_vars => Parts'
<1> SUFFICES ASSUME Parts, [Next]_vars PROVE Parts'
  OBVIOUS
<1>1. CASE UNCHANGED vars
  <2>1. TypeOK'
    BY <1>1 DEF Parts, TypeOK, vars
  <2> QED
    BY <1>1, <2>1, AttemptKept, RecordKept, DeliveredKept DEF Parts, vars
<1> QED
  BY <1>1, CrashKeeps, SendKeeps, ServerStepKeeps, FilterKeeps, RecordKeeps, AnswerKeeps DEF Next, Handle

LEMMA Always == Spec => []AuditInv
<1>1. Spec => []Parts
  BY Start, Step, PTL DEF Spec
<1> QED
  BY <1>1, AllParts, PTL

\* Whatever attempts time out, crash or overlap: a batch that was acknowledged
\* is recorded to its last event (ServeHTTP).
THEOREM NothingAcknowledgedIsLost == Spec => []DeliveredIsRecorded
<1>1. AuditInv => DeliveredIsRecorded
  BY DEF AuditInv
<1> QED
  BY <1>1, Always, PTL

\* The audit trail of a batch has no holes before its end (ServeHTTP stops at the
\* first error).
THEOREM TrailHasNoHoles == Spec => []NoHoles
<1>1. AuditInv => NoHoles
  BY DEF AuditInv
<1> QED
  BY <1>1, Always, PTL

\* The audit handler and the admission webhook agree on the region of a creation,
\* for every event that can be in a batch (extractShootRegion).
THEOREM CreationIsRecordedWhereItIs == Spec => []RecordedWhereCreated
<1>1. ASSUME NEW e, NEW r, r.region = RegionOf(e), e.request \in {None, CreatedIn(e)}
      PROVE  RecordedAt(r, e)
  BY <1>1 DEF RegionOf, ShootObject, RecordedAt, CreatedIn
<1>2. AuditInv => RecordedWhereCreated
  BY <1>1 DEF AuditInv, RecordedWhereCreated
<1> QED
  BY <1>2, Always, PTL
=============================================================================
