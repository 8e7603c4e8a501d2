-------------------------- MODULE SendPathProofs --------------------------
(***************************************************************************)
(* The order of the fair queue, for any number of flows, any packet        *)
(* lengths and any width of the times.  The argument needs to know who     *)
(* holds the turn: the jobs of the send path form one token, which exists  *)
(* only while a flow is sending, and each flow is in one place at a time.  *)
(* The token also tells what the server has of the packet on its way, from *)
(* which follows that no packet is cut, lost or doubled.                   *)
(***************************************************************************)
EXTENDS SendPath, TLAPS, WellFoundedInduction, SequenceTheorems

IsOut(j) == j[1] \in OutJobs \union {"streamDone"}
NeedsServer(j) == j[1] \in {"sendOp", "sendDone", "streamOp", "streamDone"}
IsOf(j, f) == j[1] \in {"op", "done"} /\ j[2] = f
IsSchedule(j) == j[1] = "schedule"
Elems(js) == {js[i] : i \in 1..Len(js)}

\* Two jobs that may be pending together.
Compatible(a, b) ==
  /\ ~(IsSchedule(a) /\ IsSchedule(b))
  /\ ~(IsOut(a) /\ IsOut(b))
  /\ \A f \in Flows : ~(IsOf(a, f) /\ IsOf(b, f))

\* No two pending jobs compete: one schedule job, one job of the send path,
\* one job per flow.
Exclusive(js) ==
  \A i, k \in 1..Len(js) : i # k => Compatible(js[i], js[k])

\* What a pending job says about the rest of the state.
Means(j) ==
  /\ IsSchedule(j) => sending = None
  /\ IsOut(j) => sending # None /\ ~blocked
  /\ j[1] = "connDone" => ~inLen
  /\ NeedsServer(j) => have
  /\ \A f \in Flows : IsOf(j, f) => f \notin queued /\ f # sending /\ buf[f] # <<>>

JobsMean == \A j \in Elems(jobs) : Means(j)

\* Who waits and who sends has a packet in its buffer.
Holders ==
  /\ \A f \in queued : buf[f] # <<>>
  /\ sending # None => sending \notin queued /\ buf[sending] # <<>> /\ previous = None
  /\ inLen \/ blocked => sending # None
  /\ blocked => have

\* The flow that sent last is remembered only until the schedule job runs.
PreviousPending == previous # None => J("schedule") \in Elems(jobs)

IInv == TypeOK /\ Exclusive(jobs) /\ JobsMean /\ Holders /\ PreviousPending /\ SendingIsEarliest

USE ConstantsAssumption

-----------------------------------------------------------------------------
(* Lists of jobs.                                                          *)

LEMMA TailNotEmpty ==
  ASSUME NEW S, NEW s \in Seq(S), Len(s) > 1
  PROVE  Tail(s) # <<>>
<1>1. Len(Tail(s)) = Len(s) - 1 /\ Len(s) \in Nat
  OBVIOUS
<1>2. \A n \in Nat : n > 1 => n - 1 # 0
  OBVIOUS
<1>3. Len(<<>>) = 0
  BY EmptySeq, Zenon
<1> QED
  BY <1>1, <1>2, <1>3, Zenon

\* A job that BPending_Set adds is compatible with the others or the list is
\* not exclusive any more.
LEMMA PushJob ==
  ASSUME NEW js \in Seq(Job), NEW j \in Job
  PROVE  /\ BPending_Set(js, j) \in Seq(Job)
         /\ Elems(BPending_Set(js, j)) = Elems(js) \union {j}
         /\ Exclusive(js) /\ (\A x \in Elems(js) : Compatible(x, j))
              => Exclusive(BPending_Set(js, j))
<1> DEFINE new == BPending_Set(js, j)
<1>0. Len(js) \in Nat
  OBVIOUS
<1>1. new \in Seq(Job) /\ Len(new) = Len(js) + 1 /\ new[1] = j
  BY DEF BPending_Set
<1>2. \A i \in 1..Len(js) : new[i + 1] = js[i]
  BY DEF BPending_Set
<1>3. \A k \in 1..Len(new) : k # 1 => k - 1 \in 1..Len(js) /\ new[k] = js[k - 1]
  BY <1>1, <1>2
<1> HIDE DEF new
<1>4. Elems(new) = Elems(js) \union {j}
  <2>1. Elems(new) \subseteq Elems(js) \union {j}
    BY <1>1, <1>3 DEF Elems
  <2>2. j \in Elems(new)
    BY <1>1 DEF Elems
  <2>3. \A i \in 1..Len(js) : js[i] \in Elems(new)
    BY <1>1, <1>2 DEF Elems
  <2> QED
    BY <2>1, <2>2, <2>3, Zenon DEF Elems
<1>5. ASSUME Exclusive(js), \A x \in Elems(js) : Compatible(x, j)
      PROVE  Exclusive(new)
  <2> SUFFICES ASSUME NEW i \in 1..Len(new), NEW k \in 1..Len(new), i # k
               PROVE  Compatible(new[i], new[k])
    BY DEF Exclusive
  <2>1. \A m \in 1..Len(js) : js[m] \in Elems(js)
    BY DEF Elems
  <2>2. CASE i = 1
    BY <2>2, <2>1, <1>1, <1>3, <1>5 DEF Compatible
  <2>3. CASE k = 1
    BY <2>3, <2>1, <1>1, <1>3, <1>5 DEF Compatible
  <2>4. CASE i # 1 /\ k # 1
    <3>1. i - 1 \in 1..Len(js) /\ k - 1 \in 1..Len(js) /\ new[i] = js[i - 1] /\ new[k] = js[k - 1]
      BY <2>4, <1>3
    <3>2. i - 1 # k - 1
      BY <1>0, <1>1
    <3> QED
      BY <3>1, <3>2, <1>5, Zenon DEF Exclusive
  <2> QED
    BY <2>2, <2>3, <2>4
<1> QED
  BY <1>1, <1>4, <1>5 DEF new

\* What is left when the reactor takes the first job.
LEMMA PopJob ==
  ASSUME NEW js \in Seq(Job), NEW j, BPendingGroup_ExecuteJob(js, j), Exclusive(js)
  PROVE  /\ Tail(js) \in Seq(Job) /\ j \in Job
         /\ Elems(js) = Elems(Tail(js)) \union {j}
         /\ Exclusive(Tail(js))
         /\ \A x \in Elems(Tail(js)) : Compatible(x, j)
<1>1. js # <<>> /\ Len(js) \in Nat /\ Len(js) > 0 /\ js[1] = j /\ j \in Job
  BY DEF BPendingGroup_ExecuteJob
<1>2. Tail(js) \in Seq(Job) /\ Len(Tail(js)) = Len(js) - 1
  BY <1>1
<1>3. \A i \in 1..Len(Tail(js)) : i + 1 \in 1..Len(js) /\ Tail(js)[i] = js[i + 1]
  BY <1>1, <1>2
<1>4. \A i \in 1..Len(js) : i # 1 => i - 1 \in 1..Len(Tail(js)) /\ js[i] = Tail(js)[i - 1]
  BY <1>1, <1>2, <1>3
<1>5. Elems(js) = Elems(Tail(js)) \union {j}
  <2>1. \A x \in Elems(js) : x \in Elems(Tail(js)) \union {j}
    BY <1>1, <1>4 DEF Elems
  <2>2. \A x \in Elems(Tail(js)) : x \in Elems(js)
    BY <1>3 DEF Elems
  <2>3. j \in Elems(js)
    BY <1>1 DEF Elems
  <2> QED
    BY <2>1, <2>2, <2>3
<1>6. Exclusive(Tail(js))
  BY <1>3, <1>1, <1>2 DEF Exclusive
<1>7. \A x \in Elems(Tail(js)) : Compatible(x, j)
  BY <1>1, <1>2, <1>3 DEF Exclusive, Elems
<1> QED
  BY <1>1, <1>2, <1>5, <1>6, <1>7

-----------------------------------------------------------------------------
(* Times of the queue.                                                     *)

\* queued_tree has a first flow when it is not empty.
LEMMA EarliestExists ==
  ASSUME NEW t \in [Flows -> 0..MaxTime], NEW q \in SUBSET Flows, q # {}
  PROVE  Earliest(t, q) # {}
<1> DEFINE T == {t[f] : f \in q}
<1>1. T \subseteq Nat /\ T # {}
  OBVIOUS
<1>2. \E x \in T : \A y \in T : ~(<<y, x>> \in OpToRel(<, Nat))
  BY <1>1, NatLessThanWellFounded, WFMin, Zenon
<1>3. PICK x \in T : \A y \in T : ~(<<y, x>> \in OpToRel(<, Nat))
  BY <1>2, Zenon
<1>4. ASSUME NEW y \in T PROVE x <= y
  <2>1. x \in Nat /\ y \in Nat
    BY <1>1
  <2>2. y < x => <<y, x>> \in OpToRel(<, Nat)
    BY <2>1, Zenon DEF OpToRel
  <2>3. ~(y < x)
    BY <2>2, <1>3, Zenon
  <2> QED
    BY <2>1, <2>3
<1> QED
  BY <1>4, <1>1 DEF Earliest

LEMMA FirstTimeIsLeast ==
  ASSUME NEW t \in [Flows -> 0..MaxTime], NEW q \in SUBSET Flows, q # {}
  PROVE  /\ FirstTime(t, q) \in 0..MaxTime
         /\ \A f \in q : FirstTime(t, q) <= t[f]
         /\ \E f \in q : FirstTime(t, q) = t[f]
<1>1. PICK f \in Earliest(t, q) : f = (CHOOSE g \in Earliest(t, q) : TRUE)
  BY EarliestExists
<1> QED
  BY <1>1 DEF FirstTime, Earliest

\* increment_sent_flow: the times stay below FAIRQUEUE_MAX_TIME, and the lead
\* of the flow over each waiting flow grows by the amount.
LEMMA IncrementExact ==
  ASSUME TypeOK, NEW flow \in Flows, NEW amount \in 0..MaxTime, flow \notin queued,
         \A f \in queued : time[flow] <= time[f]
  PROVE  LET new == IncrementSentFlow(flow, amount) IN
         /\ new \in [Flows -> 0..MaxTime]
         /\ \A f \in queued : new[flow] + time[f] = (time[flow] + amount) + new[f]
<1> DEFINE subtract == IF queued = {} THEN time[flow] ELSE FirstTime(time, queued)
           lowered == [f \in Flows |-> IF subtract > time[f] /\ f # flow
                                       THEN 0 ELSE Sub64(time[f], subtract)]
           new == IncrementSentFlow(flow, amount)
<1>0. time \in [Flows -> 0..MaxTime] /\ queued \in SUBSET Flows
  BY Zenon DEF TypeOK
<1>1. subtract \in 0..MaxTime /\ time[flow] <= subtract /\ \A f \in queued : subtract <= time[f]
  <2>1. CASE queued = {}
    BY <2>1, <1>0
  <2>2. CASE queued # {}
    BY <2>2, <1>0, FirstTimeIsLeast
  <2> QED
    BY <2>1, <2>2
<1>2. CASE amount > MaxTime - time[flow]
  <2>1. new = [lowered EXCEPT ![flow] = Add64(lowered[flow], amount)]
    BY <1>2, Zenon DEF IncrementSentFlow
  <2>2. \A f \in Flows : f # flow => lowered[f] \in 0..MaxTime
    BY <1>0, <1>1 DEF Sub64
  <2>3. \A f \in queued : lowered[f] = time[f] - subtract
    BY <1>0, <1>1 DEF Sub64
  \* the finished flow wraps below zero and back
  <2>4. Add64(lowered[flow], amount) = (time[flow] + amount) - subtract
    BY <1>0, <1>1, <1>2 DEF Sub64, Add64
  <2>5. (time[flow] + amount) - subtract \in 0..MaxTime
    BY <1>0, <1>1, <1>2
  <2> HIDE DEF lowered, subtract
  <2>6. lowered = [f \in Flows |-> lowered[f]]
    BY DEF lowered
  <2>7. new[flow] = (time[flow] + amount) - subtract /\ \A f \in Flows : f # flow => new[f] = lowered[f]
    BY <2>1, <2>4, <2>6
  <2>8. new \in [Flows -> 0..MaxTime]
    BY <2>1, <2>2, <2>4, <2>5, <2>6
  <2>9. \A f \in queued : new[flow] + time[f] = (time[flow] + amount) + new[f]
    BY <2>7, <2>3, <1>0, <1>1
  <2> QED
    BY <2>8, <2>9
<1>3. CASE ~(amount > MaxTime - time[flow])
  <2>1. new = [time EXCEPT ![flow] = Add64(time[flow], amount)]
    BY <1>3, Zenon DEF IncrementSentFlow
  <2>2. Add64(time[flow], amount) = time[flow] + amount /\ time[flow] + amount \in 0..MaxTime
    BY <1>0, <1>3 DEF Add64
  <2> QED
    BY <2>1, <2>2, <1>0
<1> QED
  BY <1>2, <1>3

-----------------------------------------------------------------------------
(* The steps.                                                              *)

LEMMA JobTypes ==
  /\ \A h \in OutJobs \union {"schedule"} : J(h) \in Job
  /\ \A f \in Flows : <<"op", f>> \in Job /\ <<"done", f>> \in Job
  /\ \A n \in Nat \ {0} : <<"streamDone", n>> \in Job
BY DEF Job, J

\* The handler sets no job, and nothing the others depend on changes.
LEMMA NoNextJob ==
  ASSUME IInv, NEW h, BPendingGroup_ExecuteJob(jobs, h), jobs' = Tail(jobs),
         sending' = sending, queued' = queued, buf' = buf,
         IsOut(h) \/ blocked' = blocked, IsOut(h) \/ inLen' = inLen, have' = have,
         previous' = None \/ (previous' = previous /\ ~IsSchedule(h))
  PROVE  jobs' \in Seq(Job) /\ Exclusive(jobs)' /\ JobsMean' /\ PreviousPending'
<1>1. jobs \in Seq(Job) /\ Exclusive(jobs)
  BY DEF IInv, TypeOK
<1>2. /\ Tail(jobs) \in Seq(Job) /\ Elems(jobs) = Elems(Tail(jobs)) \union {h}
      /\ Exclusive(Tail(jobs)) /\ \A x \in Elems(Tail(jobs)) : Compatible(x, h)
  BY <1>1, PopJob
<1>3. \A x \in Elems(Tail(jobs)) : Means(x)'
  BY <1>2 DEF IInv, JobsMean, Means, NeedsServer, Compatible, IsOut, OutJobs
<1>4. PreviousPending'
  BY <1>2 DEF IInv, PreviousPending, IsSchedule, J
<1> QED
  BY <1>2, <1>3, <1>4 DEF JobsMean, Exclusive, Compatible

LEMMA InitInv == Init => IInv
<1> SUFFICES ASSUME Init PROVE IInv
  OBVIOUS
<1>1. TypeOK
  <2>1. inLen \in BOOLEAN /\ have \in BOOLEAN /\ blocked \in BOOLEAN
    BY Zenon DEF Init
  <2> QED
    BY <2>1 DEF Init, TypeOK, Whole
<1>2. Elems(jobs) = {} /\ Exclusive(jobs)
  BY DEF Init, Elems, Exclusive
<1> QED
  BY <1>1, <1>2 DEF Init, IInv, JobsMean, Holders, PreviousPending, SendingIsEarliest

\* The first flow of a set of waiting flows gets its turn.
LEMMA ScheduleStep ==
  ASSUME IInv, NEW js \in Seq(Job), NEW q \in SUBSET Flows, Exclusive(js),
         Schedule(js, time', q), time' \in [Flows -> 0..MaxTime],
         sending = None, previous' = None, buf' = buf, inLen' = inLen, have' = have, blocked' = blocked,
         \A f \in q : buf[f] # <<>>,
         \A x \in Elems(js) : Means(x) /\ ~IsSchedule(x) /\ \A f \in q : ~IsOf(x, f)
  PROVE  /\ jobs' \in Seq(Job) /\ Exclusive(jobs)' /\ JobsMean' /\ Holders' /\ PreviousPending' /\ SendingIsEarliest'
         /\ queued' \in SUBSET Flows /\ sending' \in Flows
<1>1. PICK f \in Earliest(time', q) : queued' = q \ {f} /\ sending' = f /\ jobs' = BPending_Set(js, J("connOp"))
  BY DEF Schedule
<1>2. f \in q /\ f \in Flows /\ \A g \in q : time'[f] <= time'[g]
  BY <1>1 DEF Earliest
<1>3. f # None /\ ~blocked /\ ~inLen
  BY <1>2 DEF IInv, Holders
<1>4. \A x \in Elems(js) : ~IsOut(x)
  BY DEF Means
<1>5. \A x \in Elems(js) : Compatible(x, J("connOp"))
  BY <1>4 DEF Compatible, IsOut, IsOf, IsSchedule, J
<1>6. J("connOp") \in Job
  BY JobTypes DEF OutJobs
<1>7. jobs' \in Seq(Job) /\ Exclusive(jobs') /\ Elems(jobs') = Elems(js) \union {J("connOp")}
  BY <1>1, <1>5, <1>6, PushJob
<1>8. \A x \in Elems(js) : Means(x)'
  BY <1>1, <1>2, <1>4, Zenon DEF Means, NeedsServer, IsOut, OutJobs
<1>9. Means(J("connOp"))'
  BY <1>1, <1>2, <1>3 DEF Means, NeedsServer, IsOut, IsOf, IsSchedule, J
<1>10. JobsMean' /\ Exclusive(jobs)'
  BY <1>7, <1>8, <1>9 DEF JobsMean, Exclusive, Compatible
<1>11. Holders' /\ PreviousPending' /\ SendingIsEarliest'
  BY <1>1, <1>2, <1>3, Zenon DEF Holders, PreviousPending, SendingIsEarliest
<1> QED
  BY <1>1, <1>2, <1>7, <1>10, <1>11

LEMMA ScheduleJobInv ==
  ASSUME IInv, ScheduleJob PROVE IInv'
<1> DEFINE h == J("schedule")
<1>1. /\ Tail(jobs) \in Seq(Job) /\ Elems(jobs) = Elems(Tail(jobs)) \union {h}
      /\ Exclusive(Tail(jobs)) /\ \A x \in Elems(Tail(jobs)) : Compatible(x, h)
  BY PopJob, Zenon DEF IInv, TypeOK, ScheduleJob
<1>2. sending = None /\ ~inLen /\ ~blocked
  BY <1>1 DEF IInv, JobsMean, Means, NeedsServer, IsSchedule, Holders, J
<1>3. CASE queued # {} /\ Schedule(Tail(jobs), time, queued)
  <2>1. \A x \in Elems(Tail(jobs)) : Means(x) /\ ~IsSchedule(x) /\ \A f \in queued : ~IsOf(x, f)
    BY <1>1, Zenon DEF IInv, TypeOK, JobsMean, Means, NeedsServer, Compatible, IsSchedule, J
  <2>2. /\ jobs' \in Seq(Job) /\ Exclusive(jobs)' /\ JobsMean' /\ Holders' /\ PreviousPending' /\ SendingIsEarliest'
        /\ queued' \in SUBSET Flows /\ sending' \in Flows
    BY <1>1, <1>2, <1>3, <2>1, ScheduleStep, Zenon DEF IInv, TypeOK, Holders, ScheduleJob, outVars
  <2> QED
    BY <2>2, Zenon DEF IInv, TypeOK, ScheduleJob, outVars
<1>4. CASE queued = {} /\ jobs' = Tail(jobs) /\ UNCHANGED <<queued, sending>>
  <2>1. jobs' \in Seq(Job) /\ Exclusive(jobs)' /\ JobsMean' /\ PreviousPending'
    BY <1>4, NoNextJob DEF ScheduleJob, outVars
  <2> QED
    BY <1>4, <2>1, Zenon DEF IInv, TypeOK, ScheduleJob, Holders, SendingIsEarliest, outVars
<1> QED
  BY <1>3, <1>4 DEF ScheduleJob

\* The current time of the queue is a time, and it is the time of the
\* sending flow if there is one.
LEMMA CurrentTime ==
  ASSUME TypeOK
  PROVE  GetCurrentTime \in 0..MaxTime /\ (sending # None => GetCurrentTime = time[sending])
<1>1. time \in [Flows -> 0..MaxTime] /\ queued \in SUBSET Flows /\ MaxTime \in Nat
      /\ sending \in Flows \union {None} /\ previous \in Flows \union {None}
  BY Zenon DEF TypeOK
<1>2. queued # {} => FirstTime(time, queued) \in 0..MaxTime
  BY <1>1, FirstTimeIsLeast
<1> QED
  BY <1>1, <1>2 DEF GetCurrentTime

LEMMA QueueInputSendInv ==
  ASSUME IInv, NEW f \in Flows, QueueInputSend(f) PROVE IInv'
<1> DEFINE h == <<"op", f>>
           q == queued \union {f}
<1>1. /\ Tail(jobs) \in Seq(Job) /\ Elems(jobs) = Elems(Tail(jobs)) \union {h}
      /\ Exclusive(Tail(jobs)) /\ \A x \in Elems(Tail(jobs)) : Compatible(x, h)
  BY PopJob, Zenon DEF IInv, TypeOK, QueueInputSend
<1>2. f \notin queued /\ f # sending /\ buf[f] # <<>>
  BY <1>1 DEF IInv, JobsMean, Means, NeedsServer, IsOf
<1>3. time' \in [Flows -> 0..MaxTime] /\ previous' \in Flows \union {None}
      /\ (sending # None => previous' = None)
  <2>1. time \in [Flows -> 0..MaxTime] /\ GetCurrentTime \in 0..MaxTime
    BY CurrentTime DEF IInv, TypeOK
  <2>2. time' \in [Flows -> 0..MaxTime]
    BY <2>1 DEF QueueInputSend
  <2>3. previous \in Flows \union {None} /\ (sending # None => previous = None)
    BY DEF IInv, TypeOK, Holders
  <2>4. previous' = previous \/ previous' = None
    BY DEF QueueInputSend
  <2> QED
    BY <2>2, <2>3, <2>4
<1>4. \A x \in Elems(Tail(jobs)) : Means(x) /\ \A g \in q : ~IsOf(x, g)
  BY <1>1, <1>2, Zenon DEF IInv, TypeOK, JobsMean, Means, NeedsServer, Compatible, IsOf
<1>5. \A g \in q : buf[g] # <<>>
  BY <1>2 DEF IInv, Holders
<1>6. ScheduleJobSet(jobs) <=> J("schedule") \in Elems(jobs)
  BY DEF ScheduleJobSet, Elems
<1>7. CASE sending = None /\ ~ScheduleJobSet(jobs)
  <2>1. Schedule(Tail(jobs), time', q)
    BY <1>7 DEF QueueInputSend
  <2>2. previous' = None
    BY <1>6, <1>7 DEF QueueInputSend, IInv, PreviousPending
  <2>3. \A x \in Elems(Tail(jobs)) : ~IsSchedule(x)
    <3> SUFFICES ASSUME NEW x \in Elems(Tail(jobs)), IsSchedule(x) PROVE FALSE
      OBVIOUS
    <3>1. x \in Job
      BY <1>1 DEF Elems
    <3>2. x = J("schedule")
      BY <3>1 DEF Job, IsSchedule, J, OutJobs
    <3> QED
      BY <3>2, <1>1, <1>6, <1>7
  <2>4. /\ jobs' \in Seq(Job) /\ Exclusive(jobs)' /\ JobsMean' /\ Holders' /\ PreviousPending' /\ SendingIsEarliest'
        /\ queued' \in SUBSET Flows /\ sending' \in Flows
    <3>1. buf' = buf /\ inLen' = inLen /\ have' = have /\ blocked' = blocked
      BY DEF QueueInputSend, outVars
    <3>2. q \in SUBSET Flows
      BY DEF IInv, TypeOK
    <3> HIDE DEF q
    <3> QED
      BY <3>1, <3>2, <1>1, <1>3, <1>4, <1>5, <1>7, <2>1, <2>2, <2>3, ScheduleStep, Zenon
  <2> QED
    BY <1>3, <2>4, Zenon DEF IInv, TypeOK, QueueInputSend, outVars
<1>8. CASE ~(sending = None /\ ~ScheduleJobSet(jobs))
  <2>1. jobs' = Tail(jobs) /\ queued' = q /\ sending' = sending
    BY <1>8 DEF QueueInputSend
  <2>2. \A x \in Elems(Tail(jobs)) : Means(x)'
    BY <2>1, <1>4, Zenon DEF Means, NeedsServer, QueueInputSend, outVars
  <2>3. JobsMean' /\ Exclusive(jobs)'
    BY <2>1, <2>2, <1>1, Zenon DEF JobsMean, Exclusive, Compatible
  <2>4. Holders'
    BY <2>1, <1>2, <1>3, <1>5, Zenon DEF IInv, Holders, QueueInputSend, outVars
  <2>5. PreviousPending'
    BY <2>1, <1>1 DEF IInv, PreviousPending, QueueInputSend, J
  <2>6. SendingIsEarliest'
    <3> SUFFICES ASSUME sending # None PROVE \A g \in q : time'[sending] <= time'[g]
      BY <2>1 DEF SendingIsEarliest
    <3>1. f # previous
      BY DEF IInv, Holders
    <3>2. time' = [time EXCEPT ![f] = IF time[f] < time[sending] THEN time[sending] ELSE time[f]]
      BY <3>1, CurrentTime DEF IInv, QueueInputSend
    <3> QED
      BY <3>2, <1>2 DEF IInv, TypeOK, SendingIsEarliest
  <2> QED
    BY <2>1, <2>3, <2>4, <2>5, <2>6, <1>1, <1>3, Zenon DEF IInv, TypeOK, QueueInputSend, outVars
<1> QED
  BY <1>7, <1>8

\* The packet on its way is the first one in the buffer of its flow.
LEMMA PacketOnItsWay ==
  ASSUME IInv, sending # None
  PROVE  sending \in Flows /\ PacketLen \in Lens /\ PacketLen \in Nat \ {0}
                     /\ PacketWeight + PacketLen \in 0..MaxTime
<1>1. sending \in Flows /\ buf[sending] \in Seq(Lens) /\ buf[sending] # <<>>
  BY DEF IInv, TypeOK, Holders
<1>2. PacketLen \in Lens
  BY <1>1 DEF PacketLen
<1> QED
  BY <1>1, <1>2

LEMMA QueueOutputDoneInv ==
  ASSUME IInv, QueueOutputDone PROVE IInv'
<1> DEFINE h == J("connDone")
           js == BPending_Set(Tail(jobs), J("schedule"))
           d == <<"done", sending>>
<1>1. /\ Tail(jobs) \in Seq(Job) /\ Elems(jobs) = Elems(Tail(jobs)) \union {h}
      /\ Exclusive(Tail(jobs)) /\ \A x \in Elems(Tail(jobs)) : Compatible(x, h)
  BY PopJob, Zenon DEF IInv, TypeOK, QueueOutputDone
<1>2. sending # None /\ ~blocked /\ ~inLen
  BY <1>1 DEF IInv, JobsMean, Means, NeedsServer, IsOut, OutJobs, J
<1>3. sending \in Flows /\ sending \notin queued /\ buf[sending] # <<>> /\ PacketWeight + PacketLen \in 0..MaxTime
  BY <1>2, PacketOnItsWay DEF IInv, Holders
<1>4. time' \in [Flows -> 0..MaxTime]
  BY <1>2, <1>3, IncrementExact, Zenon DEF IInv, SendingIsEarliest, QueueOutputDone, PacketLen
<1>5. \A x \in Elems(Tail(jobs)) : ~IsOut(x) /\ ~IsSchedule(x) /\ ~IsOf(x, sending) /\ Means(x)
  BY <1>1, <1>2, <1>3 DEF IInv, JobsMean, Means, NeedsServer, Compatible, IsOut, OutJobs, J
<1>6. \A x \in Elems(Tail(jobs)) : Compatible(x, J("schedule")) /\ Compatible(x, d)
  BY <1>5 DEF Compatible, IsOut, IsOf, IsSchedule, OutJobs, J
<1>7. Compatible(J("schedule"), d)
  BY DEF Compatible, IsOut, IsOf, IsSchedule, OutJobs, J
<1>8. J("schedule") \in Job /\ d \in Job
  BY <1>3, JobTypes, Zenon
<1>9. js \in Seq(Job) /\ Exclusive(js) /\ Elems(js) = Elems(Tail(jobs)) \union {J("schedule")}
  BY <1>1, <1>6, <1>8, PushJob, Zenon
<1>10. /\ jobs' \in Seq(Job) /\ Exclusive(jobs')
       /\ Elems(jobs') = Elems(Tail(jobs)) \union {J("schedule"), d}
  <2>1. \A x \in Elems(js) : Compatible(x, d)
    BY <1>6, <1>7, <1>9
  <2>2. jobs' = BPending_Set(js, d)
    BY DEF QueueOutputDone
  <2> HIDE DEF js, d
  <2>3. BPending_Set(js, d) \in Seq(Job) /\ Exclusive(BPending_Set(js, d))
        /\ Elems(BPending_Set(js, d)) = Elems(js) \union {d}
    BY <1>8, <1>9, <2>1, PushJob, Zenon
  <2> QED
    BY <1>9, <2>2, <2>3
<1>11. \A x \in Elems(Tail(jobs)) : Means(x)'
  BY <1>2, <1>5, Zenon DEF Means, NeedsServer, QueueOutputDone, outVars, IsOut, OutJobs
<1>12. \A x \in {J("schedule"), d} : Means(x)'
  BY <1>2, <1>3 DEF Means, NeedsServer, QueueOutputDone, outVars, IsOut, IsOf, IsSchedule, OutJobs, J
<1>13. JobsMean' /\ PreviousPending'
  <2> HIDE DEF d
  <2>1. Elems(jobs)' = Elems(Tail(jobs)) \union {J("schedule"), d}
    BY <1>10, Zenon DEF Elems
  <2>2. JobsMean'
    BY <1>11, <1>12, <2>1 DEF JobsMean
  <2> QED
    BY <2>1, <2>2 DEF PreviousPending
<1>14. Holders' /\ SendingIsEarliest'
  BY <1>2, Zenon DEF IInv, Holders, SendingIsEarliest, QueueOutputDone, outVars
<1> QED
  BY <1>3, <1>4, <1>10, <1>13, <1>14, Zenon DEF IInv, TypeOK, QueueOutputDone, outVars, Exclusive, Compatible

LEMMA BufferOutputDoneInv ==
  ASSUME IInv, NEW f \in Flows, BufferOutputDone(f) PROVE IInv'
<1> DEFINE h == <<"done", f>>
           n == <<"op", f>>
<1>1. /\ Tail(jobs) \in Seq(Job) /\ Elems(jobs) = Elems(Tail(jobs)) \union {h}
      /\ Exclusive(Tail(jobs)) /\ \A x \in Elems(Tail(jobs)) : Compatible(x, h)
  BY PopJob, Zenon DEF IInv, TypeOK, BufferOutputDone
<1>2. f \notin queued /\ f # sending /\ buf[f] # <<>> /\ buf[f] \in Seq(Lens)
  <2>1. Means(h) /\ IsOf(h, f)
    BY <1>1 DEF IInv, JobsMean, IsOf
  <2> QED
    BY <2>1, Zenon DEF IInv, TypeOK, Means
<1>3. buf' = [buf EXCEPT ![f] = Tail(@)] /\ buf' \in [Flows -> Seq(Lens)]
  BY <1>2 DEF BufferOutputDone, IInv, TypeOK
<1>4. Len(buf[f]) > 1 => buf'[f] # <<>>
  <2>1. buf'[f] = Tail(buf[f])
    BY <1>3 DEF IInv, TypeOK
  <2> QED
    BY <1>2, <2>1, TailNotEmpty
<1>5. \A x \in Elems(Tail(jobs)) : Compatible(x, n) /\ ~IsOf(x, f) /\ Means(x)
  BY <1>1 DEF IInv, JobsMean, Compatible, IsOut, IsOf, IsSchedule, OutJobs
<1>6. \A x \in Elems(Tail(jobs)) : Means(x)'
  BY <1>3, <1>5 DEF Means, NeedsServer, BufferOutputDone, queueVars, IInv, TypeOK
<1>7. /\ jobs' \in Seq(Job) /\ Exclusive(jobs') /\ Elems(Tail(jobs)) \subseteq Elems(jobs')
      /\ \A x \in Elems(jobs') : Means(x)'
  <2>1. CASE Len(buf[f]) > 1
    <3>1. jobs' = BPending_Set(Tail(jobs), n) /\ n \in Job
      BY <2>1, JobTypes DEF BufferOutputDone
    <3>2. jobs' \in Seq(Job) /\ Exclusive(jobs') /\ Elems(jobs') = Elems(Tail(jobs)) \union {n}
      BY <3>1, <1>1, <1>5, PushJob, Zenon
    <3>3. Means(n)'
      BY <2>1, <1>2, <1>4 DEF Means, NeedsServer, BufferOutputDone, queueVars, IsOut, IsOf, IsSchedule, OutJobs
    <3> QED
      BY <3>2, <3>3, <1>6
  <2>2. CASE ~(Len(buf[f]) > 1)
    BY <2>2, <1>1, <1>6 DEF BufferOutputDone
  <2> QED
    BY <2>1, <2>2
<1>8. PreviousPending'
  BY <1>1, <1>7, Zenon DEF IInv, PreviousPending, BufferOutputDone, queueVars, J
<1>9. Holders' /\ SendingIsEarliest'
  BY <1>2, <1>3, Zenon DEF IInv, TypeOK, Holders, SendingIsEarliest, BufferOutputDone, queueVars
<1>10. ahead' \in [Flows -> Int]
  <2>1. ahead \in [Flows -> Int] /\ ahead' = [ahead EXCEPT ![f] = @ - 1] /\ ahead[f] \in Int
    BY DEF IInv, TypeOK, BufferOutputDone
  <2>2. ahead[f] - 1 \in Int
    BY <2>1
  <2> QED
    BY <2>1, <2>2
<1> QED
  BY <1>3, <1>7, <1>8, <1>9, <1>10, Zenon DEF IInv, TypeOK, JobsMean, Exclusive, Compatible, BufferOutputDone, queueVars

LEMMA WriteInv ==
  ASSUME IInv, NEW f \in Flows, NEW len \in Lens, Write(f, len) PROVE IInv'
<1> DEFINE n == <<"op", f>>
<1>1. Elems(jobs) = {} /\ Exclusive(jobs) /\ jobs \in Seq(Job)
  BY DEF IInv, TypeOK, Write, Elems
<1>2. buf' = [buf EXCEPT ![f] = Append(@, len)] /\ buf' \in [Flows -> Seq(Lens)]
  BY DEF IInv, TypeOK, Write
<1>3. buf'[f] # <<>> /\ \A g \in Flows : g # f => buf'[g] = buf[g]
  <2>1. buf'[f] = Append(buf[f], len) /\ buf[f] \in Seq(Lens)
    BY <1>2 DEF IInv, TypeOK
  <2>2. Len(Append(buf[f], len)) > 0 /\ Append(buf[f], len) \in Seq(Lens)
    BY <2>1
  <2>3. \A g \in Flows : g # f => buf'[g] = buf[g]
    BY <1>2 DEF IInv, TypeOK
  <2> QED
    BY <2>1, <2>2, <2>3
<1>4. previous = None
  BY <1>1 DEF IInv, PreviousPending
<1>5. jobs' \in Seq(Job) /\ Exclusive(jobs') /\ \A x \in Elems(jobs') : Means(x)'
  <2>1. CASE buf[f] = <<>>
    <3>1. jobs' = BPending_Set(jobs, n) /\ n \in Job
      BY <2>1, JobTypes, Zenon DEF Write
    <3>2. jobs' \in Seq(Job) /\ Exclusive(jobs') /\ Elems(jobs') = {n}
      BY <3>1, <1>1, PushJob, ZenonT(30)
    <3>3. f \notin queued /\ f # sending
      BY <2>1 DEF IInv, Holders
    <3>4. Means(n)'
      BY <3>3, <1>3 DEF Means, NeedsServer, Write, queueVars, IsOut, IsOf, IsSchedule, OutJobs
    <3> QED
      BY <3>2, <3>4
  <2>2. CASE buf[f] # <<>>
    BY <2>2, <1>1 DEF Write
  <2> QED
    BY <2>1, <2>2
<1>6. Holders' /\ SendingIsEarliest' /\ PreviousPending'
  BY <1>3, <1>4, Zenon DEF IInv, TypeOK, Holders, SendingIsEarliest, PreviousPending, Write, queueVars, outVars
<1> QED
  BY <1>2, <1>5, <1>6, Zenon DEF IInv, TypeOK, JobsMean, Exclusive, Compatible, Write, queueVars, outVars

-----------------------------------------------------------------------------
(* The jobs of the send path itself.                                       *)

\* A job of the send path gives way to another one, or to none: js are the
\* jobs without it.
LEMMA OutStep ==
  ASSUME IInv, NEW js \in Seq(Job), NEW n \in Job, Exclusive(js), IsOut(n),
         \A x \in Elems(js) : ~IsOut(x) /\ x \in Elems(jobs),
         J("schedule") \in Elems(jobs) => J("schedule") \in Elems(js),
         \/ jobs' = js
         \/ jobs' = BPending_Set(js, n) /\ ~blocked' /\ sending # None
            /\ (n[1] = "connDone" => ~inLen') /\ (NeedsServer(n) => have'),
         UNCHANGED <<buf, queueVars>>,
         inLen' \/ blocked' => sending # None, blocked' => have'
  PROVE  /\ jobs' \in Seq(Job) /\ Exclusive(jobs')
         /\ JobsMean' /\ Holders' /\ PreviousPending' /\ SendingIsEarliest'
<1>1. \A x \in Elems(js) : Compatible(x, n)
  BY Zenon DEF Compatible, IsOut, IsOf, IsSchedule, OutJobs
<1>2. \A x \in Elems(js) : Means(x)'
  BY Zenon DEF IInv, JobsMean, Means, NeedsServer, IsOut, OutJobs, queueVars
<1>3. jobs' \in Seq(Job) /\ Exclusive(jobs') /\ Elems(js) \subseteq Elems(jobs') /\ JobsMean'
  <2>1. CASE jobs' = js
    BY <2>1, <1>2 DEF JobsMean
  <2>2. CASE jobs' = BPending_Set(js, n) /\ ~blocked' /\ sending # None
            /\ (n[1] = "connDone" => ~inLen') /\ (NeedsServer(n) => have')
    <3>1. jobs' \in Seq(Job) /\ Exclusive(jobs') /\ Elems(jobs') = Elems(js) \union {n}
      BY <2>2, <1>1, PushJob, Zenon
    <3>2. Means(n)'
      BY <2>2, Zenon DEF Means, NeedsServer, IsOut, IsOf, IsSchedule, OutJobs, queueVars
    <3> QED
      BY <3>1, <3>2, <1>2 DEF JobsMean
  <2> QED
    BY <2>1, <2>2
<1>4. PreviousPending'
  BY <1>3 DEF IInv, PreviousPending, queueVars
<1>5. Holders'
  BY Zenon DEF IInv, Holders, queueVars
<1>6. SendingIsEarliest'
  BY DEF IInv, SendingIsEarliest, queueVars
<1> QED
  BY <1>3, <1>4, <1>5, <1>6

\* What the reactor leaves when it takes a job of the send path.
LEMMA PopOut ==
  ASSUME IInv, NEW h, BPendingGroup_ExecuteJob(jobs, h), IsOut(h)
  PROVE  /\ Tail(jobs) \in Seq(Job) /\ Exclusive(Tail(jobs))
         /\ \A x \in Elems(Tail(jobs)) : ~IsOut(x) /\ x \in Elems(jobs)
         /\ J("schedule") \in Elems(jobs) => J("schedule") \in Elems(Tail(jobs))
         /\ sending # None /\ ~blocked /\ (NeedsServer(h) => have) /\ h \in Job
<1>1. /\ Tail(jobs) \in Seq(Job) /\ h \in Job /\ Elems(jobs) = Elems(Tail(jobs)) \union {h}
      /\ Exclusive(Tail(jobs)) /\ \A x \in Elems(Tail(jobs)) : Compatible(x, h)
  BY PopJob, Zenon DEF IInv, TypeOK
<1>2. \A x \in Elems(Tail(jobs)) : ~IsOut(x) /\ x \in Elems(jobs)
  BY <1>1 DEF Compatible
<1>3. J("schedule") # h
  BY DEF J, IsOut, OutJobs
<1>4. sending # None /\ ~blocked /\ (NeedsServer(h) => have)
  BY <1>1, Zenon DEF IInv, JobsMean, Means, NeedsServer
<1> QED
  BY <1>1, <1>2, <1>3, <1>4

\* Between two events there is no job to leave.
LEMMA NoOut ==
  ASSUME IInv, jobs = <<>>
  PROVE  /\ jobs \in Seq(Job) /\ Exclusive(jobs)
         /\ \A x \in Elems(jobs) : ~IsOut(x) /\ x \in Elems(jobs)
BY DEF IInv, TypeOK, Elems

LEMMA ConnectorInputSendInv ==
  ASSUME IInv, ConnectorInputSend PROVE IInv'
<1>1. BPendingGroup_ExecuteJob(jobs, J("connOp")) /\ IsOut(J("connOp"))
  BY DEF ConnectorInputSend, IsOut, OutJobs, J
<1>2. J("sendOp") \in Job /\ IsOut(J("sendOp")) /\ J("sendOp")[1] # "connDone"
  BY JobTypes DEF IsOut, OutJobs, J
<1>3. sending # None /\ ~blocked
  BY <1>1, PopOut
<1>4. jobs' = Tail(jobs) \/ (jobs' = BPending_Set(Tail(jobs), J("sendOp")) /\ have')
  BY DEF ConnectorInputSend
<1>5. UNCHANGED <<buf, queueVars>> /\ ~blocked'
  BY <1>3 DEF ConnectorInputSend
<1>6. /\ jobs' \in Seq(Job) /\ Exclusive(jobs')
      /\ JobsMean' /\ Holders' /\ PreviousPending' /\ SendingIsEarliest'
  BY <1>1, <1>2, <1>3, <1>4, <1>5, PopOut, OutStep, Zenon
<1> QED
  BY <1>6, Zenon DEF IInv, TypeOK, ConnectorInputSend, queueVars, Exclusive, Compatible

LEMMA ConnectorOutputDoneInv ==
  ASSUME IInv, ConnectorOutputDone PROVE IInv'
<1>1. BPendingGroup_ExecuteJob(jobs, J("sendDone")) /\ IsOut(J("sendDone"))
  BY DEF ConnectorOutputDone, IsOut, OutJobs, J
<1>2. J("connDone") \in Job /\ IsOut(J("connDone"))
  BY JobTypes DEF IsOut, OutJobs, J
<1>3. sending # None /\ ~blocked
  BY <1>1, PopOut
<1>4. jobs' = BPending_Set(Tail(jobs), J("connDone")) /\ ~inLen' /\ ~NeedsServer(J("connDone"))
  BY DEF ConnectorOutputDone, NeedsServer, J
<1>5. UNCHANGED <<buf, queueVars>> /\ ~blocked'
  BY <1>3 DEF ConnectorOutputDone
<1>6. /\ jobs' \in Seq(Job) /\ Exclusive(jobs')
      /\ JobsMean' /\ Holders' /\ PreviousPending' /\ SendingIsEarliest'
  BY <1>1, <1>2, <1>3, <1>4, <1>5, PopOut, OutStep, Zenon
<1> QED
  BY <1>6, Zenon DEF IInv, TypeOK, ConnectorOutputDone, queueVars, Exclusive, Compatible

LEMMA SenderInputSendInv ==
  ASSUME IInv, SenderInputSend PROVE IInv'
<1>1. BPendingGroup_ExecuteJob(jobs, J("sendOp")) /\ IsOut(J("sendOp"))
  BY DEF SenderInputSend, IsOut, OutJobs, J
<1>2. J("streamOp") \in Job /\ IsOut(J("streamOp")) /\ J("streamOp")[1] # "connDone"
  BY JobTypes DEF IsOut, OutJobs, J
<1>3. sending # None /\ ~blocked /\ have
  BY <1>1, PopOut DEF NeedsServer, J
<1>4. jobs' = BPending_Set(Tail(jobs), J("streamOp"))
  BY DEF SenderInputSend
<1>5. UNCHANGED <<buf, queueVars>> /\ ~blocked' /\ have'
  BY <1>3 DEF SenderInputSend
<1>6. /\ jobs' \in Seq(Job) /\ Exclusive(jobs')
      /\ JobsMean' /\ Holders' /\ PreviousPending' /\ SendingIsEarliest'
  BY <1>1, <1>2, <1>3, <1>4, <1>5, PopOut, OutStep, Zenon
<1> QED
  BY <1>6, Zenon DEF IInv, TypeOK, SenderInputSend, queueVars, Exclusive, Compatible

LEMMA SenderOutputDoneInv ==
  ASSUME IInv, NEW n \in Nat \ {0}, SenderOutputDone(n) PROVE IInv'
<1> DEFINE h == <<"streamDone", n>>
<1>1. BPendingGroup_ExecuteJob(jobs, h) /\ IsOut(h)
  BY DEF SenderOutputDone, IsOut
<1>2. PICK x \in {J("streamOp"), J("sendDone")} : jobs' = BPending_Set(Tail(jobs), x)
  BY DEF SenderOutputDone
<1>3. x \in Job /\ IsOut(x) /\ x[1] # "connDone"
  BY JobTypes DEF IsOut, OutJobs, J
<1>4. sending # None /\ ~blocked /\ have
  BY <1>1, PopOut DEF NeedsServer
<1>5. UNCHANGED <<buf, queueVars>> /\ ~blocked' /\ have'
  BY <1>4 DEF SenderOutputDone
<1>6. /\ jobs' \in Seq(Job) /\ Exclusive(jobs')
      /\ JobsMean' /\ Holders' /\ PreviousPending' /\ SendingIsEarliest'
  BY <1>1, <1>2, <1>3, <1>4, <1>5, PopOut, OutStep, Zenon
<1>7. used' \in Nat
  BY DEF IInv, TypeOK, SenderOutputDone
<1>8. UNCHANGED <<time, queued, sending, previous, buf, inLen, have, blocked, losses, stream, ahead>>
  BY DEF SenderOutputDone, queueVars
<1>9. TypeOK'
  BY <1>6, <1>7, <1>8, Zenon DEF IInv, TypeOK
<1> QED
  BY <1>6, <1>9, Zenon DEF IInv, Exclusive, Compatible

\* What the server has after connection_send.
LEMMA SocketTakesType ==
  ASSUME IInv, NEW js, NEW n \in Nat \ {0}, SocketTakes(js, n), sending \in Flows
  PROVE  /\ stream' \in [flow : Flows \union {None}, got : Nat] /\ ahead' \in [Flows -> Int]
         /\ blocked' = FALSE /\ have' = have /\ losses' = losses
         /\ jobs' = BPending_Set(js, <<"streamDone", n>>)
<1>1. ahead \in [Flows -> Int] /\ ahead[sending] + 1 \in Int
  BY SMTT(30) DEF IInv, TypeOK
<1>2. ahead' \in [Flows -> Int]
  BY <1>1 DEF SocketTakes
<1>3. stream.got + n \in Nat
  BY SMTT(30) DEF IInv, TypeOK
<1>4. stream' \in [flow : Flows \union {None}, got : Nat]
  BY <1>3 DEF SocketTakes, Whole
<1> QED
  BY <1>2, <1>4 DEF SocketTakes

LEMMA StreamSendInv ==
  ASSUME IInv, StreamSend PROVE IInv'
<1>1. BPendingGroup_ExecuteJob(jobs, J("streamOp")) /\ IsOut(J("streamOp"))
  BY DEF StreamSend, IsOut, OutJobs, J
<1>2. sending \in Flows /\ sending # None /\ ~blocked /\ have
  BY <1>1, PopOut DEF IInv, TypeOK, NeedsServer, J
<1>3. UNCHANGED <<buf, queueVars, inLen, used>>
  BY DEF StreamSend
<1>4. CASE \E n \in 1..(PacketLen - used) : SocketTakes(Tail(jobs), n)
  <2>1. PICK n \in Nat \ {0} : SocketTakes(Tail(jobs), n)
    BY <1>2, <1>4, PacketOnItsWay DEF IInv, TypeOK
  <2>2. <<"streamDone", n>> \in Job /\ IsOut(<<"streamDone", n>>) /\ <<"streamDone", n>>[1] # "connDone"
    BY JobTypes DEF IsOut, Job
  <2>3. /\ jobs' \in Seq(Job) /\ Exclusive(jobs')
        /\ JobsMean' /\ Holders' /\ PreviousPending' /\ SendingIsEarliest'
    BY <1>1, <1>2, <1>3, <2>1, <2>2, SocketTakesType, PopOut, OutStep, Zenon
  <2>4. TypeOK'
    <3>1. /\ stream' \in [flow : Flows \union {None}, got : Nat] /\ ahead' \in [Flows -> Int]
          /\ blocked' = FALSE /\ have' = have /\ losses' = losses
      BY <2>1, <1>2, SocketTakesType, Zenon
    <3> QED
      BY <3>1, <2>3, <1>3, Zenon DEF IInv, TypeOK, queueVars
  <2> QED
    BY <2>3, <2>4, Zenon DEF IInv, Exclusive, Compatible
<1>5. CASE jobs' = Tail(jobs) /\ (blocked' => have') /\ UNCHANGED <<stream, ahead>>
           /\ have' \in BOOLEAN /\ blocked' \in BOOLEAN /\ losses' \in Nat
  <2>1. /\ jobs' \in Seq(Job) /\ Exclusive(jobs')
        /\ JobsMean' /\ Holders' /\ PreviousPending' /\ SendingIsEarliest'
    BY <1>1, <1>2, <1>3, <1>5, PopOut, OutStep, Zenon
  <2> QED
    BY <2>1, <1>3, <1>5, Zenon DEF IInv, TypeOK, queueVars, Exclusive, Compatible
<1>6. CASE DisconnectServer(Tail(jobs)) \/ (jobs' = Tail(jobs) /\ blocked' = TRUE /\ UNCHANGED <<have, losses, stream, ahead>>)
  <2>1. have' \in BOOLEAN /\ blocked' \in BOOLEAN /\ losses' \in Nat
    <3>1. losses' = losses \/ losses' = losses + 1
      BY <1>6 DEF DisconnectServer
    <3>2. losses' \in Nat
      BY <3>1, SMTT(30) DEF IInv, TypeOK
    <3>3. have' \in BOOLEAN
      BY <1>6, Zenon DEF IInv, TypeOK, DisconnectServer
    <3>4. blocked' \in BOOLEAN
      BY <1>6, Zenon DEF DisconnectServer
    <3> QED
      BY <3>2, <3>3, <3>4
  <2>2. jobs' = Tail(jobs) /\ (blocked' => have') /\ UNCHANGED <<stream, ahead>>
    BY <1>2, <1>6, Zenon DEF DisconnectServer
  <2> QED
    BY <2>1, <2>2, <1>5
<1> QED
  BY <1>4, <1>6, Zenon DEF StreamSend

LEMMA WritableInv ==
  ASSUME IInv, Writable PROVE IInv'
<1>1. sending \in Flows /\ sending # None /\ have
  BY Zenon DEF IInv, TypeOK, Holders, Writable
<1>2. PICK n \in Nat \ {0} : SocketTakes(jobs, n)
  BY <1>1, PacketOnItsWay DEF IInv, TypeOK, Writable
<1>3. <<"streamDone", n>> \in Job /\ IsOut(<<"streamDone", n>>) /\ <<"streamDone", n>>[1] # "connDone"
  BY DEF IsOut, Job
<1>4. UNCHANGED <<buf, queueVars, inLen, used>> /\ jobs = <<>>
  BY DEF Writable
<1>5. /\ stream' \in [flow : Flows \union {None}, got : Nat] /\ ahead' \in [Flows -> Int]
      /\ blocked' = FALSE /\ have' = have /\ losses' = losses
      /\ jobs' = BPending_Set(jobs, <<"streamDone", n>>)
  BY <1>1, <1>2, SocketTakesType, Zenon
<1>6. /\ jobs' \in Seq(Job) /\ Exclusive(jobs')
      /\ JobsMean' /\ Holders' /\ PreviousPending' /\ SendingIsEarliest'
  BY <1>1, <1>3, <1>4, <1>5, NoOut, OutStep, Zenon
<1>7. TypeOK'
  BY <1>4, <1>5, <1>6, ZenonT(30) DEF IInv, TypeOK, queueVars
<1> QED
  BY <1>6, <1>7 DEF IInv, Exclusive, Compatible

LEMMA ServerLostInv ==
  ASSUME IInv, ServerLost PROVE IInv'
<1>1. UNCHANGED <<buf, queueVars, inLen, used, stream, ahead, jobs>> /\ jobs = <<>>
  BY DEF ServerLost, DisconnectServer
<1>2. have' = FALSE /\ blocked' = FALSE /\ losses' \in Nat
  BY DEF IInv, TypeOK, ServerLost, DisconnectServer
<1>3. inLen' => sending # None
  BY <1>1 DEF IInv, Holders
<1>4. J("sendOp") \in Job /\ IsOut(J("sendOp"))
  BY JobTypes DEF IsOut, OutJobs, J
<1>5. /\ jobs' \in Seq(Job) /\ Exclusive(jobs')
      /\ JobsMean' /\ Holders' /\ PreviousPending' /\ SendingIsEarliest'
  BY <1>1, <1>2, <1>3, <1>4, NoOut, OutStep, Zenon
<1>6. TypeOK'
  BY <1>1, <1>2, <1>5, Zenon DEF IInv, TypeOK, queueVars
<1> QED
  BY <1>5, <1>6, Zenon DEF IInv, Exclusive, Compatible

LEMMA ConnectServerInv ==
  ASSUME IInv, ConnectServer PROVE IInv'
<1>1. UNCHANGED <<buf, queueVars, inLen, used, blocked, losses, ahead>> /\ jobs = <<>>
  BY DEF ConnectServer
<1>2. have' = TRUE /\ stream' = Whole
  BY DEF ConnectServer
<1>3. ~blocked /\ (inLen => sending # None)
  BY DEF IInv, Holders, ConnectServer
<1>4. J("sendOp") \in Job /\ IsOut(J("sendOp")) /\ J("sendOp")[1] # "connDone"
  BY JobTypes DEF IsOut, OutJobs, J
<1>5. jobs' = jobs \/ (jobs' = BPending_Set(jobs, J("sendOp")) /\ inLen)
  BY DEF ConnectServer
<1>6. /\ jobs' \in Seq(Job) /\ Exclusive(jobs')
      /\ JobsMean' /\ Holders' /\ PreviousPending' /\ SendingIsEarliest'
  BY <1>1, <1>2, <1>3, <1>4, <1>5, NoOut, OutStep, Zenon
<1>7. TypeOK'
  BY <1>1, <1>2, <1>6, Zenon DEF IInv, TypeOK, queueVars, Whole
<1> QED
  BY <1>6, <1>7, Zenon DEF IInv, Exclusive, Compatible

-----------------------------------------------------------------------------
(* The theorems.                                                           *)

LEMMA NextInv ==
  ASSUME IInv, [Next]_vars PROVE IInv'
<1>1. CASE UNCHANGED vars
  <2>1. IsOut(J("connOp"))' = IsOut(J("connOp"))
    BY DEF IsOut, J
  <2> QED
    BY <1>1, ZenonT(30) DEF IInv, TypeOK, Exclusive, Compatible, JobsMean, Means, Elems, Holders, PreviousPending,
        SendingIsEarliest, vars, queueVars, outVars
<1>2. CASE Jobs
  <2>1. ASSUME NEW len \in Lens, NEW n \in 1..len, SenderOutputDone(n) PROVE IInv'
    BY <2>1, SenderOutputDoneInv
  <2> QED
    BY <1>2, <2>1, ScheduleJobInv, QueueOutputDoneInv, ConnectorInputSendInv, ConnectorOutputDoneInv,
       SenderInputSendInv, StreamSendInv, QueueInputSendInv, BufferOutputDoneInv DEF Jobs
<1> QED
  BY <1>1, <1>2, WritableInv, ServerLostInv, ConnectServerInv, WriteInv DEF Next

\* The invariant of the proof holds in every state of the send path.
LEMMA InvHolds == Spec => []IInv
BY InitInv, NextInv, PTL DEF Spec

\* PacketPassFairQueue never overtakes: in every reachable state, whatever the
\* number of flows, the packet lengths and the width of the times, no waiting
\* flow has an earlier time than the flow whose packet is being sent.
THEOREM SendingIsEarliestHolds == Spec => []SendingIsEarliest
<1>1. IInv => SendingIsEarliest
  BY DEF IInv
<1> QED
  BY <1>1, InvHolds, PTL

\* Only output_handler_done of the queue takes the turn away from a flow.
LEMMA TurnEnds ==
  ASSUME IInv, [Next]_vars, sending # None, sending' = None PROVE QueueOutputDone
<1>1. \A js, t, q : q \subseteq Flows /\ Schedule(js, t, q) => sending' \in Flows
  BY DEF Schedule, Earliest
<1>2. queued \subseteq Flows /\ None \notin Flows
  BY DEF IInv, TypeOK
<1>3. ~ScheduleJob
  <2> SUFFICES ASSUME ScheduleJob PROVE FALSE
    OBVIOUS
  <2>1. CASE queued # {} /\ Schedule(Tail(jobs), time, queued)
    BY <2>1, <1>1, <1>2
  <2>2. CASE UNCHANGED sending
    BY <2>2
  <2> QED
    BY <2>1, <2>2 DEF ScheduleJob
<1>4. ASSUME NEW f \in Flows, QueueInputSend(f) PROVE FALSE
  <2>1. queued \union {f} \subseteq Flows
    BY <1>2
  <2>2. Schedule(Tail(jobs), time', queued \union {f}) \/ UNCHANGED sending
    BY <1>4 DEF QueueInputSend
  <2> QED
    BY <2>1, <2>2, <1>1, <1>2
<1>5. CASE Jobs
  <2>1. ~ConnectorInputSend /\ ~ConnectorOutputDone /\ ~SenderInputSend /\ ~StreamSend
    BY Zenon DEF ConnectorInputSend, ConnectorOutputDone, SenderInputSend, StreamSend, queueVars
  <2>2. \A f \in Flows : ~BufferOutputDone(f)
    BY Zenon DEF BufferOutputDone, queueVars
  <2>3. \A n : ~SenderOutputDone(n)
    BY DEF SenderOutputDone, queueVars
  <2> QED
    BY <1>3, <1>4, <1>5, <2>1, <2>2, <2>3, SMTT(30) DEF Jobs
<1>6. ~Writable /\ ~ServerLost /\ ~ConnectServer /\ ~UNCHANGED vars
  BY Zenon DEF Writable, ServerLost, ConnectServer, queueVars, vars
<1>7. \A f, len : ~Write(f, len)
  BY DEF Write, queueVars
<1> QED
  BY <1>5, <1>6, <1>7 DEF Next

\* increment_sent_flow is exact: for every width of the times the lead of the
\* flow that sent grows by the weight of its packet over every flow that waits.
THEOREM LeadGrowsByPacketHolds == Spec => LeadGrowsByPacket
<1> DEFINE A == (sending # None /\ sending' = None) =>
                   \A f \in queued :
                      time'[sending] + time[f] = time[sending] + PacketWeight + PacketLen + time'[f]
<1>1. ASSUME IInv, [Next]_vars PROVE [A]_vars
  <2> SUFFICES ASSUME sending # None, sending' = None, NEW f \in queued
               PROVE  time'[sending] + time[f] = time[sending] + PacketWeight + PacketLen + time'[f]
    OBVIOUS
  <2>1. QueueOutputDone
    BY <1>1, TurnEnds
  <2>2. /\ sending \in Flows /\ sending \notin queued /\ PacketLen \in Nat
        /\ PacketWeight + PacketLen \in 0..MaxTime
    BY <1>1, PacketOnItsWay, Zenon DEF IInv, Holders
  <2>3. time' = IncrementSentFlow(sending, PacketWeight + PacketLen)
    BY <2>1 DEF QueueOutputDone, PacketLen
  <2>4. time'[sending] + time[f] = (time[sending] + (PacketWeight + PacketLen)) + time'[f]
    BY <2>2, <2>3, <1>1, IncrementExact DEF IInv, SendingIsEarliest
  <2>5. time[sending] \in Nat /\ PacketWeight \in Nat
    BY <2>2, <1>1 DEF IInv, TypeOK
  <2>6. \A a, b, c \in Nat : a + (b + c) = a + b + c
    OBVIOUS
  <2> QED
    BY <2>2, <2>4, <2>5, <2>6
<1>2. Spec => [][A]_vars
  BY <1>1, InvHolds, PTL DEF Spec
<1> QED
  BY <1>2 DEF LeadGrowsByPacket

\* The state of the queue, the connector and the sender keeps its type: no time
\* of a flow leaves its width, whatever is added to it.
THEOREM TypeCorrect == Spec => []TypeOK
<1>1. IInv => TypeOK
  BY DEF IInv
<1> QED
  BY <1>1, InvHolds, PTL

-----------------------------------------------------------------------------
(* What the server has.                                                    *)

\* The part of the packet on its way that the server has after k bytes.
Sent(k) == IF k = 0 \/ k = PacketLen THEN Whole ELSE [flow |-> sending, got |-> k]

\* What a job between the sender and the connection says about the stream.
OnItsWay(j) ==
  /\ j[1] = "streamOp" => used < PacketLen /\ stream = Sent(used)
  /\ j[1] = "streamDone" => used + j[2] <= PacketLen /\ stream = Sent(used + j[2])

OfStream(j) == j[1] \in {"streamOp", "streamDone"}

StreamInv ==
  /\ \A j \in Elems(jobs) : OnItsWay(j)
  /\ blocked => used < PacketLen /\ stream = Sent(used)
  /\ have /\ ~blocked /\ (\A j \in Elems(jobs) : ~OfStream(j)) => stream = Whole

\* The job of the send path that reports a packet the server has.
Reports(j) ==
  \/ j[1] \in {"sendDone", "connDone"}
  \/ j[1] = "streamDone" /\ used + j[2] = PacketLen

Credit(j, f) == j = <<"done", f>> \/ (f = sending /\ Reports(j))

\* A packet that the server has is in its buffer only while the report of it
\* is under way.
AheadInv == \A f \in Flows : ahead[f] = IF \E j \in Elems(jobs) : Credit(j, f) THEN 1 ELSE 0

\* The jobs H of the send path, among the jobs R, tell of the sending flow.
LEMMA PathAhead ==
  ASSUME IInv, AheadInv, NEW R, NEW H, Elems(jobs) = R \union H, sending # None,
         \A x \in R : ~IsOut(x), \A x \in H : IsOut(x)
  PROVE  ahead[sending] = IF \E x \in H : Reports(x) THEN 1 ELSE 0
<1>1. sending \in Flows
  BY DEF IInv, TypeOK
<1>2. \A x \in Elems(jobs) : x # <<"done", sending>>
  BY <1>1 DEF IInv, JobsMean, Means, IsOf
<1>3. \A x \in R : ~Reports(x)
  BY DEF Reports, IsOut, OutJobs
<1>4. (\E j \in Elems(jobs) : Credit(j, sending)) <=> (\E x \in H : Reports(x))
  BY <1>2, <1>3, SMTT(30) DEF Credit
<1> QED
  BY <1>1, <1>4 DEF AheadInv

\* A step of the send path replaces its jobs H by N.
LEMMA PathStep ==
  ASSUME IInv, AheadInv, NEW R, NEW H, NEW N, Elems(jobs) = R \union H, Elems(jobs)' = R \union N,
         sending # None, sending' = sending,
         \A x \in R : ~IsOut(x), \A x \in H \union N : IsOut(x),
         \A f \in Flows : f # sending => ahead'[f] = ahead[f],
         ahead'[sending] = IF \E x \in N : Reports(x)' THEN 1 ELSE 0
  PROVE  AheadInv'
<1>1. \A x \in H \union N : \A f : x # <<"done", f>>
  BY DEF IsOut, OutJobs
<1>2. \A x \in R : ~Reports(x) /\ ~Reports(x)'
  BY DEF Reports, IsOut, OutJobs
<1>3. ASSUME NEW f \in Flows
      PROVE  ahead'[f] = IF \E j \in Elems(jobs)' : Credit(j, f)' THEN 1 ELSE 0
  <2>1. CASE f = sending
    <3>1. \A x \in R : x # <<"done", f>>
      BY <2>1, SMTT(30) DEF IInv, JobsMean, Means, IsOf
    <3>2. (\E j \in Elems(jobs)' : Credit(j, f)') <=> (\E x \in N : Reports(x)')
      BY <1>1, <1>2, <2>1, <3>1, Zenon DEF Credit
    <3> QED
      BY <2>1, <3>2, Zenon
  <2>2. CASE f # sending
    <3>1. (\E j \in Elems(jobs) : Credit(j, f)) <=> <<"done", f>> \in R
      BY <1>1, <2>2, Zenon DEF Credit
    <3>2. (\E j \in Elems(jobs)' : Credit(j, f)') <=> <<"done", f>> \in R
      BY <1>1, <2>2, Zenon DEF Credit
    <3> QED
      BY <2>2, <3>1, <3>2, Zenon DEF AheadInv
  <2> QED
    BY <2>1, <2>2, Zenon
<1> QED
  BY <1>3, Zenon DEF AheadInv

\* A step of the queue, which has no part in the stream: each job that goes or
\* comes credits no flow, and the packet on its way stays.
LEMMA QuietStep ==
  ASSUME StreamInv, AheadInv, UNCHANGED <<have, used, blocked, stream, ahead>>, NEW R,
         R \subseteq Elems(jobs), R \subseteq Elems(jobs)',
         \A x \in Elems(jobs) \ R : ~OfStream(x) /\ \A f \in Flows : ~Credit(x, f),
         \A x \in Elems(jobs)' \ R : ~OfStream(x) /\ \A f \in Flows : ~Credit(x, f)',
         \/ sending' = sending /\ PacketLen' = PacketLen
         \/ ~blocked /\ \A x \in R : ~IsOut(x)
  PROVE  StreamInv' /\ AheadInv'
<1>1. \A x \in R : OnItsWay(x)'
  <2>1. CASE sending' = sending /\ PacketLen' = PacketLen
    BY <2>1, Zenon DEF StreamInv, OnItsWay, Sent, Whole
  <2>2. CASE \A x \in R : ~IsOut(x)
    BY <2>2, Zenon DEF OnItsWay, IsOut, OutJobs
  <2> QED
    BY <2>1, <2>2, Zenon
<1>2. \A x \in Elems(jobs)' : OnItsWay(x)'
  BY <1>1, Zenon DEF OnItsWay, OfStream
<1>3. blocked' => used' < PacketLen' /\ stream' = Sent(used)'
  BY Zenon DEF StreamInv, Sent, Whole
<1>4. (\A j \in Elems(jobs)' : ~OfStream(j)') => \A j \in Elems(jobs) : ~OfStream(j)
  BY Zenon DEF OfStream
<1>5. StreamInv'
  BY <1>2, <1>3, <1>4, Zenon DEF StreamInv, Whole
<1>6. \A x \in R, f \in Flows : Credit(x, f)' <=> Credit(x, f)
  <2>1. CASE sending' = sending /\ PacketLen' = PacketLen
    BY <2>1, Zenon DEF Credit, Reports
  <2>2. CASE \A x \in R : ~IsOut(x)
    BY <2>2, Zenon DEF Credit, Reports, IsOut, OutJobs
  <2> QED
    BY <2>1, <2>2, Zenon
<1>7. \A f \in Flows : (\E j \in Elems(jobs) : Credit(j, f)) <=> (\E j \in Elems(jobs)' : Credit(j, f)')
  BY <1>6, Zenon
<1> QED
  BY <1>5, <1>7, Zenon DEF AheadInv

\* The jobs after one more is set, and before one is executed.
LEMMA JobsAround ==
  ASSUME IInv
  PROVE  /\ \A h : BPendingGroup_ExecuteJob(jobs, h) => Tail(jobs) \in Seq(Job) /\ h \in Job
                     /\ Elems(jobs) = Elems(Tail(jobs)) \union {h}
                     /\ \A x \in Elems(Tail(jobs)) : Compatible(x, h)
         /\ \A js \in Seq(Job), j \in Job : jobs' = BPending_Set(js, j) => Elems(jobs)' = Elems(js) \union {j}
         /\ \A js : jobs' = js => Elems(jobs)' = Elems(js)
         /\ jobs = <<>> => Elems(jobs) = {}
<1>1. jobs \in Seq(Job) /\ Exclusive(jobs)
  BY Zenon DEF IInv, TypeOK
<1>2. \A h : BPendingGroup_ExecuteJob(jobs, h) => Tail(jobs) \in Seq(Job) /\ h \in Job
              /\ Elems(jobs) = Elems(Tail(jobs)) \union {h}
              /\ \A x \in Elems(Tail(jobs)) : Compatible(x, h)
  BY <1>1, PopJob, Zenon
<1>3. ASSUME NEW js, jobs' = js PROVE Elems(jobs)' = Elems(js)
  BY <1>3, Zenon DEF Elems
<1>4. ASSUME NEW js \in Seq(Job), NEW j \in Job, jobs' = BPending_Set(js, j)
      PROVE  Elems(jobs)' = Elems(js) \union {j}
  BY <1>4, <1>3, PushJob, Zenon
<1>5. jobs = <<>> => Elems(jobs) = {}
  BY DEF Elems
<1> QED
  BY <1>2, <1>3, <1>4, <1>5, Zenon

\* Jobs that credit nobody.
LEMMA NoCredit ==
  /\ \A f \in Flows : ~Credit(J("schedule"), f) /\ ~Credit(J("schedule"), f)'
  /\ \A f \in Flows : ~Credit(J("connOp"), f) /\ ~Credit(J("connOp"), f)'
  /\ \A f, g \in Flows : ~Credit(<<"op", g>>, f) /\ ~Credit(<<"op", g>>, f)'
  /\ ~OfStream(J("schedule")) /\ ~OfStream(J("connOp")) /\ \A g \in Flows : ~OfStream(<<"op", g>>)
BY Zenon DEF Credit, Reports, J, OfStream

LEMMA ScheduleQuiet ==
  ASSUME IInv, StreamInv, AheadInv, ScheduleJob PROVE StreamInv' /\ AheadInv'
<1> DEFINE R == Elems(Tail(jobs))
<1>1. Tail(jobs) \in Seq(Job) /\ Elems(jobs) = R \union {J("schedule")}
  BY JobsAround, Zenon DEF ScheduleJob
<1>2. sending = None /\ ~blocked /\ \A x \in R : ~IsOut(x)
  <2>1. IsSchedule(J("schedule")) /\ J("schedule") \in Elems(jobs)
    BY <1>1 DEF IsSchedule, J
  <2>2. sending = None
    BY <2>1, Zenon DEF IInv, JobsMean, Means
  <2>3. \A x \in R : ~IsOut(x)
    BY <1>1, <2>2, Zenon DEF IInv, JobsMean, Means
  <2> QED
    BY <2>2, <2>3, Zenon DEF IInv, Holders
<1>3. jobs' = Tail(jobs) \/ jobs' = BPending_Set(Tail(jobs), J("connOp"))
  BY Zenon DEF ScheduleJob, Schedule
<1>4. J("connOp") \in Job
  BY JobTypes DEF OutJobs
<1>5. Elems(jobs)' = R \/ Elems(jobs)' = R \union {J("connOp")}
  BY <1>1, <1>3, <1>4, JobsAround, Zenon
<1>6. UNCHANGED <<have, used, blocked, stream, ahead>>
  BY DEF ScheduleJob, outVars
<1> HIDE DEF R
<1> QED
  <2>1. R \subseteq Elems(jobs) /\ R \subseteq Elems(jobs)'
    BY <1>1, <1>5, Zenon
  <2>2. \A x \in Elems(jobs) \ R : ~OfStream(x) /\ \A f \in Flows : ~Credit(x, f)
    BY <1>1, NoCredit, Zenon
  <2>3. \A x \in Elems(jobs)' \ R : ~OfStream(x) /\ \A f \in Flows : ~Credit(x, f)'
    BY <1>5, NoCredit
  <2> QED
    BY <1>2, <1>6, <2>1, <2>2, <2>3, QuietStep, Zenon

LEMMA QueueInputQuiet ==
  ASSUME IInv, StreamInv, AheadInv, NEW f \in Flows, QueueInputSend(f) PROVE StreamInv' /\ AheadInv'
<1> DEFINE R == Elems(Tail(jobs))
           h == <<"op", f>>
<1>1. Tail(jobs) \in Seq(Job) /\ Elems(jobs) = R \union {h}
  BY JobsAround, Zenon DEF QueueInputSend
<1>2. J("connOp") \in Job
  BY JobTypes DEF OutJobs
<1>3. UNCHANGED <<have, used, blocked, stream, ahead, buf>>
  BY Zenon DEF QueueInputSend, outVars
<1>4. \/ sending = None /\ jobs' = BPending_Set(Tail(jobs), J("connOp"))
      \/ sending' = sending /\ jobs' = Tail(jobs)
  BY Zenon DEF QueueInputSend, Schedule
<1>5. Elems(jobs)' = R \/ Elems(jobs)' = R \union {J("connOp")}
  BY <1>1, <1>2, <1>4, JobsAround, ZenonT(30)
<1>6. sending = None => ~blocked /\ \A x \in R : ~IsOut(x)
  BY <1>1, Zenon DEF IInv, JobsMean, Means, Holders
<1>7. sending' = sending => PacketLen' = PacketLen
  BY <1>3 DEF PacketLen
<1>8. /\ \A x \in Elems(jobs) \ R : ~OfStream(x) /\ \A g \in Flows : ~Credit(x, g)
      /\ \A x \in Elems(jobs)' \ R : ~OfStream(x) /\ \A g \in Flows : ~Credit(x, g)'
  BY <1>1, <1>5, NoCredit
<1> HIDE DEF R
<1> QED
  BY <1>1, <1>3, <1>4, <1>5, <1>6, <1>7, <1>8, QuietStep, Zenon

\* The report passes from the connector to the buffer of the flow.
LEMMA QueueDoneStream ==
  ASSUME IInv, StreamInv, AheadInv, QueueOutputDone PROVE StreamInv' /\ AheadInv'
<1> DEFINE R == Elems(Tail(jobs))
           h == J("connDone")
           d == <<"done", sending>>
<1>1. /\ Tail(jobs) \in Seq(Job) /\ Elems(jobs) = R \union {h} /\ IsOut(h)
      /\ sending # None /\ ~blocked /\ sending \in Flows
      /\ \A x \in R : ~IsOut(x)
  <2>1. BPendingGroup_ExecuteJob(jobs, h) /\ IsOut(h)
    BY Zenon DEF QueueOutputDone, IsOut, OutJobs, J
  <2>2. Tail(jobs) \in Seq(Job) /\ Elems(jobs) = R \union {h}
    BY <2>1, JobsAround, Zenon
  <2>3. sending # None /\ ~blocked /\ \A x \in R : ~IsOut(x)
    BY <2>1, PopOut, Zenon
  <2> QED
    BY <2>1, <2>2, <2>3, Zenon DEF IInv, TypeOK
<1>2. Elems(jobs)' = R \union {J("schedule"), d}
  <2>1. J("schedule") \in Job /\ d \in Job
    BY <1>1, JobTypes, Zenon
  <2>2. /\ BPending_Set(Tail(jobs), J("schedule")) \in Seq(Job)
        /\ Elems(BPending_Set(Tail(jobs), J("schedule"))) = R \union {J("schedule")}
    BY <1>1, <2>1, PushJob, Zenon
  <2>3. jobs' = BPending_Set(BPending_Set(Tail(jobs), J("schedule")), d)
    BY Zenon DEF QueueOutputDone
  <2>4. Elems(jobs)' = Elems(BPending_Set(Tail(jobs), J("schedule"))) \union {d}
    BY <2>1, <2>2, <2>3, JobsAround, Zenon
  <2> QED
    BY <2>2, <2>4, Zenon
<1>3. UNCHANGED <<have, used, blocked, stream, ahead>> /\ sending' = None
  BY Zenon DEF QueueOutputDone, outVars
<1>4. \A x \in R : ~OfStream(x) /\ ~Reports(x) /\ ~Reports(x)'
  BY <1>1, Zenon DEF OfStream, Reports, IsOut, OutJobs
<1>5. ~OfStream(h) /\ Reports(h) /\ ~OfStream(d) /\ ~OfStream(J("schedule"))
  BY DEF OfStream, Reports, J
<1> HIDE DEF R
<1>6. StreamInv'
  <2>1. \A x \in Elems(jobs)' : ~OfStream(x)
    BY <1>2, <1>4, <1>5, SMTT(30)
  <2>2. \A x \in Elems(jobs) : ~OfStream(x)
    BY <1>1, <1>4, <1>5, Zenon
  <2>3. \A x \in Elems(jobs)' : OnItsWay(x)'
    BY <2>1, Zenon DEF OnItsWay, OfStream
  <2>4. have => stream = Whole
    BY <1>1, <2>2, Zenon DEF StreamInv
  <2> QED
    BY <1>1, <1>3, <2>3, <2>4, Zenon DEF StreamInv, Whole
<1>7. ASSUME NEW f \in Flows
      PROVE  (\E j \in Elems(jobs) : Credit(j, f)) <=> (\E j \in Elems(jobs)' : Credit(j, f)')
  <2>1. f # None
    BY Zenon
  <2>2. (\E j \in Elems(jobs)' : Credit(j, f)') <=> (f = sending \/ <<"done", f>> \in R)
    BY <1>2, <1>3, <2>1, SMTT(30) DEF Credit, J
  <2>3. (\E j \in Elems(jobs) : Credit(j, f)) <=> (f = sending \/ <<"done", f>> \in R)
    BY <1>1, <1>4, <1>5, SMTT(30) DEF Credit, J
  <2> QED
    BY <2>2, <2>3, Zenon
<1> QED
  BY <1>3, <1>6, <1>7, Zenon DEF AheadInv

\* A packet is consumed when its report arrives.
LEMMA BufferDoneStream ==
  ASSUME IInv, StreamInv, AheadInv, NEW f \in Flows, BufferOutputDone(f) PROVE StreamInv' /\ AheadInv'
<1> DEFINE R == Elems(Tail(jobs))
           h == <<"done", f>>
           n == <<"op", f>>
<1>1. /\ Tail(jobs) \in Seq(Job) /\ Elems(jobs) = R \union {h} /\ \A x \in R : Compatible(x, h)
  BY JobsAround, ZenonT(30) DEF BufferOutputDone
<1>2. f # sending /\ \A x \in R : x # h
  <2>1. IsOf(h, f)
    BY Zenon DEF IsOf
  <2> QED
    BY <1>1, <2>1, Zenon DEF IInv, JobsMean, Means, Compatible
<1>3. Elems(jobs)' = R \/ Elems(jobs)' = R \union {n}
  <2>1. jobs' = Tail(jobs) \/ jobs' = BPending_Set(Tail(jobs), n)
    BY Zenon DEF BufferOutputDone
  <2> QED
    BY <1>1, <2>1, JobTypes, JobsAround, Zenon
<1>4. UNCHANGED <<have, used, blocked, stream, sending>> /\ (sending # None => PacketLen' = PacketLen)
  <2>1. sending # None => buf'[sending] = buf[sending]
    BY <1>2, Zenon DEF BufferOutputDone, IInv, TypeOK
  <2> QED
    BY <2>1, Zenon DEF BufferOutputDone, queueVars, PacketLen
<1>5. \A x \in R : IsOut(x) => sending # None
  BY <1>1, Zenon DEF IInv, JobsMean, Means
<1> HIDE DEF R
<1>6. StreamInv'
  <2>1. \A x \in R : OnItsWay(x)'
    BY <1>1, <1>4, <1>5, Zenon DEF StreamInv, OnItsWay, Sent, Whole, IsOut, OutJobs
  <2>2. ~OfStream(h) /\ ~OfStream(n)
    BY Zenon DEF OfStream
  <2>3. \A x \in Elems(jobs)' : OnItsWay(x)'
    BY <1>3, <2>1, <2>2, Zenon DEF OnItsWay, OfStream
  <2>4. blocked => sending # None
    BY Zenon DEF IInv, Holders
  <2>5. blocked' => used' < PacketLen' /\ stream' = Sent(used)'
    BY <1>4, <2>4, Zenon DEF StreamInv, Sent, Whole
  <2>6. (\A j \in Elems(jobs)' : ~OfStream(j)') => \A j \in Elems(jobs) : ~OfStream(j)
    BY <1>1, <1>3, <2>2, Zenon DEF OfStream
  <2> QED
    BY <1>4, <2>3, <2>5, <2>6, Zenon DEF StreamInv, Whole
<1>7. ahead' = [ahead EXCEPT ![f] = ahead[f] - 1] /\ ahead \in [Flows -> Int]
  BY Zenon DEF BufferOutputDone, IInv, TypeOK
<1>8. \A g \in Flows : ~Credit(n, g)'
  BY NoCredit, Zenon
<1>9. \A x \in R, g \in Flows : Credit(x, g)' <=> Credit(x, g)
  BY <1>4, <1>5, Zenon DEF Credit, Reports, IsOut, OutJobs
<1>10. ahead[f] = 1 /\ \A x \in R : ~Credit(x, f)
  BY <1>1, <1>2, Zenon DEF AheadInv, Credit
<1>11. \A g \in Flows : g # f => ~Credit(h, g)
  BY Zenon DEF Credit, Reports
<1>12. ASSUME NEW g \in Flows
       PROVE  ahead'[g] = IF \E j \in Elems(jobs)' : Credit(j, g)' THEN 1 ELSE 0
  <2>1. (\E j \in Elems(jobs)' : Credit(j, g)') <=> (\E j \in R : Credit(j, g))
    BY <1>3, <1>8, <1>9, Zenon
  <2>2. CASE g = f
    BY <1>7, <1>10, <2>1, <2>2, SMTT(30)
  <2>3. CASE g # f
    <3>1. (\E j \in Elems(jobs) : Credit(j, g)) <=> (\E j \in R : Credit(j, g))
      BY <1>1, <1>11, <2>3, Zenon
    <3> QED
      BY <1>7, <2>1, <2>3, <3>1, Zenon DEF AheadInv
  <2> QED
    BY <2>2, <2>3, Zenon
<1> QED
  BY <1>6, <1>12, Zenon DEF AheadInv

LEMMA WriteQuiet ==
  ASSUME IInv, StreamInv, AheadInv, NEW f \in Flows, NEW len \in Lens, Write(f, len)
  PROVE  StreamInv' /\ AheadInv'
<1> DEFINE n == <<"op", f>>
<1>1. Elems(jobs) = {} /\ jobs \in Seq(Job)
  BY JobsAround, Zenon DEF Write, IInv, TypeOK
<1>2. Elems(jobs)' = {} \/ Elems(jobs)' = {n}
  <2>1. jobs' = jobs \/ jobs' = BPending_Set(jobs, n)
    BY DEF Write
  <2>2. Elems(jobs)' = Elems(jobs) \/ Elems(jobs)' = Elems(jobs) \union {n}
    BY <1>1, <2>1, JobTypes, JobsAround, Zenon
  <2> QED
    BY <1>1, <2>2
<1>3. UNCHANGED <<have, used, blocked, stream, ahead, sending>>
  BY Zenon DEF Write, queueVars, outVars
<1>4. sending # None => PacketLen' = PacketLen
  <2> SUFFICES ASSUME sending # None PROVE PacketLen' = PacketLen
    OBVIOUS
  <2>1. sending \in Flows /\ buf[sending] \in Seq(Lens) /\ buf[sending] # <<>>
    BY Zenon DEF IInv, TypeOK, Holders
  <2>2. buf'[sending] = buf[sending] \/ buf'[sending] = Append(buf[sending], len)
    BY <2>1, Zenon DEF Write, IInv, TypeOK
  <2>3. Head(Append(buf[sending], len)) = Head(buf[sending])
    BY <2>1
  <2> QED
    BY <1>3, <2>2, <2>3, Zenon DEF PacketLen
<1>5. blocked => sending # None
  BY Zenon DEF IInv, Holders
<1> QED
  <2> DEFINE R == {}
  <2>1. \A x \in Elems(jobs)' \ R : ~OfStream(x) /\ \A g \in Flows : ~Credit(x, g)'
    BY <1>2, NoCredit
  <2>2. \/ sending' = sending /\ PacketLen' = PacketLen
        \/ ~blocked /\ \A x \in R : ~IsOut(x)
    BY <1>3, <1>4, <1>5, Zenon
  <2>3. \A x \in Elems(jobs) \ R : ~OfStream(x) /\ \A g \in Flows : ~Credit(x, g)
    BY <1>1, Zenon
  <2>4. R \subseteq Elems(jobs) /\ R \subseteq Elems(jobs)'
    BY Zenon
  <2> HIDE DEF R
  <2> QED
    BY <1>3, <2>1, <2>2, <2>3, <2>4, QuietStep, Zenon

\* The connector and the sender hand the packet on; the job n replaces h.
LEMMA HandOver ==
  ASSUME IInv, StreamInv, AheadInv, NEW h, NEW n \in Job, BPendingGroup_ExecuteJob(jobs, h),
         IsOut(h), IsOut(n), jobs' = BPending_Set(Tail(jobs), n),
         UNCHANGED <<buf, sending, have, blocked>>, OnItsWay(n)',
         have /\ ~OfStream(n) => stream' = Whole,
         \A f \in Flows : f # sending => ahead'[f] = ahead[f],
         ahead'[sending] = IF Reports(n)' THEN 1 ELSE 0
  PROVE  StreamInv' /\ AheadInv'
<1> DEFINE R == Elems(Tail(jobs))
<1>1. /\ Tail(jobs) \in Seq(Job) /\ Elems(jobs) = R \union {h}
      /\ sending # None /\ ~blocked /\ \A x \in R : ~IsOut(x)
  BY JobsAround, PopOut, Zenon
<1>2. Elems(jobs)' = R \union {n}
  BY <1>1, JobsAround, ZenonT(30)
<1> HIDE DEF R
<1>3. \A x \in R : OnItsWay(x)' /\ ~OfStream(x)
  BY <1>1, Zenon DEF OnItsWay, OfStream, IsOut, OutJobs
<1>4. OfStream(n)' <=> OfStream(n)
  BY Zenon DEF OfStream
<1>5. StreamInv'
  BY <1>1, <1>2, <1>3, <1>4, ZenonT(30) DEF StreamInv, Whole
<1>6. /\ ahead'[sending] = IF \E x \in {n} : Reports(x)' THEN 1 ELSE 0
      /\ \A x \in {h} \union {n} : IsOut(x)
  BY Zenon
<1>7. AheadInv'
  BY <1>1, <1>2, <1>6, PathStep, Zenon
<1> QED
  BY <1>5, <1>7, Zenon

\* What the job of the send path that is executed says.
LEMMA OutFacts ==
  ASSUME IInv, StreamInv, AheadInv, NEW h, BPendingGroup_ExecuteJob(jobs, h), IsOut(h)
  PROVE  /\ OnItsWay(h) /\ ahead[sending] = IF Reports(h) THEN 1 ELSE 0
         /\ have /\ ~OfStream(h) => stream = Whole
         /\ PacketLen \in Nat \ {0} /\ sending \in Flows /\ sending # None
<1> DEFINE R == Elems(Tail(jobs))
<1>1. /\ Elems(jobs) = R \union {h} /\ sending # None /\ ~blocked /\ \A x \in R : ~IsOut(x)
  BY JobsAround, PopOut, Zenon
<1> HIDE DEF R
<1>2. (\E x \in {h} : Reports(x)) <=> Reports(h)
  OBVIOUS
<1>3. ahead[sending] = IF Reports(h) THEN 1 ELSE 0
  BY <1>1, <1>2, PathAhead, Zenon
<1>4. \A x \in R : ~OfStream(x)
  BY <1>1 DEF OfStream, IsOut, OutJobs
<1> QED
  BY <1>1, <1>3, <1>4, PacketOnItsWay, Zenon DEF StreamInv

LEMMA ConnectorInputStream ==
  ASSUME IInv, StreamInv, AheadInv, ConnectorInputSend PROVE StreamInv' /\ AheadInv'
<1> DEFINE h == J("connOp")
           n == J("sendOp")
           R == Elems(Tail(jobs))
<1>1. BPendingGroup_ExecuteJob(jobs, h) /\ IsOut(h) /\ n \in Job /\ ~OfStream(h) /\ ~OfStream(n)
  BY JobTypes, Zenon DEF ConnectorInputSend, IsOut, OutJobs, J, OfStream
<1>2. Tail(jobs) \in Seq(Job) /\ Elems(jobs) = R \union {h}
  BY <1>1, JobsAround, Zenon
<1>3. Elems(jobs)' = R \/ Elems(jobs)' = R \union {n}
  <2>1. jobs' = Tail(jobs) \/ jobs' = BPending_Set(Tail(jobs), n)
    BY DEF ConnectorInputSend
  <2> QED
    BY <1>1, <1>2, <2>1, JobsAround, Zenon
<1>4. \A f \in Flows : ~Credit(h, f) /\ ~Credit(n, f)'
  BY DEF Credit, Reports, J
<1>5. UNCHANGED <<have, used, blocked, stream, ahead, sending, buf>>
  BY DEF ConnectorInputSend, queueVars
<1>6. PacketLen' = PacketLen
  BY <1>5, SMTT(30) DEF PacketLen
<1> HIDE DEF R, h, n
<1> QED
  <2>1. R \subseteq Elems(jobs) /\ R \subseteq Elems(jobs)'
    BY <1>2, <1>3, Zenon
  <2>2. \A x \in Elems(jobs) \ R : ~OfStream(x) /\ \A f \in Flows : ~Credit(x, f)
    BY <1>1, <1>2, <1>4, Zenon
  <2>3. \A x \in Elems(jobs)' \ R : ~OfStream(x) /\ \A f \in Flows : ~Credit(x, f)'
    BY <1>1, <1>3, <1>4
  <2> QED
    BY <1>5, <1>6, <2>1, <2>2, <2>3, QuietStep, Zenon

LEMMA ConnectorDoneStream ==
  ASSUME IInv, StreamInv, AheadInv, ConnectorOutputDone PROVE StreamInv' /\ AheadInv'
<1> DEFINE h == J("sendDone")
           n == J("connDone")
<1>1. BPendingGroup_ExecuteJob(jobs, h) /\ IsOut(h) /\ IsOut(n) /\ n \in Job
  BY JobTypes, Zenon DEF ConnectorOutputDone, IsOut, OutJobs, J
<1>2. /\ UNCHANGED <<buf, sending, have, blocked, stream, ahead>>
      /\ jobs' = BPending_Set(Tail(jobs), n)
  BY Zenon DEF ConnectorOutputDone, queueVars
<1>3. OnItsWay(n)' /\ Reports(h) /\ Reports(n)' /\ ~OfStream(h)
  BY Zenon DEF OnItsWay, Reports, OfStream, J
<1> HIDE DEF h, n
<1>4. ahead[sending] = 1 /\ (have => stream = Whole)
  BY <1>1, <1>3, OutFacts, Zenon
<1> QED
  BY <1>1, <1>2, <1>3, <1>4, HandOver, Zenon

LEMMA SenderInputStream ==
  ASSUME IInv, StreamInv, AheadInv, SenderInputSend PROVE StreamInv' /\ AheadInv'
<1> DEFINE h == J("sendOp")
           n == J("streamOp")
<1>1. BPendingGroup_ExecuteJob(jobs, h) /\ IsOut(h) /\ IsOut(n) /\ n \in Job /\ NeedsServer(h)
  BY JobTypes, Zenon DEF SenderInputSend, IsOut, OutJobs, J, NeedsServer
<1>2. /\ UNCHANGED <<buf, sending, have, blocked, stream, ahead>> /\ used' = 0
      /\ jobs' = BPending_Set(Tail(jobs), n)
  BY Zenon DEF SenderInputSend, queueVars
<1>3. ~Reports(h) /\ ~Reports(n)' /\ ~OfStream(h) /\ OfStream(n)
  BY Zenon DEF Reports, OfStream, J
<1>4. have /\ stream = Whole /\ ahead[sending] = 0 /\ PacketLen \in Nat \ {0}
  BY <1>1, <1>3, PopOut, OutFacts, Zenon
<1>5. PacketLen' = PacketLen
  BY <1>2, SMTT(30) DEF PacketLen
<1>6. OnItsWay(n)'
  BY <1>2, <1>4, <1>5 DEF OnItsWay, Sent, Whole, J
<1> HIDE DEF h, n
<1> QED
  BY <1>1, <1>2, <1>3, <1>4, <1>6, HandOver, Zenon

LEMMA SenderDoneStream ==
  ASSUME IInv, StreamInv, AheadInv, NEW k \in Nat \ {0}, SenderOutputDone(k) PROVE StreamInv' /\ AheadInv'
<1> DEFINE h == <<"streamDone", k>>
<1>1. BPendingGroup_ExecuteJob(jobs, h) /\ IsOut(h)
  BY Zenon DEF SenderOutputDone, IsOut
<1>2. UNCHANGED <<buf, sending, have, blocked, stream, ahead>> /\ used' = used + k
  BY Zenon DEF SenderOutputDone, queueVars
<1>3. PacketLen' = PacketLen /\ PacketLen \in Nat \ {0} /\ used \in Nat
  BY <1>1, <1>2, OutFacts, Zenon DEF PacketLen, IInv, TypeOK
<1>4. used + k <= PacketLen /\ stream = Sent(used + k)
  BY <1>1, OutFacts DEF OnItsWay
<1>5. ahead[sending] = IF used + k = PacketLen THEN 1 ELSE 0
  <2>1. Reports(h) <=> used + k = PacketLen
    BY DEF Reports
  <2> QED
    BY <1>1, <2>1, OutFacts, Zenon
<1>6. CASE used + k < PacketLen
  <2> DEFINE n == J("streamOp")
  <2>1. jobs' = BPending_Set(Tail(jobs), n)
    BY <1>2, <1>6, Zenon DEF SenderOutputDone
  <2>2. n \in Job /\ IsOut(n) /\ OfStream(n) /\ ~Reports(n)'
    BY JobTypes, Zenon DEF IsOut, OutJobs, OfStream, Reports, J
  <2>3. OnItsWay(n)'
    BY <1>2, <1>3, <1>4, <1>6, Zenon DEF OnItsWay, Sent, Whole, J
  <2>4. ahead[sending] = 0
    BY <1>3, <1>5, <1>6
  <2> HIDE DEF h, n
  <2> QED
    BY <1>1, <1>2, <2>1, <2>2, <2>3, <2>4, HandOver, Zenon
<1>7. CASE used + k = PacketLen
  <2> DEFINE n == J("sendDone")
  <2>1. jobs' = BPending_Set(Tail(jobs), n)
    <3>1. ~(used' < PacketLen)
      BY <1>2, <1>3, <1>7, SMTT(30)
    <3> QED
      BY <3>1, Zenon DEF SenderOutputDone
  <2>2. n \in Job /\ IsOut(n) /\ Reports(n)' /\ OnItsWay(n)'
    BY JobTypes, Zenon DEF IsOut, OutJobs, OnItsWay, Reports, J
  <2>3. stream = Whole /\ ahead[sending] = 1
    BY <1>4, <1>5, <1>7, Zenon DEF Sent
  <2> HIDE DEF h, n
  <2> QED
    BY <1>1, <1>2, <2>1, <2>2, <2>3, HandOver, Zenon
<1> QED
  BY <1>3, <1>4, <1>6, <1>7

\* The socket takes k bytes of what the sender has left.
LEMMA TakesStream ==
  ASSUME IInv, NEW js, NEW k \in 1..(PacketLen - used), SocketTakes(js, k), used < PacketLen,
         stream = Sent(used), PacketLen \in Nat \ {0}, sending \in Flows, ahead[sending] = 0,
         UNCHANGED <<buf, sending, used>>
  PROVE  /\ OnItsWay(<<"streamDone", k>>)'
         /\ \A f \in Flows : f # sending => ahead'[f] = ahead[f]
         /\ ahead'[sending] = IF Reports(<<"streamDone", k>>)' THEN 1 ELSE 0
         /\ <<"streamDone", k>> \in Job /\ jobs' = BPending_Set(js, <<"streamDone", k>>)
         /\ have' = have /\ blocked' = FALSE
<1>1. used \in Nat /\ k \in Nat \ {0} /\ used + k <= PacketLen /\ ahead \in [Flows -> Int]
  BY DEF IInv, TypeOK
<1>2. stream.got = used
  BY <1>1 DEF Sent, Whole
<1>3. PacketLen' = PacketLen
  BY DEF PacketLen
<1>4. /\ stream' = IF used + k = PacketLen THEN Whole ELSE [flow |-> sending, got |-> used + k]
      /\ ahead' = IF used + k = PacketLen THEN [ahead EXCEPT ![sending] = ahead[sending] + 1] ELSE ahead
  BY <1>2, Zenon DEF SocketTakes
<1>5. OnItsWay(<<"streamDone", k>>)'
  BY <1>1, <1>3, <1>4, SMTT(30) DEF OnItsWay, Sent, Whole
<1>6. Reports(<<"streamDone", k>>)' <=> used + k = PacketLen
  BY <1>3, Zenon DEF Reports
<1>7. /\ \A f \in Flows : f # sending => ahead'[f] = ahead[f]
      /\ ahead'[sending] = IF used + k = PacketLen THEN 1 ELSE 0
  BY <1>1, <1>4, SMTT(30)
<1>8. <<"streamDone", k>> \in Job /\ jobs' = BPending_Set(js, <<"streamDone", k>>)
  BY <1>1, JobTypes, Zenon DEF SocketTakes
<1> QED
  BY <1>5, <1>6, <1>7, <1>8, Zenon DEF SocketTakes

LEMMA StreamSendStream ==
  ASSUME IInv, StreamInv, AheadInv, StreamSend PROVE StreamInv' /\ AheadInv'
<1> DEFINE h == J("streamOp")
           R == Elems(Tail(jobs))
<1>1. BPendingGroup_ExecuteJob(jobs, h) /\ IsOut(h) /\ ~Reports(h) /\ h[1] = "streamOp"
  BY Zenon DEF StreamSend, IsOut, OutJobs, J, Reports
<1>2. UNCHANGED <<buf, sending, used>>
  BY Zenon DEF StreamSend, queueVars
<1>3. /\ used < PacketLen /\ stream = Sent(used) /\ ahead[sending] = 0
      /\ PacketLen \in Nat \ {0} /\ sending \in Flows /\ sending # None
  BY <1>1, OutFacts, Zenon DEF OnItsWay
<1>4. CASE \E k \in 1..(PacketLen - used) : SocketTakes(Tail(jobs), k)
  <2>1. PICK k \in 1..(PacketLen - used) : SocketTakes(Tail(jobs), k)
    BY <1>4
  <2> DEFINE n == <<"streamDone", k>>
  <2>2. /\ OnItsWay(n)' /\ \A f \in Flows : f # sending => ahead'[f] = ahead[f]
        /\ ahead'[sending] = IF Reports(n)' THEN 1 ELSE 0
        /\ n \in Job /\ jobs' = BPending_Set(Tail(jobs), n) /\ have' = have /\ blocked' = FALSE
    BY <1>2, <1>3, <2>1, TakesStream, Zenon
  <2>3. IsOut(n) /\ OfStream(n)
    BY DEF IsOut, OfStream
  <2>4. blocked' = blocked
    BY <1>1, <2>2, PopOut, Zenon DEF IInv, TypeOK
  <2> HIDE DEF h, n
  <2> QED
    BY <1>1, <1>2, <2>2, <2>3, <2>4, HandOver, ZenonT(30)
<1>5. CASE jobs' = Tail(jobs) /\ UNCHANGED <<stream, ahead>> /\ (have' => blocked')
  <2>1. Elems(jobs) = R \union {h} /\ \A x \in R : ~IsOut(x)
    BY <1>1, JobsAround, PopOut, Zenon
  <2>2. Elems(jobs)' = R
    BY <1>5, JobsAround, Zenon
  <2>3. PacketLen' = PacketLen
    BY <1>2, SMTT(30) DEF PacketLen
  <2> HIDE DEF R, h
  <2>4. \A x \in R : OnItsWay(x)'
    BY <2>1, Zenon DEF OnItsWay, IsOut, OutJobs
  <2>5. StreamInv'
    BY <1>2, <1>3, <1>5, <2>2, <2>3, <2>4, Zenon DEF StreamInv, Sent, Whole
  <2>6. Elems(jobs)' = R \union {} /\ \A x \in {h} \union {} : IsOut(x)
    BY <1>1, <2>2
  <2>7. AheadInv'
    BY <1>2, <1>3, <1>5, <2>1, <2>6, PathStep, Zenon
  <2> QED
    BY <2>5, <2>7
<1>6. CASE DisconnectServer(Tail(jobs)) \/ (jobs' = Tail(jobs) /\ blocked' = TRUE /\ UNCHANGED <<have, losses, stream, ahead>>)
  BY <1>5, <1>6, Zenon DEF DisconnectServer
<1> QED
  BY <1>4, <1>6, ZenonT(30) DEF StreamSend

LEMMA WritableStream ==
  ASSUME IInv, StreamInv, AheadInv, Writable PROVE StreamInv' /\ AheadInv'
<1>1. Elems(jobs) = {} /\ jobs \in Seq(Job) /\ blocked /\ UNCHANGED <<buf, sending, used>>
  BY JobsAround, Zenon DEF Writable, queueVars, IInv, TypeOK
<1>2. sending # None /\ sending \in Flows /\ PacketLen \in Nat \ {0}
  BY <1>1, PacketOnItsWay, Zenon DEF IInv, Holders
<1>3. used < PacketLen /\ stream = Sent(used) /\ ahead[sending] = 0
  BY <1>1, <1>2, Zenon DEF StreamInv, AheadInv
<1>4. PICK k \in 1..(PacketLen - used) : SocketTakes(jobs, k)
  BY DEF Writable
<1> DEFINE n == <<"streamDone", k>>
<1>5. /\ OnItsWay(n)' /\ \A f \in Flows : f # sending => ahead'[f] = ahead[f]
      /\ ahead'[sending] = IF Reports(n)' THEN 1 ELSE 0
      /\ n \in Job /\ jobs' = BPending_Set(jobs, n) /\ blocked' = FALSE
  BY <1>1, <1>2, <1>3, <1>4, TakesStream, Zenon
<1>6. IsOut(n) /\ OfStream(n)
  BY DEF IsOut, OfStream
<1>7. Elems(jobs)' = Elems(jobs) \union {n}
  BY <1>1, <1>5, JobsAround, Zenon
<1> HIDE DEF n
<1>8. Elems(jobs)' = {} \union {n} /\ Elems(jobs) = {} \union {}
  BY <1>1, <1>7, SMTT(30)
<1>9. StreamInv'
  BY <1>5, <1>6, <1>8, Zenon DEF StreamInv, OfStream
<1>10. (\E x \in {n} : Reports(x)') <=> Reports(n)'
  OBVIOUS
<1>11. AheadInv'
  BY <1>1, <1>2, <1>5, <1>6, <1>8, <1>10, PathStep, ZenonT(30)
<1> QED
  BY <1>9, <1>11, SMTT(30)

LEMMA ServerStream ==
  ASSUME IInv, StreamInv, AheadInv, ServerLost \/ ConnectServer PROVE StreamInv' /\ AheadInv'
<1> DEFINE n == J("sendOp")
<1>1. Elems(jobs) = {} /\ jobs \in Seq(Job) /\ ahead' = ahead
  BY JobsAround, Zenon DEF ServerLost, ConnectServer, DisconnectServer, IInv, TypeOK
<1>2. blocked' = FALSE /\ (have' => stream' = Whole)
  BY Zenon DEF IInv, Holders, TypeOK, ServerLost, ConnectServer, DisconnectServer
<1>3. Elems(jobs)' = {} \/ Elems(jobs)' = {n}
  <2>1. jobs' = jobs \/ jobs' = BPending_Set(jobs, n)
    BY Zenon DEF ServerLost, ConnectServer, DisconnectServer
  <2>2. n \in Job
    BY JobTypes DEF OutJobs
  <2>3. Elems(jobs)' = Elems(jobs) \/ Elems(jobs)' = Elems(jobs) \union {n}
    BY <1>1, <2>1, <2>2, JobsAround, Zenon
  <2> QED
    BY <1>1, <2>3, Zenon
<1>4. OnItsWay(n)' /\ \A f \in Flows : ~Credit(n, f)'
  BY Zenon DEF OnItsWay, Credit, Reports, J
<1> HIDE DEF n
<1>5. StreamInv'
  BY <1>2, <1>3, <1>4, Zenon DEF StreamInv, Whole
<1>6. AheadInv'
  BY <1>1, <1>3, <1>4, Zenon DEF AheadInv
<1> QED
  BY <1>5, <1>6

LEMMA StreamStep ==
  ASSUME IInv, StreamInv, AheadInv, [Next]_vars PROVE StreamInv' /\ AheadInv'
<1>1. CASE UNCHANGED vars
  <2>1. Elems(jobs)' = Elems(jobs)
    BY <1>1, JobsAround, Zenon DEF vars
  <2>2. UNCHANGED <<have, used, blocked, stream, ahead, sending>> /\ PacketLen' = PacketLen
    BY <1>1, Zenon DEF vars, queueVars, outVars, PacketLen
  <2> QED
    BY <2>1, <2>2, QuietStep, Zenon
<1>2. CASE Jobs
  <2>1. ASSUME NEW len \in Lens, NEW k \in 1..len, SenderOutputDone(k) PROVE StreamInv' /\ AheadInv'
    BY <2>1, SenderDoneStream
  <2> QED
    BY <1>2, <2>1, ScheduleQuiet, QueueDoneStream, ConnectorInputStream, ConnectorDoneStream, SenderInputStream,
       StreamSendStream, QueueInputQuiet, BufferDoneStream, Zenon DEF Jobs
<1> QED
  BY <1>1, <1>2, WritableStream, ServerStream, WriteQuiet, Zenon DEF Next

LEMMA StreamInvHolds == Spec => [](IInv /\ StreamInv /\ AheadInv)
<1>1. ASSUME Init PROVE StreamInv /\ AheadInv
  <2>1. Elems(jobs) = {} /\ blocked = FALSE /\ stream = Whole /\ ahead = [f \in Flows |-> 0]
    BY <1>1 DEF Init, Elems
  <2> QED
    BY <2>1, Zenon DEF StreamInv, AheadInv
<1> QED
  BY <1>1, StreamStep, InvHolds, PTL DEF Spec

\* Every server connection carries whole packets, however the socket cuts them
\* and whenever PacketPassConnector is given another PacketStreamSender.
THEOREM StreamCarriesWholePacketsHolds == Spec => []StreamCarriesWholePackets
<1>1. IInv /\ StreamInv => StreamCarriesWholePackets
  <2> SUFFICES ASSUME IInv, StreamInv, jobs = <<>>, have
               PROVE  stream = IF blocked /\ used > 0 THEN [flow |-> sending, got |-> used] ELSE Whole
    BY Zenon DEF StreamCarriesWholePackets
  <2>1. Elems(jobs) = {} /\ used \in Nat
    BY JobsAround, Zenon DEF IInv, TypeOK
  <2>2. CASE blocked
    <3>1. PacketLen \in Nat
      BY <2>2, PacketOnItsWay, Zenon DEF IInv, Holders
    <3> QED
      BY <2>1, <2>2, <3>1, SMTT(30) DEF StreamInv, Sent
  <2>3. CASE ~blocked
    BY <2>1, <2>3, Zenon DEF StreamInv
  <2> QED
    BY <2>2, <2>3, Zenon
<1> QED
  BY <1>1, StreamInvHolds, PTL

\* No packet is lost and none is sent twice: between two events a PacketBuffer
\* has consumed exactly the packets that a server has.
THEOREM TakenOnceHolds == Spec => []TakenOnce
<1>1. IInv /\ AheadInv => TakenOnce
  <2> SUFFICES ASSUME IInv, AheadInv, jobs = <<>> PROVE \A f \in Flows : ahead[f] = 0
    BY DEF TakenOnce
  <2>1. Elems(jobs) = {}
    BY JobsAround, Zenon
  <2> QED
    BY <2>1 DEF AheadInv
<1> QED
  BY <1>1, StreamInvHolds, PTL

-----------------------------------------------------------------------------
(* The send path implements PacketQueues.                                  *)

\* Steps that leave the buffers and the stream alone are not seen.
LEMMA UnseenStep ==
  ASSUME UNCHANGED <<buf, ahead, stream>> PROVE UNCHANGED Queues!vars
BY Zenon DEF Queues!vars, Waiting

\* Bytes that the socket takes are bytes that the server receives.
LEMMA TakesReceives ==
  ASSUME IInv, NEW js, NEW k \in 1..(PacketLen - used), SocketTakes(js, k), used < PacketLen,
         stream = Sent(used), PacketLen \in Nat \ {0}, sending \in Flows, ahead[sending] = 0,
         sending # None, UNCHANGED <<buf, sending, used>>
  PROVE  Queues!Next
<1>1. /\ used \in Nat /\ k \in Nat \ {0} /\ used + k <= PacketLen /\ ahead \in [Flows -> Int]
      /\ buf[sending] \in Seq(Lens) /\ buf[sending] # <<>>
  BY SMTT(30) DEF IInv, TypeOK, Holders
<1>2. stream.got = used /\ stream.flow \in {None, sending}
  BY <1>1, SMTT(30) DEF Sent, Whole
<1>3. /\ stream' = IF used + k = PacketLen THEN Whole ELSE [flow |-> sending, got |-> used + k]
      /\ ahead' = IF used + k = PacketLen THEN [ahead EXCEPT ![sending] = ahead[sending] + 1] ELSE ahead
  BY <1>2, Zenon DEF SocketTakes
<1>4. Waiting[sending] = buf[sending] /\ Head(Waiting[sending]) = PacketLen
  BY DEF Waiting, PacketLen
<1>5. CASE used + k = PacketLen
  <2>1. ahead' = [ahead EXCEPT ![sending] = 1]
    BY <1>3, <1>5
  <2>2. Waiting' = [Waiting EXCEPT ![sending] = Tail(Waiting[sending])]
    <3>1. \A g \in Flows : ahead'[g] = IF g = sending THEN 1 ELSE ahead[g]
      BY <1>1, <2>1, ZenonT(30)
    <3>2. \A g \in Flows : Waiting'[g] = IF g = sending THEN Tail(buf[g]) ELSE Waiting[g]
      BY <3>1, SMTT(30) DEF Waiting
    <3>3. Waiting = [g \in Flows |-> Waiting[g]] /\ Waiting' = [g \in Flows |-> Waiting'[g]]
      BY Zenon DEF Waiting
    <3> QED
      BY <1>4, <3>2, <3>3, ZenonT(30)
  <2>3. Queues!ReceiveRest(sending)
    BY <1>1, <1>2, <1>3, <1>4, <1>5, <2>2, Zenon DEF Queues!ReceiveRest, Queues!Nothing, Whole
  <2> QED
    BY <2>3, Zenon DEF Queues!Next
<1>6. CASE used + k # PacketLen
  <2>1. used + k \in (stream.got + 1)..(Head(Waiting[sending]) - 1)
    BY <1>1, <1>2, <1>4, <1>6, SMTT(30)
  <2>2. Waiting' = Waiting
    BY <1>3, <1>6, ZenonT(30) DEF Waiting
  <2>3. Waiting[sending] # <<>> /\ stream' = [flow |-> sending, got |-> used + k]
    BY <1>1, <1>3, <1>4, <1>6, Zenon
  <2>4. Queues!ReceivePart(sending)
    BY <1>2, <2>1, <2>2, <2>3, Zenon DEF Queues!ReceivePart
  <2> QED
    BY <2>4, Zenon DEF Queues!Next
<1> QED
  BY <1>5, <1>6, SMTT(30)

LEMMA StreamSendReceives ==
  ASSUME IInv, StreamInv, AheadInv, StreamSend PROVE [Queues!Next]_(Queues!vars)
<1> DEFINE h == J("streamOp")
<1>1. BPendingGroup_ExecuteJob(jobs, h) /\ IsOut(h) /\ ~Reports(h) /\ h[1] = "streamOp"
  BY DEF StreamSend, IsOut, OutJobs, J, Reports
<1>2. UNCHANGED <<buf, sending, used>>
  BY DEF StreamSend, queueVars
<1>3. /\ used < PacketLen /\ stream = Sent(used) /\ ahead[sending] = 0
      /\ PacketLen \in Nat \ {0} /\ sending \in Flows /\ sending # None
  <2> HIDE DEF h
  <2>1. /\ OnItsWay(h) /\ ahead[sending] = IF Reports(h) THEN 1 ELSE 0
        /\ PacketLen \in Nat \ {0} /\ sending \in Flows /\ sending # None
    BY <1>1, OutFacts, Zenon
  <2> QED
    BY <1>1, <2>1, Zenon DEF OnItsWay
<1>4. ASSUME NEW k \in 1..(PacketLen - used), SocketTakes(Tail(jobs), k) PROVE Queues!Next
  BY <1>2, <1>3, <1>4, TakesReceives, Zenon
<1>5. CASE UNCHANGED <<stream, ahead>>
  BY <1>2, <1>5, UnseenStep, Zenon
<1> QED
  BY <1>4, <1>5, ZenonT(30) DEF StreamSend, DisconnectServer

LEMMA WritableReceives ==
  ASSUME IInv, StreamInv, AheadInv, Writable PROVE Queues!Next
<1>1. Elems(jobs) = {} /\ blocked /\ UNCHANGED <<buf, sending, used>>
  BY JobsAround, Zenon DEF Writable, queueVars
<1>2. sending # None /\ sending \in Flows /\ PacketLen \in Nat \ {0}
  <2>1. sending # None
    BY <1>1, Zenon DEF IInv, Holders
  <2> QED
    BY <2>1, PacketOnItsWay, Zenon
<1>3. used < PacketLen /\ stream = Sent(used) /\ ahead[sending] = 0
  BY <1>1, <1>2, Zenon DEF StreamInv, AheadInv
<1>4. PICK k \in 1..(PacketLen - used) : SocketTakes(jobs, k)
  BY DEF Writable
<1> QED
  BY <1>1, <1>2, <1>3, <1>4, TakesReceives, ZenonT(30)

\* Space in the buffer is space in the queue, since no report is pending.
LEMMA WriteAccepts ==
  ASSUME IInv, AheadInv, NEW f \in Flows, NEW len \in Lens, Write(f, len) PROVE Queues!Next
<1>1. Elems(jobs) = {}
  BY JobsAround, Zenon DEF Write
<1>2. ahead[f] = 0 /\ UNCHANGED <<ahead, stream>>
  BY <1>1, Zenon DEF AheadInv, Write, outVars
<1>3. buf \in [Flows -> Seq(Lens)] /\ buf' = [buf EXCEPT ![f] = Append(buf[f], len)] /\ Len(buf[f]) < BufferSize
  BY Zenon DEF IInv, TypeOK, Write
<1>4. Waiting[f] = buf[f] /\ Waiting' = [Waiting EXCEPT ![f] = Append(Waiting[f], len)]
  <2>1. Waiting[f] = buf[f]
    BY <1>2 DEF Waiting
  <2> DEFINE b == Append(buf[f], len)
  <2>2. buf' = [buf EXCEPT ![f] = b]
    BY <1>3, Zenon
  <2> HIDE DEF b
  <2>3. Waiting' = [Waiting EXCEPT ![f] = b]
    <3>1. \A g \in Flows : buf'[g] = IF g = f THEN b ELSE buf[g]
      BY <1>3, <2>2, ZenonT(30)
    <3>2. \A g \in Flows : Waiting'[g] = IF g = f THEN b ELSE Waiting[g]
      BY <1>2, <3>1, SMTT(30) DEF Waiting
    <3>3. Waiting = [g \in Flows |-> Waiting[g]] /\ Waiting' = [g \in Flows |-> Waiting'[g]]
      BY Zenon DEF Waiting
    <3> QED
      BY <3>2, <3>3, Zenon
  <2> QED
    BY <2>1, <2>3, Zenon DEF b
<1>5. Queues!Accept(f, len)
  BY <1>2, <1>3, <1>4, Zenon DEF Queues!Accept
<1> QED
  BY <1>5, Zenon DEF Queues!Next

\* A packet that is consumed has left its queue when the server had all of it.
LEMMA ConsumeUnseen ==
  ASSUME IInv, AheadInv, NEW f \in Flows, BufferOutputDone(f) PROVE UNCHANGED Queues!vars
<1>1. Elems(jobs) = Elems(Tail(jobs)) \union {<<"done", f>>}
  BY JobsAround, Zenon DEF BufferOutputDone
<1>2. ahead[f] = 1
  BY <1>1, Zenon DEF AheadInv, Credit
<1>3. /\ buf \in [Flows -> Seq(Lens)] /\ buf' = [buf EXCEPT ![f] = Tail(buf[f])]
      /\ ahead \in [Flows -> Int] /\ ahead' = [ahead EXCEPT ![f] = 0] /\ stream' = stream
  <2>1. buf \in [Flows -> Seq(Lens)] /\ ahead \in [Flows -> Int]
    BY Zenon DEF IInv, TypeOK
  <2> QED
    BY <1>2, <2>1 DEF BufferOutputDone
<1>4. Waiting' = Waiting
  BY <1>2, <1>3 DEF Waiting
<1> QED
  BY <1>3, <1>4 DEF Queues!vars

LEMMA QueuesStep ==
  ASSUME IInv, StreamInv, AheadInv, [Next]_vars PROVE [Queues!Next]_(Queues!vars)
<1>1. CASE \/ ScheduleJob \/ QueueOutputDone \/ ConnectorInputSend \/ ConnectorOutputDone \/ SenderInputSend
           \/ ServerLost \/ UNCHANGED vars
  <2>1. UNCHANGED <<buf, ahead, stream>>
    BY <1>1, Zenon DEF ScheduleJob, QueueOutputDone, ConnectorInputSend, ConnectorOutputDone, SenderInputSend,
                ServerLost, DisconnectServer, vars, outVars
  <2> QED
    BY <2>1, UnseenStep, ZenonT(30)
<1>2. ASSUME NEW f \in Flows, QueueInputSend(f) PROVE UNCHANGED Queues!vars
  BY <1>2, UnseenStep, Zenon DEF QueueInputSend, outVars
<1>3. ASSUME NEW n, SenderOutputDone(n) PROVE UNCHANGED Queues!vars
  BY <1>3, UnseenStep, Zenon DEF SenderOutputDone
<1>4. CASE ConnectServer
  <2>1. stream' = Whole /\ UNCHANGED <<buf, ahead>>
    BY <1>4, Zenon DEF ConnectServer
  <2>2. Queues!NewConnection
    BY <2>1, Zenon DEF Queues!NewConnection, Queues!Nothing, Whole, Waiting
  <2> QED
    BY <2>2 DEF Queues!Next
<1> QED
  BY <1>1, <1>2, <1>3, <1>4, StreamSendReceives, WritableReceives, WriteAccepts, ConsumeUnseen, Zenon DEF Next, Jobs

\* The send path implements PacketQueues for any number of flows, packet lengths
\* and buffer sizes, and for any sequence of lost connections.
THEOREM ImplementsQueuesHolds == Spec => ImplementsQueues
<1>1. Init => Queues!Init
  <2> SUFFICES ASSUME Init PROVE Queues!Init
    OBVIOUS
  <2>1. Waiting = [f \in Flows |-> <<>>]
    BY DEF Init, Waiting
  <2> QED
    BY <2>1, Zenon DEF Init, Queues!Init, Queues!Nothing, Whole
<1> QED
  BY <1>1, QueuesStep, StreamInvHolds, PTL DEF Spec, ImplementsQueues, Queues!Spec

=============================================================================
